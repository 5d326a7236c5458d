--------------------------- MODULE MCPolicyStore ---------------------------
(* Instances of PolicyStore for TLC.                                       *)
EXTENDS PolicyStore, TLC

AnyWriters == {{"put"}, {"sync"}, {"put", "sync"}}
PutOnly == {{"put"}}
Symmetry == Permutations(Pushers)
==========================================================================
