------------------------------ MODULE MCEngine ------------------------------
(* The parts of module Engine on small instances.                           *)
EXTENDS Engine, TLC

CONSTANTS read, write   \* scopes: the server supports one of them

\* A client registers for everything or for a scope the server lacks.
AskedScopes == {{}, {write}}

\* A call that loops when it comes twice in a window, and one that both kinds
\* of rules stop.
ToolCall(key, tier1, hookify) == [key |-> key, tier1 |-> tier1, hookify |-> hookify]
SomeCalls == {ToolCall("build", "allow", "allow"), ToolCall(NoKey, "ask", "deny")}

\* Calls under way are interchangeable (Callers, Slots and HookSlots are the
\* same set), and so are launchers.
Symmetry == Permutations(Callers) \cup Permutations(Launchers)
=============================================================================
