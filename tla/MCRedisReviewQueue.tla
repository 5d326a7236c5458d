----------------------- MODULE MCRedisReviewQueue -----------------------
(* Small instances of RedisReviewQueue for TLC.                            *)
EXTENDS RedisReviewQueue, TLC

\* Items, callers and fingerprints are interchangeable.
Symmetry == Permutations(Items) \cup Permutations(Callers) \cup Permutations(Prints)
==========================================================================
