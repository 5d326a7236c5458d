------------------------- MODULE ReviewLifecycle -------------------------
(***************************************************************************)
(* What the human-approval queue promises, whatever store is behind it.    *)
(*                                                                         *)
(* A review item is submitted once, decided at most once, and an approval  *)
(* buys one execution of the payload it was given for.  Ageing is left to  *)
(* the detailed modules: an item nobody decides simply stays pending here. *)
(***************************************************************************)
CONSTANTS Items,     \* review IDs (fresh UUIDs: an ID is submitted once)
          Verdicts   \* what a reviewer can answer

VARIABLES verdict,   \* verdict[i]: the state of the item
          spent      \* the items whose approval has bought its execution

vars == <<verdict, spent>>

Init ==
  /\ verdict = [i \in Items |-> "absent"]
  /\ spent = {}

\* An agent's action is flagged: the item starts to wait for a human.
Submit(i) ==
  /\ verdict[i] = "absent"
  /\ verdict' = [verdict EXCEPT ![i] = "pending"]
  /\ UNCHANGED spent

\* A human decides.  There is no second decision and no way back.
Decide(i, v) ==
  /\ verdict[i] = "pending"
  /\ verdict' = [verdict EXCEPT ![i] = v]
  /\ UNCHANGED spent

\* The agent executes what was approved, once.
Spend(i) ==
  /\ verdict[i] = "approved"
  /\ i \notin spent
  /\ spent' = spent \cup {i}
  /\ UNCHANGED verdict

Next == \E i \in Items : Submit(i) \/ Spend(i) \/ \E v \in Verdicts : Decide(i, v)

Spec == Init /\ [][Next]_vars
==========================================================================
