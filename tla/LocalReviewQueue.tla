------------------------ MODULE LocalReviewQueue ------------------------
(***************************************************************************)
(* The human-approval queue of engine/internal/queue/queue.go without      *)
(* Redis: a map guarded by one mutex and written through to SQLite         *)
(* (NewSQLite), which is what survives a restart.                          *)
(*                                                                         *)
(* set, resolveIfPending and markRedeemed each run under the mutex and are *)
(* one step.  Redeem is two: it copies the item and checks the copy, lets  *)
(* go of the mutex, and takes it again in markRedeemed.  A write to SQLite *)
(* may fail, and the engine may stop at any point and be started again.    *)
(***************************************************************************)
EXTENDS Naturals

CONSTANTS Items, Callers, Prints, Unbound, NoItem,
          PendingMaxAge, ApprovalTTL, ResolvedRetention,
          Horizon            \* the clock stops here (bound of the model)

Verdicts == {"approved", "denied"}

ASSUME LocalPeriodsAssumption ==
  /\ PendingMaxAge \in Nat
  /\ ApprovalTTL \in Nat
  /\ ResolvedRetention \in Nat
  /\ Horizon \in Nat
  /\ ApprovalTTL <= ResolvedRetention

ASSUME LocalSymbolsAssumption ==
  /\ Unbound \notin Prints
  /\ NoItem \notin Items

VARIABLES
  now,    \* the clock
  up,     \* the engine is running
  mem,    \* inMemoryStore.items; status "absent" when the ID is not in the map
  disk,   \* review_queue: the payload last written for the ID
  rows,   \* the IDs that have a row in review_queue
  call,   \* Redeem calls between the check and markRedeemed
  hist    \* what callers have been told (history, never read)

vars == <<now, up, mem, disk, rows, call, hist>>

ReviewRequest ==
  [status : {"absent", "pending"} \cup Verdicts,
   enqueuedAt : Nat, resolvedAt : Nat, redeemed : BOOLEAN,
   fingerprint : Prints \cup {Unbound}]

Absent == [status |-> "absent", enqueuedAt |-> 0, resolvedAt |-> 0,
           redeemed |-> FALSE, fingerprint |-> Unbound]

Call == [id : Items \cup {NoItem}, print : Prints \cup {Unbound}]
NoCall == [id |-> NoItem, print |-> Unbound]

History == [wins : Nat, told : SUBSET Verdicts,
            spends : Nat, paid : SUBSET (Prints \cup {Unbound})]

\* A pending item past PendingMaxAge is expired.
expiredIfStale(req) ==
  IF req.status = "pending" /\ now > req.enqueuedAt + PendingMaxAge
    THEN "expired" ELSE req.status

Init ==
  /\ now = 0
  /\ up = TRUE
  /\ mem = [i \in Items |-> Absent]
  /\ disk = [i \in Items |-> Absent]
  /\ rows = {}
  /\ call = [c \in Callers |-> NoCall]
  /\ hist = [i \in Items |-> [wins |-> 0, told |-> {}, spends |-> 0, paid |-> {}]]

---------------------------------------------------------------------------
\* Mutant of persist: a failed write is not rolled back.
persist_NoRollback(i, req) ==
  /\ mem' = [mem EXCEPT ![i] = req]
  /\ \/ disk' = [disk EXCEPT ![i] = req] /\ rows' = rows \cup {i}
     \/ UNCHANGED <<disk, rows>>

\* The write-through of one item: the row and the map both change, or the
\* write fails, the map is rolled back and nothing has happened.
persist(i, req) ==
  \/ /\ disk' = [disk EXCEPT ![i] = req]
     /\ rows' = rows \cup {i}
     /\ mem' = [mem EXCEPT ![i] = req]
  \/ UNCHANGED <<disk, rows, mem>>

\* EnqueueRequest: the ID is a fresh UUID, one that was never written.
set(i, f) ==
  /\ up
  /\ disk[i].status = "absent"
  /\ persist(i, [Absent EXCEPT !.status = "pending", !.enqueuedAt = now,
                               !.fingerprint = f])
  /\ UNCHANGED <<now, up, call, hist>>

\* Mutant of resolveIfPending: the status reported for the item is stored.
resolveIfPending_StoreReported(i, v) ==
  /\ up
  /\ mem[i].status = "pending"
  /\ persist(i, [mem[i] EXCEPT !.status = IF expiredIfStale(mem[i]) = "pending" THEN v
                                          ELSE expiredIfStale(mem[i]),
                               !.resolvedAt = now])
  /\ UNCHANGED <<now, up, call, hist>>

resolveIfPending(i, v) ==
  /\ up
  /\ expiredIfStale(mem[i]) = "pending"
  /\ persist(i, [mem[i] EXCEPT !.status = v, !.resolvedAt = now])
  /\ hist' = IF mem' = mem THEN hist
             ELSE [hist EXCEPT ![i].wins = @ + 1, ![i].told = @ \cup {v}]
  /\ UNCHANGED <<now, up, call>>

\* Mutant of RedeemGet: any decided item is redeemable.
RedeemGet_AnyVerdict(c, i, f) ==
  /\ up
  /\ call[c] = NoCall
  /\ expiredIfStale(mem[i]) \in Verdicts
  /\ mem[i].fingerprint # Unbound
  /\ mem[i].fingerprint = f
  /\ now <= mem[i].resolvedAt + ApprovalTTL
  /\ call' = [call EXCEPT ![c] = [id |-> i, print |-> f]]
  /\ UNCHANGED <<now, up, mem, disk, rows, hist>>

\* Redeem, up to the release of the mutex by get().
RedeemGet(c, i, f) ==
  /\ up
  /\ call[c] = NoCall
  /\ expiredIfStale(mem[i]) = "approved"
  /\ mem[i].fingerprint # Unbound
  /\ mem[i].fingerprint = f
  /\ now <= mem[i].resolvedAt + ApprovalTTL
  /\ call' = [call EXCEPT ![c] = [id |-> i, print |-> f]]
  /\ UNCHANGED <<now, up, mem, disk, rows, hist>>

\* Mutant of markRedeemed: the checks made on the copy are trusted.
markRedeemed_NoCheck(c) ==
  LET i == call[c].id
  IN  /\ i # NoItem
      /\ call' = [call EXCEPT ![c] = NoCall]
      /\ mem' = [mem EXCEPT ![i].redeemed = TRUE]
      /\ disk' = [disk EXCEPT ![i].redeemed = TRUE]
      /\ hist' = [hist EXCEPT ![i].spends = @ + 1, ![i].paid = @ \cup {call[c].print}]
      /\ UNCHANGED <<now, up, rows>>

\* markRedeemed looks at RedeemedAt only: the other checks were made on the
\* copy.
markRedeemed(c) ==
  LET i == call[c].id
  IN  /\ i # NoItem
      /\ call' = [call EXCEPT ![c] = NoCall]
      /\ IF mem[i].status # "absent" /\ ~ mem[i].redeemed
           THEN /\ persist(i, [mem[i] EXCEPT !.redeemed = TRUE])
                /\ hist' = IF mem' = mem THEN hist
                           ELSE [hist EXCEPT ![i].spends = @ + 1,
                                             ![i].paid = @ \cup {call[c].print}]
           ELSE UNCHANGED <<mem, disk, rows, hist>>
      /\ UNCHANGED <<now, up>>

---------------------------------------------------------------------------
\* The engine stops: the map and the calls in progress are gone.
Stop ==
  /\ up
  /\ up' = FALSE
  /\ mem' = [i \in Items |-> Absent]
  /\ call' = [c \in Callers |-> NoCall]
  /\ UNCHANGED <<now, disk, rows, hist>>

\* NewSQLite: load() reads every row except resolved ones past their
\* retention, which it deletes, best effort.
load ==
  LET expired == {i \in rows : /\ disk[i].status \in Verdicts
                               /\ now > disk[i].resolvedAt + ResolvedRetention}
  IN  /\ ~ up
      /\ up' = TRUE
      /\ mem' = [i \in Items |-> IF i \in rows \ expired THEN disk[i] ELSE Absent]
      /\ \E deleted \in SUBSET expired : rows' = rows \ deleted
      /\ UNCHANGED <<now, disk, call, hist>>

Tick ==
  /\ now < Horizon
  /\ now' = now + 1
  /\ UNCHANGED <<up, mem, disk, rows, call, hist>>

Next ==
  \/ Tick \/ Stop \/ load
  \/ \E i \in Items :
       \/ \E f \in Prints \cup {Unbound} : set(i, f)
       \/ \E v \in Verdicts : resolveIfPending(i, v)
       \/ \E c \in Callers, f \in Prints \cup {Unbound} : RedeemGet(c, i, f)
  \/ \E c \in Callers : markRedeemed(c)

Spec == Init /\ [][Next]_vars

---------------------------------------------------------------------------
(* Properties                                                              *)

TypeOK ==
  /\ now \in Nat
  /\ up \in BOOLEAN
  /\ mem \in [Items -> ReviewRequest]
  /\ disk \in [Items -> ReviewRequest]
  /\ rows \in SUBSET Items
  /\ call \in [Callers -> Call]
  /\ hist \in [Items -> History]

\* What a running engine serves is what the database holds, or it serves
\* nothing because the row was past its retention at the last start.
MemoryMatchesDisk ==
  up => \A i \in Items : mem[i] = disk[i] \/ (mem[i] = Absent /\ disk[i].status \in Verdicts)

\* A reviewer who was told the decision was applied finds it in the database
\* for good, over any number of restarts, and no second reviewer is told so.
DecisionSurvives ==
  \A i \in Items : /\ hist[i].wins <= 1
                   /\ hist[i].told \subseteq {disk[i].status}

\* An approval buys one execution of the payload it was bound to, also when
\* the engine is restarted between two redemptions or in the middle of one.
RedeemSound ==
  \A i \in Items :
    /\ hist[i].spends <= 1
    /\ hist[i].spends = 1 => /\ disk[i].status = "approved"
                             /\ disk[i].redeemed
                             /\ hist[i].paid = {disk[i].fingerprint}
                             /\ disk[i].fingerprint # Unbound

\* What the queue keeps (inMemoryStore): the three above.
QueueKeeps == MemoryMatchesDisk /\ DecisionSurvives /\ RedeemSound

\* The local queue implements the lifecycle it promises.
Lifecycle ==
  INSTANCE ReviewLifecycle
    WITH verdict <- [i \in Items |-> disk[i].status],
         spent <- {i \in Items : disk[i].redeemed}

\* Every step of the local queue is a step of ReviewLifecycle or changes
\* nothing the lifecycle talks about.
ImplementsLifecycle == Lifecycle!Spec
==========================================================================
