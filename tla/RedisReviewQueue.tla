------------------------ MODULE RedisReviewQueue ------------------------
(***************************************************************************)
(* The human-approval queue of engine/internal/queue/queue.go on its Redis *)
(* backend.                                                                *)
(*                                                                         *)
(* Every operation of the queue is a sequence of Redis commands issued by  *)
(* an HTTP handler of some engine replica; a command is atomic, an         *)
(* operation is not.  A caller is such a handler: `call' holds where it    *)
(* stands and what it read.  `faults' says what may go wrong:              *)
(*   "refused"  the command is not executed and the caller sees an error   *)
(*              (Redis down, or the request's context was cancelled);      *)
(*   "lost"     it is executed but the reply is lost and the caller sees   *)
(*              an error; for a SET NX also a reply the client library     *)
(*              obtained by retrying, which reports the caller's own claim *)
(*              as somebody else's;                                        *)
(*   "crash"    the replica dies and the call is never answered.           *)
(*                                                                         *)
(* Time is a counter in an arbitrary unit.  Keys with a TTL carry the      *)
(* instant they disappear at.  CallSpan bounds how long one call can last  *)
(* (the HTTP server and the Redis client both have timeouts of seconds,    *)
(* the retention periods are days).                                        *)
(***************************************************************************)
EXTENDS Naturals, FiniteSets

CONSTANTS Items,              \* review IDs
          NoItem,             \* what an idle caller works on
          Callers,            \* concurrent HTTP handlers, over all replicas
          Prints,             \* payload fingerprints
          Unbound,            \* the empty fingerprint
          Regimes,            \* the sets of faults to consider, see above
          PendingMaxAge,      \* an undecided item expires after this
          ApprovalTTL,        \* an approval is redeemable for this long
          ResolvedRetention,  \* TTL of resolved items and of both locks
          CallSpan,           \* no call lasts longer than this
          Horizon             \* the clock stops here (bound of the model)

Verdicts == {"approved", "denied"}
FaultKinds == {"refused", "lost", "crash"}

\* The periods of queue.go are 7 days, 15 minutes and 30 days; a call lasts
\* seconds.
ASSUME PeriodsAssumption ==
  /\ PendingMaxAge \in Nat
  /\ ApprovalTTL \in Nat
  /\ ResolvedRetention \in Nat
  /\ CallSpan \in Nat
  /\ Horizon \in Nat
  /\ PendingMaxAge + CallSpan < ResolvedRetention
  /\ ApprovalTTL + CallSpan + CallSpan < ResolvedRetention

ASSUME SymbolsAssumption ==
  /\ Unbound \notin Prints
  /\ NoItem \notin Items
  /\ Regimes \subseteq SUBSET FaultKinds

VARIABLES
  faults,       \* what can go wrong in this behaviour
  now,          \* the clock
  payload,      \* lelu:review:pending:<id>, the JSON of the item
  index,        \* lelu:review:pending-index, the IDs listed to reviewers
  resolveLock,  \* lelu:review:resolve-lock:<id>: when it disappears, 0 if unset
  redeemLock,   \* lelu:review:redeemed:<id>: when it disappears, 0 if unset
  call,         \* what each caller is doing
  hist          \* what callers have been told (history, never read)

vars == <<faults, now, payload, index, resolveLock, redeemLock, call, hist>>

---------------------------------------------------------------------------
(* Stored items and calls                                                  *)

ReviewRequest ==
  [status : {"absent", "pending"} \cup Verdicts,
   enqueuedAt : Nat, resolvedAt : Nat,
   goneAt : Nat,                        \* end of the key's TTL, once resolved
   fingerprint : Prints \cup {Unbound}]

PCs == {"idle", "zadd", "xadd", "claim", "store", "release", "unlist",
        "spend", "mget", "trim"}

Call == [pc : PCs, id : Items \cup {NoItem}, verdict : Verdicts,
         print : Prints \cup {Unbound},
         began : Nat,                   \* when the handler read the item
         at : Nat,                      \* resolve()'s now
         ids : SUBSET Items]            \* a listing's page

\* A call at pc p on item i, with verdict v or fingerprint f to apply.
CallAt(p, i, v, f, b, a, s) ==
  [pc |-> p, id |-> i, verdict |-> v, print |-> f, began |-> b, at |-> a, ids |-> s]
NoCall == CallAt("idle", NoItem, "denied", Unbound, 0, 0, {})

History == [submitted : BOOLEAN, wins : Nat, told : SUBSET Verdicts,
            spends : Nat, paid : SUBSET (Prints \cup {Unbound})]

Told(sub, w, t, n, p) ==
  [submitted |-> sub, wins |-> w, told |-> t, spends |-> n, paid |-> p]

Item(st, enq, res, gone, f) ==
  [status |-> st, enqueuedAt |-> enq, resolvedAt |-> res, goneAt |-> gone,
   fingerprint |-> f]

\* The key exists: pending items have no TTL, resolved ones a TTL of
\* ResolvedRetention.
Present(i) ==
  \/ payload[i].status = "pending"
  \/ payload[i].status \in Verdicts /\ now < payload[i].goneAt

\* The status Get reports: a pending item past PendingMaxAge is expired.
expiredIfStale(i) ==
  IF payload[i].status = "pending" /\ now > payload[i].enqueuedAt + PendingMaxAge
    THEN "expired" ELSE payload[i].status

\* Mutant of EffectiveStatus: ageing is forgotten.
EffectiveStatus_NoAge(i) == IF Present(i) THEN payload[i].status ELSE "absent"

EffectiveStatus(i) == IF Present(i) THEN expiredIfStale(i) ELSE "absent"

\* Mutant of Free: SET without NX.
Free_Always(lock, i) == TRUE

\* SET key value NX EX ResolvedRetention succeeds when the key is not there.
Free(lock, i) == lock[i] <= now

\* The outcomes of a command.
Outcomes == {"ok"} \cup (faults \cap {"refused", "lost"})

Idle(c) == call[c].pc = "idle"
At(c, pc) == call[c].pc = pc
Do(c, work) == call' = [call EXCEPT ![c] = work]
Goto(c, p) == Do(c, CallAt(p, call[c].id, call[c].verdict, call[c].print,
                           call[c].began, call[c].at, {}))
Return(c) == Do(c, NoCall)

\* What the callers are told, in the history.
TellSubmitted(i) ==
  hist' = [hist EXCEPT ![i] =
             Told(TRUE, hist[i].wins, hist[i].told, hist[i].spends, hist[i].paid)]
TellDecided(i, v) ==
  hist' = [hist EXCEPT ![i] =
             Told(hist[i].submitted, hist[i].wins + 1, hist[i].told \cup {v},
                  hist[i].spends, hist[i].paid)]
TellAllowed(i, f) ==
  hist' = [hist EXCEPT ![i] =
             Told(hist[i].submitted, hist[i].wins, hist[i].told,
                  hist[i].spends + 1, hist[i].paid \cup {f})]

---------------------------------------------------------------------------
Init ==
  /\ faults \in Regimes
  /\ now = 0
  /\ payload = [i \in Items |-> Item("absent", 0, 0, 0, Unbound)]
  /\ index = {}
  /\ resolveLock = [i \in Items |-> 0]
  /\ redeemLock = [i \in Items |-> 0]
  /\ call = [c \in Callers |-> NoCall]
  /\ hist = [i \in Items |-> Told(FALSE, 0, {}, 0, {})]

---------------------------------------------------------------------------
(* EnqueueRequest: SET the payload, ZADD it to the index, XADD the         *)
(* notification.  Any error is returned to the agent, which then has no    *)
(* review ID.                                                              *)

EnqueueSet(c, i, f) ==
  /\ Idle(c)
  /\ payload[i].status = "absent"
  /\ payload' = [payload EXCEPT ![i] = Item("pending", now, 0, 0, f)]
  /\ \/ Do(c, CallAt("zadd", i, "denied", Unbound, now, 0, {}))
     \/ "lost" \in faults /\ UNCHANGED call
  /\ UNCHANGED <<faults, now, index, resolveLock, redeemLock, hist>>

EnqueueZAdd(c) ==
  /\ At(c, "zadd")
  /\ \E out \in Outcomes :
       /\ index' = IF out = "refused" THEN index ELSE index \cup {call[c].id}
       /\ IF out = "ok" THEN Goto(c, "xadd") ELSE Return(c)
  /\ UNCHANGED <<faults, now, payload, resolveLock, redeemLock, hist>>

\* The stream only notifies; whether the agent gets its review ID depends on it.
EnqueueXAdd(c) ==
  /\ At(c, "xadd")
  /\ \E out \in Outcomes :
       IF out = "ok" THEN TellSubmitted(call[c].id) ELSE UNCHANGED hist
  /\ Return(c)
  /\ UNCHANGED <<faults, now, payload, index, resolveLock, redeemLock>>

---------------------------------------------------------------------------
(* resolve: Get, SET NX the resolve lock, SET the payload, ZREM the index  *)
(* entry.  A failed SET releases the lock, best effort.                    *)

ResolveGet(c, i, v) ==
  /\ Idle(c)
  /\ EffectiveStatus(i) = "pending"
  /\ Do(c, CallAt("claim", i, v, Unbound, now, 0, {}))
  /\ UNCHANGED <<faults, now, payload, index, resolveLock, redeemLock, hist>>

\* The resolver has the lock; resolve() takes the time of the resolution.
Hold(c) == Do(c, CallAt("store", call[c].id, call[c].verdict, Unbound,
                        call[c].began, now, {}))

\* Mutant of ResolveClaim: the entry leaves the index before the decision is
\* stored.
ResolveClaim_UnlistFirst(c) ==
  /\ At(c, "claim")
  /\ Free(resolveLock, call[c].id)
  /\ resolveLock' = [resolveLock EXCEPT ![call[c].id] = now + ResolvedRetention]
  /\ index' = index \ {call[c].id}
  /\ Hold(c)
  /\ UNCHANGED <<faults, now, payload, redeemLock, hist>>

\* Mutant of ResolveClaim: the age is checked again and the lock kept.
ResolveClaim_KeepLock(c) ==
  /\ At(c, "claim")
  /\ IF Free(resolveLock, call[c].id)
       THEN /\ resolveLock' = [resolveLock EXCEPT ![call[c].id] = now + ResolvedRetention]
            /\ IF EffectiveStatus(call[c].id) = "pending"
                 THEN Hold(c)
                 ELSE Return(c)
       ELSE Return(c) /\ UNCHANGED resolveLock
  /\ UNCHANGED <<faults, now, payload, index, redeemLock, hist>>

ResolveClaim(c) ==
  /\ At(c, "claim")
  /\ IF Free(resolveLock, call[c].id)
       THEN \E out \in Outcomes :
              /\ resolveLock' = IF out = "refused" THEN resolveLock
                                ELSE [resolveLock EXCEPT ![call[c].id] = now + ResolvedRetention]
              /\ IF out = "ok"
                   THEN Hold(c)
                   ELSE Return(c)
       ELSE Return(c) /\ UNCHANGED resolveLock          \* ErrAlreadyResolved
  /\ UNCHANGED <<faults, now, payload, index, redeemLock, hist>>

\* The item as it was read, plus the decision.
Decided(c, v) ==
  Item(v, payload[call[c].id].enqueuedAt, call[c].at, now + ResolvedRetention,
       payload[call[c].id].fingerprint)

\* Mutant of ResolveStore: the status Get reported is written back.
ResolveStore_KeepStatus(c) ==
  /\ At(c, "store")
  /\ payload' = [payload EXCEPT ![call[c].id] = Decided(c, expiredIfStale(call[c].id))]
  /\ Goto(c, "unlist")
  /\ UNCHANGED <<faults, now, index, resolveLock, redeemLock, hist>>

\* SET writes the whole item back, as read by ResolveGet plus the decision;
\* only the fields below differ from the stored ones.
ResolveStore(c) ==
  /\ At(c, "store")
  /\ \E out \in Outcomes :
       /\ payload' = IF out = "refused" THEN payload
                     ELSE [payload EXCEPT ![call[c].id] = Decided(c, call[c].verdict)]
       /\ Goto(c, IF out = "ok" THEN "unlist" ELSE "release")
  /\ UNCHANGED <<faults, now, index, resolveLock, redeemLock, hist>>

ResolveRelease(c) ==
  /\ At(c, "release")
  /\ \E out \in Outcomes :
       resolveLock' = IF out = "refused" THEN resolveLock
                      ELSE [resolveLock EXCEPT ![call[c].id] = 0]
  /\ Return(c)
  /\ UNCHANGED <<faults, now, payload, index, redeemLock, hist>>

\* Best effort: the reviewer is told the decision was applied either way.
ResolveUnlist(c) ==
  /\ At(c, "unlist")
  /\ \E out \in Outcomes :
       index' = IF out = "refused" THEN index ELSE index \ {call[c].id}
  /\ TellDecided(call[c].id, call[c].verdict)
  /\ Return(c)
  /\ UNCHANGED <<faults, now, payload, resolveLock, redeemLock>>

---------------------------------------------------------------------------
(* Redeem: Get and all the checks, then SET NX the redeem lock.            *)

\* Mutant of RedeemGet: the payload is not compared.
RedeemGet_AnyPrint(c, i, f) ==
  /\ Idle(c)
  /\ EffectiveStatus(i) = "approved"
  /\ now <= payload[i].resolvedAt + ApprovalTTL
  /\ Do(c, CallAt("spend", i, "denied", f, now, 0, {}))
  /\ UNCHANGED <<faults, now, payload, index, resolveLock, redeemLock, hist>>

\* Mutant of RedeemGet: any decided item is redeemable.
RedeemGet_AnyVerdict(c, i, f) ==
  /\ Idle(c)
  /\ EffectiveStatus(i) \in Verdicts
  /\ payload[i].fingerprint # Unbound
  /\ payload[i].fingerprint = f
  /\ now <= payload[i].resolvedAt + ApprovalTTL
  /\ Do(c, CallAt("spend", i, "denied", f, now, 0, {}))
  /\ UNCHANGED <<faults, now, payload, index, resolveLock, redeemLock, hist>>

RedeemGet(c, i, f) ==
  /\ Idle(c)
  /\ EffectiveStatus(i) = "approved"
  /\ payload[i].fingerprint # Unbound
  /\ payload[i].fingerprint = f
  /\ now <= payload[i].resolvedAt + ApprovalTTL
  /\ Do(c, CallAt("spend", i, "denied", f, now, 0, {}))
  /\ UNCHANGED <<faults, now, payload, index, resolveLock, redeemLock, hist>>

\* Mutant of claimRedemption: redemption is a pure read.
claimRedemption_ReadOnly(c) ==
  /\ At(c, "spend")
  /\ TellAllowed(call[c].id, call[c].print)
  /\ Return(c)
  /\ UNCHANGED <<faults, now, payload, index, resolveLock, redeemLock>>

claimRedemption(c) ==
  /\ At(c, "spend")
  /\ IF Free(redeemLock, call[c].id)
       THEN \E out \in Outcomes :
              /\ redeemLock' = IF out = "refused" THEN redeemLock
                               ELSE [redeemLock EXCEPT ![call[c].id] = now + ResolvedRetention]
              /\ IF out = "ok" THEN TellAllowed(call[c].id, call[c].print)
                                 ELSE UNCHANGED hist
       ELSE UNCHANGED <<redeemLock, hist>>              \* ErrAlreadyRedeemed
  /\ Return(c)
  /\ UNCHANGED <<faults, now, payload, index, resolveLock>>

---------------------------------------------------------------------------
(* ListPendingPage: ZREVRANGE a page of the index, MGET the payloads, ZREM *)
(* the entries that are not pending.  Which page is asked for is left open. *)

ListRange(c) ==
  /\ Idle(c)
  /\ \E page \in SUBSET index \ {{}} :
       Do(c, CallAt("mget", NoItem, "denied", Unbound, now, 0, page))
  /\ UNCHANGED <<faults, now, payload, index, resolveLock, redeemLock, hist>>

fetchIndexed(c) ==
  /\ At(c, "mget")
  /\ LET stale == {i \in call[c].ids : EffectiveStatus(i) # "pending"}
     IN  IF stale = {} THEN Return(c)
         ELSE Do(c, CallAt("trim", NoItem, "denied", Unbound, call[c].began, 0, stale))
  /\ UNCHANGED <<faults, now, payload, index, resolveLock, redeemLock, hist>>

ListTrim(c) ==
  /\ At(c, "trim")
  /\ \E out \in Outcomes :
       index' = IF out = "refused" THEN index ELSE index \ call[c].ids
  /\ Return(c)
  /\ UNCHANGED <<faults, now, payload, resolveLock, redeemLock, hist>>

---------------------------------------------------------------------------
(* The environment                                                         *)

Crash(c) ==
  /\ "crash" \in faults
  /\ ~ Idle(c)
  /\ Return(c)
  /\ UNCHANGED <<faults, now, payload, index, resolveLock, redeemLock, hist>>

Tick ==
  /\ now < Horizon
  /\ \A c \in Callers : Idle(c) \/ now < call[c].began + CallSpan
  /\ now' = now + 1
  /\ UNCHANGED <<faults, payload, index, resolveLock, redeemLock, call, hist>>

---------------------------------------------------------------------------
\* The steps a call still has to take before it is answered.
Continue(c) ==
  \/ EnqueueZAdd(c) \/ EnqueueXAdd(c)
  \/ ResolveClaim(c) \/ ResolveStore(c) \/ ResolveRelease(c) \/ ResolveUnlist(c)
  \/ claimRedemption(c)
  \/ fetchIndexed(c) \/ ListTrim(c)

Begin(c) ==
  \/ ListRange(c)
  \/ \E i \in Items :
       \/ \E f \in Prints \cup {Unbound} : EnqueueSet(c, i, f)
       \/ \E v \in Verdicts : ResolveGet(c, i, v)
       \/ \E f \in Prints \cup {Unbound} : RedeemGet(c, i, f)

Next ==
  \/ Tick
  \/ \E c \in Callers : Begin(c) \/ Continue(c) \/ Crash(c)

Spec == Init /\ [][Next]_vars

\* A handler that has started runs on: Go schedules every goroutine, and
\* every Redis command has a timeout.
FairSpec == Spec /\ \A c \in Callers : WF_vars(Continue(c))

---------------------------------------------------------------------------
(* Properties                                                              *)

TypeOK ==
  /\ faults \in Regimes
  /\ now \in Nat
  /\ payload \in [Items -> ReviewRequest]
  /\ index \in SUBSET Items
  /\ resolveLock \in [Items -> Nat]
  /\ redeemLock \in [Items -> Nat]
  /\ call \in [Callers -> Call]
  /\ hist \in [Items -> History]

\* At most one resolver is ever told that its decision was applied, and what
\* it was told is what is stored: a deny and an approve racing through
\* resolve() cannot both succeed, nor can the loser's verdict end up stored.
OneWinner ==
  "lost" \notin faults =>
    \A i \in Items : /\ hist[i].wins <= 1
                     /\ hist[i].told \subseteq {payload[i].status}

\* An approval buys one execution, of the payload it was given for: Redeem
\* answers "allowed" at most once per item, only for an approved item, and
\* only for the fingerprint bound at enqueue time, even though the redeem
\* lock and the approval are two keys with separate TTLs.
\* When a reply was lost, an approval may still be turned into a denial after
\* it was spent (see DecisionPermanent), but not be spent twice.
RedeemSound ==
  \A i \in Items :
    /\ hist[i].spends <= 1
    /\ hist[i].spends = 1 =>
         /\ "lost" \notin faults => payload[i].status = "approved"
         /\ hist[i].paid = {payload[i].fingerprint}
         /\ payload[i].fingerprint # Unbound

\* An item whose enqueueing the agent was told of stays on the reviewers'
\* list until it is decided or expires: no listing's clean-up of stale index
\* entries removes one that still waits for a human.
ListedUntilDecided ==
  \A i \in Items :
    hist[i].submitted /\ EffectiveStatus(i) = "pending" => i \in index

\* A decision is stored no later than one call's duration after the item
\* expired: resolve() checks the age once, before it claims the lock.
DecidedInTime ==
  \A i \in Items :
    payload[i].status \in Verdicts =>
      payload[i].goneAt <= payload[i].enqueuedAt + PendingMaxAge + CallSpan + ResolvedRetention

\* "A successful resolution is permanent" (resolve): once stored, a decision
\* and its time are never rewritten.  Lost replies are excluded: a resolver
\* that is told its SET failed releases the lock although the decision was
\* stored, and another one that had read the item as pending overwrites it.
DecisionPermanent ==
  [][\A i \in Items :
       payload[i].status \in Verdicts /\ "lost" \notin faults => payload'[i] = payload[i]]_vars

\* When nothing fails, a reviewer's call that found the item pending leads to
\* a stored decision, its own or the one it lost to.
ClaimDecides ==
  \A i \in Items :
    (\E c \in Callers : call[c].id = i /\ call[c].pc = "claim")
      ~> payload[i].status \in Verdicts

\* The refinement mapping.  Behaviours with lost replies, in which a decision
\* can be overwritten, are mapped to a lifecycle in which nothing happens.
Reliable == "lost" \notin faults
Lifecycle ==
  INSTANCE ReviewLifecycle
    WITH verdict <- [i \in Items |-> IF Reliable THEN payload[i].status ELSE "absent"],
         spent <- {i \in Items : Reliable /\ hist[i].spends > 0}

\* Unless a reply is lost, every step of the queue is a step of
\* ReviewLifecycle or changes nothing the lifecycle talks about.
ImplementsLifecycle == Lifecycle!Spec
==========================================================================
