--------------------- MODULE RedisReviewQueueProofs ---------------------
(***************************************************************************)
(* Proofs about RedisReviewQueue, for any number of items, callers and     *)
(* fingerprints and any periods that satisfy PeriodsAssumption.            *)
(***************************************************************************)
EXTENDS RedisReviewQueue, TLAPS

---------------------------------------------------------------------------
(* The inductive invariant                                                 *)

\* The item is one a reviewer can still decide.
Waiting(i) ==
  payload[i].status = "pending" /\ now <= payload[i].enqueuedAt + PendingMaxAge

ItemPCs == {"zadd", "xadd", "claim", "store", "release", "unlist", "spend"}
HoldPCs == {"store", "release", "unlist"}

\* A call works on an item that exists, and no call is older than CallSpan.
CallSane(c) ==
  /\ call[c].pc # "idle" => call[c].began <= now /\ now <= call[c].began + CallSpan
  /\ call[c].pc \in ItemPCs => call[c].id \in Items /\ payload[call[c].id].status # "absent"

\* A resolver found the item young enough; once past the claim it has taken
\* the time of the resolution, and before ZREM the decision is stored.
ResolverSane(c) ==
  /\ call[c].pc \in {"claim", "store"} =>
       /\ call[c].began <= payload[call[c].id].enqueuedAt + PendingMaxAge
       /\ hist[call[c].id].spends >= 1 =>
            call[c].began + ResolvedRetention <= redeemLock[call[c].id]
  /\ call[c].pc \in HoldPCs => call[c].began <= call[c].at /\ call[c].at <= now
  /\ call[c].pc = "unlist" => payload[call[c].id].status \in Verdicts

\* A redeemer presents the fingerprint of a decided item, and ends before
\* the redeem lock of somebody else's redemption disappears.
RedeemerSane(c) ==
  call[c].pc = "spend" =>
    /\ payload[call[c].id].status \in Verdicts
    /\ payload[call[c].id].fingerprint = call[c].print
    /\ call[c].print # Unbound
    /\ hist[call[c].id].spends >= 1 => call[c].began + CallSpan < redeemLock[call[c].id]
    /\ Reliable => payload[call[c].id].status = "approved"

\* Enqueuers have indexed the item before they notify; listings remove only
\* entries nobody can decide any more.
ListerSane(c) ==
  /\ call[c].pc = "xadd" /\ Waiting(call[c].id) => call[c].id \in index
  /\ call[c].pc \in {"mget", "trim"} =>
       \A j \in call[c].ids : j \in Items /\ payload[j].status # "absent"
  /\ call[c].pc = "trim" => \A j \in call[c].ids : ~ Waiting(j)

\* Without lost replies, the resolver past the claim owns the lock, nothing is
\* stored before it stores, and a resolver that comes too late finds the lock.
LockOwned(c) ==
  Reliable =>
    /\ call[c].pc \in HoldPCs => resolveLock[call[c].id] = call[c].at + ResolvedRetention
    /\ call[c].pc \in {"store", "release"} => payload[call[c].id].status = "pending"
    /\ call[c].pc = "unlist" => /\ payload[call[c].id].status = call[c].verdict
                                /\ hist[call[c].id].wins = 0
                                /\ hist[call[c].id].told = {}
    /\ call[c].pc = "claim" /\ payload[call[c].id].status \in Verdicts =>
         call[c].began + CallSpan < resolveLock[call[c].id]

\* Two calls never own the lock of the same item.
LockExclusive ==
  Reliable =>
    \A c, d \in Callers :
      call[c].pc \in HoldPCs /\ call[d].pc \in HoldPCs /\ call[c].id = call[d].id => c = d

ItemListed(i) ==
  /\ payload[i].status = "absent" => i \notin index /\ ~ hist[i].submitted
  /\ hist[i].submitted /\ Waiting(i) => i \in index

ItemDecided(i) ==
  /\ payload[i].status \in Verdicts =>
       /\ payload[i].resolvedAt <= now
       /\ payload[i].goneAt <= payload[i].enqueuedAt + PendingMaxAge + CallSpan + ResolvedRetention
  /\ Reliable => /\ hist[i].wins <= 1
                 /\ hist[i].told \subseteq {payload[i].status}
                 /\ payload[i].status \notin Verdicts => hist[i].wins = 0 /\ hist[i].told = {}

ItemSpent(i) ==
  /\ hist[i].spends <= 1
  /\ hist[i].spends = 0 => hist[i].paid = {}
  /\ hist[i].spends = 1 =>
       /\ payload[i].status \in Verdicts
       /\ hist[i].paid = {payload[i].fingerprint}
       /\ payload[i].fingerprint # Unbound
       /\ payload[i].resolvedAt + ResolvedRetention <= redeemLock[i] + CallSpan
       /\ Reliable => payload[i].status = "approved"

CallInv(c) ==
  CallSane(c) /\ ResolverSane(c) /\ RedeemerSane(c) /\ ListerSane(c) /\ LockOwned(c)
ItemInv(i) == ItemListed(i) /\ ItemDecided(i) /\ ItemSpent(i)

SafeInv ==
  /\ \A c \in Callers : CallInv(c)
  /\ LockExclusive
  /\ \A i \in Items : ItemInv(i)

IInv == TypeOK /\ SafeInv

---------------------------------------------------------------------------
(* Type correctness                                                        *)

\* Records built by the actions have the types of the state.
LEMMA CallAtType ==
  ASSUME NEW p \in PCs, NEW i \in Items \cup {NoItem}, NEW v \in Verdicts,
         NEW f \in Prints \cup {Unbound}, NEW b \in Nat, NEW a \in Nat,
         NEW s \in SUBSET Items
  PROVE  CallAt(p, i, v, f, b, a, s) \in Call
BY DEF CallAt, Call

LEMMA NoCallType == NoCall \in Call
<1>1. "idle" \in PCs /\ "denied" \in Verdicts /\ {} \in SUBSET Items
  BY DEF PCs, Verdicts
<1> QED
  BY <1>1, CallAtType DEF NoCall

LEMMA ToldType ==
  ASSUME NEW b \in BOOLEAN, NEW w \in Nat, NEW t \in SUBSET Verdicts, NEW n \in Nat,
         NEW p \in SUBSET (Prints \cup {Unbound})
  PROVE  Told(b, w, t, n, p) \in History
BY DEF Told, History

LEMMA DoType ==
  ASSUME TypeOK, NEW c \in Callers, NEW k \in Call, Do(c, k)
  PROVE  call' \in [Callers -> Call]
BY DEF TypeOK, Do

\* The fields of the calls and of the history.
LEMMA FieldTypes ==
  ASSUME TypeOK
  PROVE  /\ \A c \in Callers :
              /\ call[c].pc \in PCs /\ call[c].id \in Items \cup {NoItem}
              /\ call[c].verdict \in Verdicts /\ call[c].print \in Prints \cup {Unbound}
              /\ call[c].began \in Nat /\ call[c].at \in Nat
              /\ call[c].ids \in SUBSET Items
         /\ \A i \in Items :
              /\ hist[i].submitted \in BOOLEAN /\ hist[i].wins \in Nat
              /\ hist[i].told \in SUBSET Verdicts /\ hist[i].spends \in Nat
              /\ hist[i].paid \in SUBSET (Prints \cup {Unbound})
         /\ \A i \in Items :
              /\ payload[i].status \in {"absent", "pending"} \cup Verdicts
              /\ payload[i].enqueuedAt \in Nat /\ payload[i].resolvedAt \in Nat
              /\ payload[i].goneAt \in Nat
              /\ payload[i].fingerprint \in Prints \cup {Unbound}
         /\ \A i \in Items : resolveLock[i] \in Nat /\ redeemLock[i] \in Nat
         /\ now \in Nat
BY DEF TypeOK, Call, History, ReviewRequest

\* The three updates of the history keep its type.
LEMMA TellType ==
  ASSUME TypeOK, NEW i,
         \/ TellSubmitted(i)
         \/ \E v \in Verdicts : TellDecided(i, v)
         \/ \E f \in Prints \cup {Unbound} : TellAllowed(i, f)
  PROVE  hist' \in [Items -> History]
<1>1. CASE TellSubmitted(i)
  <2>1. i \in Items => Told(TRUE, hist[i].wins, hist[i].told, hist[i].spends, hist[i].paid)
                         \in History
    BY FieldTypes, ToldType
  <2> QED
    BY <1>1, <2>1 DEF TellSubmitted, TypeOK
<1>2. ASSUME NEW v \in Verdicts, TellDecided(i, v) PROVE hist' \in [Items -> History]
  <2>1. i \in Items => Told(hist[i].submitted, hist[i].wins + 1, hist[i].told \cup {v},
                           hist[i].spends, hist[i].paid) \in History
    BY FieldTypes DEF Told, History
  <2> QED
    BY <1>2, <2>1 DEF TellDecided, TypeOK
<1>3. ASSUME NEW f \in Prints \cup {Unbound}, TellAllowed(i, f)
      PROVE  hist' \in [Items -> History]
  <2>1. i \in Items => Told(hist[i].submitted, hist[i].wins, hist[i].told,
                           hist[i].spends + 1, hist[i].paid \cup {f}) \in History
    BY FieldTypes DEF Told, History
  <2> QED
    BY <1>3, <2>1 DEF TellAllowed, TypeOK
<1> QED
  BY <1>1, <1>2, <1>3

LEMMA StepTypeOK ==
  ASSUME TypeOK, \A c \in Callers : CallSane(c), [Next]_vars
  PROVE  TypeOK'
<1> USE PeriodsAssumption
<1>1. CASE UNCHANGED vars
  BY <1>1 DEF vars, TypeOK
<1>2. CASE Tick
  BY <1>2 DEF Tick, TypeOK
<1>3. ASSUME NEW c \in Callers, Crash(c) PROVE TypeOK'
  BY <1>3, NoCallType, DoType DEF Crash, Return, TypeOK
<1>4. ASSUME NEW c \in Callers, Begin(c) PROVE TypeOK'
  <2>1. ASSUME NEW i \in Items, NEW f \in Prints \cup {Unbound}, EnqueueSet(c, i, f)
        PROVE  TypeOK'
    <3>1. Item("pending", now, 0, 0, f) \in ReviewRequest
      BY FieldTypes DEF Item, ReviewRequest
    <3>2. CallAt("zadd", i, "denied", Unbound, now, 0, {}) \in Call
      BY FieldTypes DEF CallAt, Call, PCs, Verdicts
    <3>3. call' \in [Callers -> Call]
      BY <2>1, <3>2, DoType DEF EnqueueSet, TypeOK
    <3> QED
      BY <2>1, <3>1, <3>3 DEF EnqueueSet, TypeOK
  <2>2. ASSUME NEW i \in Items, NEW v \in Verdicts, ResolveGet(c, i, v) PROVE TypeOK'
    <3>1. CallAt("claim", i, v, Unbound, now, 0, {}) \in Call
      BY FieldTypes DEF CallAt, Call, PCs
    <3> QED
      BY <2>2, <3>1, DoType DEF ResolveGet, TypeOK
  <2>3. ASSUME NEW i \in Items, NEW f \in Prints \cup {Unbound}, RedeemGet(c, i, f)
        PROVE  TypeOK'
    <3>1. CallAt("spend", i, "denied", f, now, 0, {}) \in Call
      BY FieldTypes DEF CallAt, Call, PCs, Verdicts
    <3> QED
      BY <2>3, <3>1, DoType DEF RedeemGet, TypeOK
  <2>4. ASSUME ListRange(c) PROVE TypeOK'
    <3>1. PICK page \in SUBSET index :
            Do(c, CallAt("mget", NoItem, "denied", Unbound, now, 0, page))
      BY <2>4 DEF ListRange
    <3>2. CallAt("mget", NoItem, "denied", Unbound, now, 0, page) \in Call
      BY FieldTypes DEF CallAt, Call, PCs, Verdicts, TypeOK
    <3> QED
      BY <2>4, <3>1, <3>2, DoType DEF ListRange, TypeOK
  <2> QED
    BY <1>4, <2>1, <2>2, <2>3, <2>4 DEF Begin
<1>5. ASSUME NEW c \in Callers, Continue(c) PROVE TypeOK'
  <2>1. \A p \in PCs : Goto(c, p) => call' \in [Callers -> Call]
    <3>1. ASSUME NEW p \in PCs, Goto(c, p) PROVE call' \in [Callers -> Call]
      <4>1. CallAt(p, call[c].id, call[c].verdict, call[c].print,
                   call[c].began, call[c].at, {}) \in Call
        BY FieldTypes DEF CallAt, Call
      <4> QED
        BY <3>1, <4>1, DoType DEF Goto
    <3> QED
      BY <3>1
  <2>2. Return(c) => call' \in [Callers -> Call]
    BY NoCallType, DoType DEF Return
  <2>3. CASE EnqueueZAdd(c)
    <3>1. call' \in [Callers -> Call]
      BY <2>1, <2>2, <2>3 DEF EnqueueZAdd, PCs
    <3>2. index' \in SUBSET Items
      BY <2>3 DEF EnqueueZAdd, At, TypeOK, CallSane, ItemPCs
    <3> QED
      BY <2>3, <3>1, <3>2 DEF EnqueueZAdd, TypeOK
  <2>4. CASE EnqueueXAdd(c)
    <3>1. hist' \in [Items -> History]
      BY <2>4, TellType DEF EnqueueXAdd, TypeOK
    <3> QED
      BY <2>2, <2>4, <3>1 DEF EnqueueXAdd, TypeOK
  <2>5. CASE ResolveClaim(c)
    <3>1. Hold(c) => call' \in [Callers -> Call]
      <4>1. CallAt("store", call[c].id, call[c].verdict, Unbound,
                   call[c].began, now, {}) \in Call
        BY FieldTypes DEF CallAt, Call, PCs
      <4> QED
        BY <4>1, DoType DEF Hold
    <3>2. call' \in [Callers -> Call]
      BY <2>2, <2>5, <3>1 DEF ResolveClaim
    <3>3. resolveLock' \in [Items -> Nat]
      BY <2>5 DEF ResolveClaim, TypeOK
    <3> QED
      BY <2>5, <3>2, <3>3 DEF ResolveClaim, TypeOK
  <2>6. CASE ResolveStore(c)
    <3>1. call' \in [Callers -> Call]
      BY <2>1, <2>6 DEF ResolveStore, PCs
    <3>2. call[c].id \in Items => Decided(c, call[c].verdict) \in ReviewRequest
      BY FieldTypes DEF Decided, Item, ReviewRequest
    <3>3. payload' \in [Items -> ReviewRequest]
      BY <2>6, <3>2 DEF ResolveStore, TypeOK
    <3> QED
      BY <2>6, <3>1, <3>3 DEF ResolveStore, TypeOK
  <2>7. CASE ResolveRelease(c)
    <3>1. [resolveLock EXCEPT ![call[c].id] = 0] \in [Items -> Nat]
      BY DEF TypeOK
    <3>2. resolveLock' \in [Items -> Nat]
      BY <2>7, <3>1 DEF ResolveRelease, TypeOK
    <3> QED
      BY <2>2, <2>7, <3>2 DEF ResolveRelease, TypeOK
  <2>8. CASE ResolveUnlist(c)
    <3>1. hist' \in [Items -> History]
      BY <2>8, FieldTypes, TellType DEF ResolveUnlist
    <3>2. index' \in SUBSET Items
      BY <2>8 DEF ResolveUnlist, TypeOK
    <3> QED
      BY <2>2, <2>8, <3>1, <3>2 DEF ResolveUnlist, TypeOK
  <2>9. CASE claimRedemption(c)
    <3>1. hist' \in [Items -> History]
      BY <2>9, FieldTypes, TellType DEF claimRedemption, TypeOK
    <3>2. redeemLock' \in [Items -> Nat]
      BY <2>9 DEF claimRedemption, TypeOK
    <3> QED
      BY <2>2, <2>9, <3>1, <3>2 DEF claimRedemption, TypeOK
  <2>10. CASE fetchIndexed(c)
    <3> DEFINE stale == {i \in call[c].ids : EffectiveStatus(i) # "pending"}
    <3>1. CallAt("trim", NoItem, "denied", Unbound, call[c].began, 0, stale) \in Call
      BY FieldTypes DEF CallAt, Call, PCs, Verdicts
    <3>2. call' \in [Callers -> Call]
      BY <2>2, <2>10, <3>1, DoType DEF fetchIndexed
    <3> QED
      BY <2>10, <3>2 DEF fetchIndexed, TypeOK
  <2>11. CASE ListTrim(c)
    BY <2>2, <2>11 DEF ListTrim, TypeOK
  <2> QED
    BY <1>5, <2>3, <2>4, <2>5, <2>6, <2>7, <2>8, <2>9, <2>10, <2>11 DEF Continue
<1> QED
  BY <1>1, <1>2, <1>3, <1>4, <1>5 DEF Next

---------------------------------------------------------------------------
(* Each action preserves the rest of the invariant                         *)

LEMMA DoFacts ==
  ASSUME TypeOK, NEW c \in Callers, NEW k, Do(c, k)
  PROVE  call'[c] = k /\ \A d \in Callers : d # c => call'[d] = call[d]
BY DEF TypeOK, Do

\* What only depends on the shared state and on one call's own record.
LEMMA Frame ==
  ASSUME UNCHANGED <<faults, now, payload, index, resolveLock, redeemLock, hist>>
  PROVE  /\ \A d \in Callers : call'[d] = call[d] /\ CallInv(d) => CallInv(d)'
         /\ \A j \in Items : ItemInv(j) => ItemInv(j)'
<1>1. ASSUME NEW d \in Callers, call'[d] = call[d], CallInv(d) PROVE CallInv(d)'
  BY <1>1 DEF CallInv, CallSane, ResolverSane, RedeemerSane, ListerSane, LockOwned,
              Waiting, Reliable
<1>2. ASSUME NEW j \in Items, ItemInv(j) PROVE ItemInv(j)'
  BY <1>2 DEF ItemInv, ItemListed, ItemDecided, ItemSpent, Waiting, Reliable
<1> QED
  BY <1>1, <1>2

\* An answered call owns nothing.
LEMMA IdleInv ==
  ASSUME NEW c \in Callers, call[c].pc = "idle"
  PROVE  CallInv(c)
BY DEF CallInv, CallSane, ResolverSane, RedeemerSane, ListerSane, LockOwned, ItemPCs, HoldPCs

LEMMA ReturnFacts ==
  ASSUME TypeOK, NEW c \in Callers, Return(c)
  PROVE  /\ call'[c].pc = "idle"
         /\ CallInv(c)'
         /\ \A d \in Callers : d # c => call'[d] = call[d]
         /\ LockExclusive /\ Reliable' = Reliable => LockExclusive'
<1>1. call'[c].pc = "idle" /\ \A d \in Callers : d # c => call'[d] = call[d]
  BY DoFacts DEF Return, NoCall, CallAt
<1>2. CallInv(c)'
  BY <1>1 DEF CallInv, CallSane, ResolverSane, RedeemerSane, ListerSane, LockOwned, ItemPCs, HoldPCs
<1> QED
  BY <1>1, <1>2 DEF LockExclusive, HoldPCs

LEMMA CrashStep ==
  ASSUME IInv, NEW c \in Callers, Crash(c)
  PROVE  SafeInv'
BY ReturnFacts, Frame DEF IInv, SafeInv, Crash, Reliable

\* A call that reads and goes on to a pc that owns no lock.
LEMMA ReadStep ==
  ASSUME IInv, NEW c \in Callers, NEW k, Do(c, k), k.pc \notin HoldPCs, CallInv(c)',
         UNCHANGED <<faults, now, payload, index, resolveLock, redeemLock, hist>>
  PROVE  SafeInv'
<1>1. call'[c] = k /\ \A d \in Callers : d # c => call'[d] = call[d]
  BY DoFacts DEF IInv
<1>2. LockExclusive'
  BY <1>1 DEF IInv, SafeInv, LockExclusive, Reliable
<1>3. \A d \in Callers : CallInv(d)'
  BY <1>1, Frame DEF IInv, SafeInv
<1> QED
  BY <1>2, <1>3, Frame DEF IInv, SafeInv

LEMMA ResolveGetStep ==
  ASSUME IInv, NEW c \in Callers, NEW i \in Items, NEW v \in Verdicts, ResolveGet(c, i, v)
  PROVE  SafeInv'
<1> USE PeriodsAssumption
<1> DEFINE k == CallAt("claim", i, v, Unbound, now, 0, {})
<1>1. Do(c, k) /\ k.pc \notin HoldPCs
  BY DEF ResolveGet, CallAt, HoldPCs
<1>2. call'[c] = k
  BY <1>1, DoFacts DEF IInv
<1>3. payload[i].status = "pending" /\ now <= payload[i].enqueuedAt + PendingMaxAge
  BY FieldTypes DEF ResolveGet, EffectiveStatus, Present, expiredIfStale, IInv, Verdicts
<1>4. hist[i].spends = 0
  BY <1>3, FieldTypes DEF IInv, SafeInv, ItemInv, ItemSpent, Verdicts
<1>5. CallInv(c)'
  BY <1>2, <1>3, <1>4, FieldTypes
     DEF IInv, CallAt, ResolveGet, CallInv, CallSane, ResolverSane, RedeemerSane, ListerSane,
         LockOwned, ItemPCs, HoldPCs, Verdicts
<1> QED
  BY <1>1, <1>5, ReadStep DEF ResolveGet

LEMMA RedeemGetStep ==
  ASSUME IInv, NEW c \in Callers, NEW i \in Items, NEW f \in Prints \cup {Unbound},
         RedeemGet(c, i, f)
  PROVE  SafeInv'
<1> USE PeriodsAssumption
<1> DEFINE k == CallAt("spend", i, "denied", f, now, 0, {})
<1>1. Do(c, k) /\ k.pc \notin HoldPCs
  BY DEF RedeemGet, CallAt, HoldPCs
<1>2. call'[c] = k
  BY <1>1, DoFacts DEF IInv
<1>3. payload[i].status = "approved" /\ now <= payload[i].resolvedAt + ApprovalTTL
  BY FieldTypes DEF RedeemGet, EffectiveStatus, Present, expiredIfStale, IInv, Verdicts
<1>4. hist[i].spends >= 1 => now + CallSpan < redeemLock[i]
  BY <1>3, FieldTypes DEF IInv, SafeInv, ItemInv, ItemSpent
<1>5. CallInv(c)'
  BY <1>2, <1>3, <1>4, FieldTypes
     DEF IInv, CallAt, RedeemGet, CallInv, CallSane, ResolverSane, RedeemerSane, ListerSane,
         LockOwned, ItemPCs, HoldPCs, Verdicts
<1> QED
  BY <1>1, <1>5, ReadStep DEF RedeemGet

LEMMA ListRangeStep ==
  ASSUME IInv, NEW c \in Callers, ListRange(c)
  PROVE  SafeInv'
<1> USE PeriodsAssumption
<1>1. PICK page \in SUBSET index :
        Do(c, CallAt("mget", NoItem, "denied", Unbound, now, 0, page))
  BY DEF ListRange
<1> DEFINE k == CallAt("mget", NoItem, "denied", Unbound, now, 0, page)
<1>2. k.pc \notin HoldPCs
  BY DEF CallAt, HoldPCs
<1>3. call'[c] = k
  BY <1>1, DoFacts DEF IInv
<1>4. \A j \in page : j \in Items /\ payload[j].status # "absent"
  BY DEF IInv, TypeOK, SafeInv, ItemInv, ItemListed
<1>5. CallInv(c)'
  BY <1>3, <1>4, FieldTypes
     DEF IInv, CallAt, ListRange, CallInv, CallSane, ResolverSane, RedeemerSane, ListerSane,
         LockOwned, ItemPCs, HoldPCs
<1> QED
  BY <1>1, <1>2, <1>5, ReadStep DEF ListRange

LEMMA FetchStep ==
  ASSUME IInv, NEW c \in Callers, fetchIndexed(c)
  PROVE  SafeInv'
<1> DEFINE stale == {i \in call[c].ids : EffectiveStatus(i) # "pending"}
           k == CallAt("trim", NoItem, "denied", Unbound, call[c].began, 0, stale)
<1>1. CASE Return(c)
  BY <1>1, ReturnFacts, Frame DEF IInv, SafeInv, fetchIndexed, Reliable
<1>2. CASE Do(c, k)
  <2>1. k.pc \notin HoldPCs
    BY DEF CallAt, HoldPCs
  <2>2. call'[c] = k
    BY <1>2, DoFacts DEF IInv
  <2>3. \A j \in stale : j \in Items /\ payload[j].status # "absent"
    BY DEF IInv, SafeInv, CallInv, ListerSane, fetchIndexed, At
  <2>4. \A j \in stale : ~ Waiting(j)
    <3>1. ASSUME NEW j \in stale, Waiting(j) PROVE FALSE
      BY <2>3, <3>1, PeriodsAssumption, FieldTypes
         DEF IInv, EffectiveStatus, Present, expiredIfStale, Waiting
    <3> QED
      BY <3>1
  <2>5. CallInv(c)'
    BY <2>2, <2>3, <2>4, FieldTypes
       DEF IInv, SafeInv, At, CallAt, fetchIndexed, CallInv, CallSane, ResolverSane, RedeemerSane,
           ListerSane, LockOwned, ItemPCs, HoldPCs, Waiting
  <2> QED
    BY <1>2, <2>1, <2>5, ReadStep DEF fetchIndexed
<1> QED
  BY <1>1, <1>2 DEF fetchIndexed

LEMMA StoreStep ==
  ASSUME IInv, NEW c \in Callers, ResolveStore(c)
  PROVE  SafeInv'
<1> DEFINE i == call[c].id
<1> USE PeriodsAssumption
<1>1. PICK out \in Outcomes :
        /\ payload' = IF out = "refused" THEN payload
                      ELSE [payload EXCEPT ![call[c].id] = Decided(c, call[c].verdict)]
        /\ Goto(c, IF out = "ok" THEN "unlist" ELSE "release")
  BY DEF ResolveStore
<1>2. /\ call'[c].pc = IF out = "ok" THEN "unlist" ELSE "release"
      /\ call'[c].id = i /\ call'[c].verdict = call[c].verdict
      /\ call'[c].began = call[c].began /\ call'[c].at = call[c].at
      /\ \A d \in Callers : d # c => call'[d] = call[d]
  BY <1>1, DoFacts DEF IInv, SafeInv, Goto, CallAt
<1>3. /\ call[c].pc = "store" /\ i \in Items /\ call[c].verdict \in Verdicts
      /\ CallSane(c) /\ ResolverSane(c) /\ LockOwned(c)
      /\ Reliable' = Reliable /\ (Reliable => out # "lost")
      /\ UNCHANGED <<now, index, resolveLock, redeemLock, hist>>
  BY FieldTypes DEF IInv, SafeInv, CallInv, ResolveStore, At, CallSane, ItemPCs, Reliable, Outcomes
<1>4. /\ \A j \in Items : j # i => payload'[j] = payload[j]
      /\ out # "refused" => payload'[i] = Decided(c, call[c].verdict)
      /\ out = "refused" => payload' = payload
  BY <1>1, <1>3 DEF IInv, TypeOK
<1>5. ASSUME NEW d \in Callers PROVE CallSane(d)'
  BY <1>1, <1>2, <1>3, <1>4, FieldTypes DEF IInv, SafeInv, CallInv, CallSane, ItemPCs, Decided, Item, Verdicts
<1>6. ASSUME NEW d \in Callers PROVE ResolverSane(d)'
  BY <1>1, <1>2, <1>3, <1>4, FieldTypes DEF IInv, SafeInv, CallInv, CallSane, ResolverSane, ItemPCs, HoldPCs, Decided, Item, Verdicts
<1>7. ASSUME NEW d \in Callers PROVE RedeemerSane(d)'
  BY <1>1, <1>2, <1>3, <1>4, FieldTypes DEF IInv, SafeInv, CallInv, CallSane, RedeemerSane, LockOwned, ItemPCs, Decided, Item, Verdicts
<1>8. ASSUME NEW d \in Callers PROVE ListerSane(d)'
  BY <1>1, <1>2, <1>3, <1>4, FieldTypes DEF IInv, SafeInv, CallInv, CallSane, ListerSane, Waiting, ItemPCs, Decided, Item, Verdicts
<1>9. ASSUME NEW d \in Callers PROVE LockOwned(d)'
  <2>1. CASE d = c
    BY <1>1, <1>2, <1>3, <1>4, <2>1, FieldTypes DEF IInv, SafeInv, LockOwned, ItemInv, ItemDecided, HoldPCs, Outcomes, Decided, Item, Verdicts
  <2>2. CASE d # c /\ call[d].id # i
    <3>1. CallSane(d) /\ LockOwned(d) /\ call'[d] = call[d]
      BY <1>2, <2>2 DEF IInv, SafeInv, CallInv
    <3>2. call[d].pc \in ItemPCs => payload'[call[d].id] = payload[call[d].id]
      BY <1>4, <2>2, <3>1 DEF CallSane
    <3> QED
      BY <1>3, <3>1, <3>2 DEF LockOwned, ItemPCs, HoldPCs
  <2>3. CASE d # c /\ call[d].id = i /\ Reliable
    <3>1. call[d].pc \notin HoldPCs
      BY <1>3, <2>3 DEF IInv, SafeInv, LockExclusive, HoldPCs
    <3>2. call[d].pc = "claim" => call[d].began + CallSpan < resolveLock[i]
      BY <1>3, <2>3, FieldTypes DEF IInv, SafeInv, CallInv, CallSane, ResolverSane, LockOwned, HoldPCs
    <3> QED
      BY <1>2, <1>3, <2>3, <3>1, <3>2 DEF LockOwned, HoldPCs
  <2> QED
    BY <1>3, <2>1, <2>2, <2>3 DEF LockOwned
<1>10. LockExclusive'
  BY <1>1, <1>2, <1>3, <1>4, FieldTypes DEF IInv, SafeInv, LockExclusive, HoldPCs
<1>11. ASSUME NEW j \in Items PROVE ItemInv(j)'
  <2>1. ItemListed(j)'
    BY <1>1, <1>2, <1>3, <1>4, FieldTypes DEF IInv, SafeInv, ItemInv, ItemListed, Waiting, Decided, Item, Verdicts
  <2>2. ItemDecided(j)'
    BY <1>1, <1>2, <1>3, <1>4, FieldTypes DEF IInv, SafeInv, ItemInv, ItemDecided, CallSane, ResolverSane, LockOwned, HoldPCs, Decided, Item, Verdicts
  <2>3. ItemSpent(j)'
    BY <1>1, <1>2, <1>3, <1>4, FieldTypes DEF IInv, SafeInv, ItemInv, ItemSpent, CallSane, ResolverSane, LockOwned, HoldPCs, Decided, Item, Verdicts
  <2> QED
    BY <2>1, <2>2, <2>3 DEF ItemInv
<1> QED
  BY <1>5, <1>6, <1>7, <1>8, <1>9, <1>10, <1>11 DEF CallInv, SafeInv

LEMMA EnqueueSetStep ==
  ASSUME IInv, NEW c \in Callers, NEW i \in Items, NEW f \in Prints \cup {Unbound},
         EnqueueSet(c, i, f)
  PROVE  SafeInv'
<1> USE PeriodsAssumption
<1> DEFINE k == CallAt("zadd", i, "denied", Unbound, now, 0, {})
<1>1. /\ payload[i].status = "absent"
      /\ payload'[i] = Item("pending", now, 0, 0, f)
      /\ \A j \in Items : j # i => payload'[j] = payload[j]
      /\ Reliable' = Reliable
      /\ UNCHANGED <<now, index, resolveLock, redeemLock, hist>>
  BY DEF EnqueueSet, IInv, TypeOK, Reliable
<1>2. call'[c] = call[c] \/ (call[c].pc = "idle" /\ call'[c] = k)
  BY DoFacts DEF EnqueueSet, IInv, Idle
<1>3. \A d \in Callers : d # c => call'[d] = call[d]
  BY DoFacts DEF EnqueueSet, IInv
<1>4. ASSUME NEW d \in Callers, call'[d] = call[d] PROVE CallInv(d)'
  <2>1. CallInv(d)
    BY DEF IInv, SafeInv
  <2>2. call[d].pc \in ItemPCs => call[d].id \in Items /\ payload'[call[d].id] = payload[call[d].id]
    BY <1>1, <2>1 DEF CallInv, CallSane
  <2>3. CallSane(d)' /\ ResolverSane(d)'
    BY <1>1, <1>4, <2>1, <2>2 DEF CallInv, CallSane, ResolverSane, ItemPCs, HoldPCs
  <2>4. RedeemerSane(d)' /\ LockOwned(d)'
    BY <1>1, <1>4, <2>1, <2>2 DEF CallInv, RedeemerSane, LockOwned, ItemPCs, HoldPCs
  <2>5. ListerSane(d)'
    <3>1. call[d].pc = "xadd" /\ Waiting(call[d].id)' => call[d].id \in index
      BY <1>1, <1>4, <2>1, <2>2 DEF CallInv, ListerSane, Waiting, ItemPCs
    <3>2. call[d].pc \in {"mget", "trim"} =>
            \A j \in call[d].ids : j \in Items /\ payload'[j] = payload[j]
      BY <1>1, <2>1 DEF CallInv, ListerSane
    <3> QED
      BY <1>1, <1>4, <2>1, <3>1, <3>2 DEF CallInv, ListerSane, Waiting
  <2> QED
    BY <2>3, <2>4, <2>5 DEF CallInv
<1>5. ASSUME call'[c] = k PROVE CallInv(c)'
  BY <1>1, <1>5, FieldTypes
     DEF IInv, CallAt, Item, CallInv, CallSane, ResolverSane, RedeemerSane, ListerSane,
         LockOwned, ItemPCs, HoldPCs
<1>6. LockExclusive'
  BY <1>1, <1>2, <1>3 DEF IInv, SafeInv, LockExclusive, CallAt, HoldPCs
<1>7. ASSUME NEW j \in Items PROVE ItemInv(j)'
  <2>1. CASE j # i
    BY <1>1, <2>1 DEF IInv, SafeInv, ItemInv, ItemListed, ItemDecided, ItemSpent, Waiting
  <2>2. CASE j = i
    <3>1. ItemInv(i) /\ payload'[i].status = "pending"
      BY <1>1 DEF IInv, SafeInv, Item
    <3> QED
      BY <1>1, <2>2, <3>1, FieldTypes
         DEF IInv, ItemInv, ItemListed, ItemDecided, ItemSpent, Waiting, Verdicts
  <2> QED
    BY <2>1, <2>2
<1> QED
  BY <1>2, <1>3, <1>4, <1>5, <1>6, <1>7 DEF SafeInv

\* When only the index changes, and no item that waits leaves it.
LEMMA IndexStep ==
  ASSUME IInv, NEW c \in Callers, NEW k, Do(c, k), CallInv(c)', k.pc \notin HoldPCs,
         \A j \in Items : j \in index /\ Waiting(j) => j \in index',
         \A j \in Items : j \in index' => j \in index \/ payload[j].status # "absent",
         UNCHANGED <<faults, now, payload, resolveLock, redeemLock, hist>>
  PROVE  SafeInv'
<1>1. call'[c] = k /\ \A d \in Callers : d # c => call'[d] = call[d]
  BY DoFacts DEF IInv
<1>2. ASSUME NEW d \in Callers, d # c PROVE CallInv(d)'
  <2>1. CallInv(d) /\ call'[d] = call[d] /\ Reliable' = Reliable
    BY <1>1, <1>2 DEF IInv, SafeInv, Reliable
  <2>2. CallSane(d)' /\ ResolverSane(d)' /\ RedeemerSane(d)' /\ LockOwned(d)'
    BY <2>1 DEF CallInv, CallSane, ResolverSane, RedeemerSane, LockOwned
  <2>3. ListerSane(d)'
    BY <2>1 DEF CallInv, CallSane, ListerSane, Waiting, ItemPCs
  <2> QED
    BY <2>2, <2>3 DEF CallInv
<1>3. LockExclusive'
  BY <1>1 DEF IInv, SafeInv, LockExclusive, Reliable
<1>4. ASSUME NEW j \in Items PROVE ItemInv(j)'
  BY DEF IInv, SafeInv, ItemInv, ItemListed, ItemDecided, ItemSpent, Waiting, Reliable
<1> QED
  BY <1>2, <1>3, <1>4 DEF SafeInv

LEMMA ZAddStep ==
  ASSUME IInv, NEW c \in Callers, EnqueueZAdd(c)
  PROVE  SafeInv'
<1> DEFINE i == call[c].id
           k == CallAt("xadd", i, call[c].verdict, call[c].print, call[c].began, call[c].at, {})
<1>1. PICK out \in Outcomes :
        /\ index' = IF out = "refused" THEN index ELSE index \cup {call[c].id}
        /\ IF out = "ok" THEN Goto(c, "xadd") ELSE Return(c)
  BY DEF EnqueueZAdd
<1>2. call[c].pc = "zadd" /\ i \in Items /\ payload[i].status # "absent" /\ CallSane(c)
  BY DEF EnqueueZAdd, At, IInv, SafeInv, CallInv, CallSane, ItemPCs
<1>3. /\ \A j \in Items : j \in index /\ Waiting(j) => j \in index'
      /\ \A j \in Items : j \in index' => j \in index \/ payload[j].status # "absent"
  BY <1>1, <1>2
<1>4. CASE out = "ok"
  <2>1. Do(c, k) /\ k.pc \notin HoldPCs
    BY <1>1, <1>4 DEF Goto, CallAt, HoldPCs
  <2>2. call'[c] = k /\ i \in index'
    BY <1>1, <1>2, <1>4, <2>1, DoFacts DEF IInv
  <2>3. CallInv(c)'
    BY <1>2, <2>2 DEF EnqueueZAdd, CallAt, CallInv, CallSane, ResolverSane, RedeemerSane,
                      ListerSane, LockOwned, ItemPCs, HoldPCs
  <2> QED
    BY <1>3, <2>1, <2>3, IndexStep DEF EnqueueZAdd
<1>5. CASE out # "ok"
  BY <1>1, <1>3, <1>5, ReturnFacts, IndexStep DEF EnqueueZAdd, IInv, Return, NoCall, CallAt, HoldPCs
<1> QED
  BY <1>4, <1>5

LEMMA TrimStep ==
  ASSUME IInv, NEW c \in Callers, ListTrim(c)
  PROVE  SafeInv'
<1>1. \A j \in call[c].ids : ~ Waiting(j)
  BY DEF ListTrim, At, IInv, SafeInv, CallInv, ListerSane
<1>2. index' = index \/ index' = index \ call[c].ids
  BY DEF ListTrim
<1>3. /\ \A j \in Items : j \in index /\ Waiting(j) => j \in index'
      /\ \A j \in Items : j \in index' => j \in index \/ payload[j].status # "absent"
  BY <1>1, <1>2
<1> QED
  BY <1>3, ReturnFacts, IndexStep DEF ListTrim, IInv, Return, NoCall, CallAt, HoldPCs

LEMMA XAddStep ==
  ASSUME IInv, NEW c \in Callers, EnqueueXAdd(c)
  PROVE  SafeInv'
<1> DEFINE i == call[c].id
<1>1. i \in Items /\ payload[i].status # "absent" /\ (Waiting(i) => i \in index)
  BY DEF EnqueueXAdd, At, IInv, SafeInv, CallInv, CallSane, ListerSane, ItemPCs
<1>2. \A j \in Items :
        /\ hist'[j].wins = hist[j].wins /\ hist'[j].told = hist[j].told
        /\ hist'[j].spends = hist[j].spends /\ hist'[j].paid = hist[j].paid
        /\ j # i => hist'[j].submitted = hist[j].submitted
  BY <1>1 DEF EnqueueXAdd, TellSubmitted, Told, IInv, TypeOK
<1>3. Reliable' = Reliable /\ UNCHANGED <<now, payload, index, resolveLock, redeemLock>>
  BY DEF EnqueueXAdd, Reliable
<1>4. ASSUME NEW d \in Callers, d # c PROVE CallInv(d)'
  <2>1. CallInv(d) /\ call'[d] = call[d]
    BY <1>4, ReturnFacts DEF EnqueueXAdd, IInv, SafeInv
  <2>2. CallSane(d)' /\ ResolverSane(d)' /\ RedeemerSane(d)'
    BY <1>2, <1>3, <2>1 DEF CallInv, CallSane, ResolverSane, RedeemerSane, ItemPCs
  <2>3. LockOwned(d)' /\ ListerSane(d)'
    BY <1>2, <1>3, <2>1 DEF CallInv, CallSane, LockOwned, ListerSane, Waiting, ItemPCs
  <2> QED
    BY <2>2, <2>3 DEF CallInv
<1>5. ASSUME NEW j \in Items PROVE ItemInv(j)'
  BY <1>1, <1>2, <1>3 DEF IInv, SafeInv, ItemInv, ItemListed, ItemDecided, ItemSpent, Waiting
<1> QED
  BY <1>3, <1>4, <1>5, ReturnFacts DEF EnqueueXAdd, IInv, SafeInv

\* Whoever finds the lock free is alone: the item is undecided and no other
\* call owns the lock.  This is where the retention period must exceed the
\* duration of a call.
LEMMA FreeMeansAlone ==
  ASSUME IInv, Reliable, NEW c \in Callers, call[c].pc = "claim",
         Free(resolveLock, call[c].id)
  PROVE  /\ payload[call[c].id].status = "pending"
         /\ \A d \in Callers : call[d].id = call[c].id => call[d].pc \notin HoldPCs
<1> USE PeriodsAssumption
<1>1. CallSane(c) /\ LockOwned(c) /\ call[c].id \in Items /\ payload[call[c].id].status # "absent"
  BY DEF IInv, SafeInv, CallInv, CallSane, ItemPCs
<1>2. payload[call[c].id].status = "pending"
  BY <1>1, FieldTypes DEF IInv, CallSane, LockOwned, Free
<1>3. ASSUME NEW d \in Callers, call[d].id = call[c].id, call[d].pc \in HoldPCs PROVE FALSE
  <2>1. CallSane(d) /\ ResolverSane(d) /\ LockOwned(d)
    BY DEF IInv, SafeInv, CallInv
  <2>2. resolveLock[call[c].id] = call[d].at + ResolvedRetention
    BY <1>3, <2>1 DEF LockOwned
  <2>3. now <= call[d].at + CallSpan
    BY <1>3, <2>1, FieldTypes DEF IInv, CallSane, ResolverSane, HoldPCs
  <2> QED
    BY <1>1, <2>2, <2>3, <1>3, FieldTypes DEF IInv, Free
<1> QED
  BY <1>2, <1>3

LEMMA ClaimStep ==
  ASSUME IInv, NEW c \in Callers, ResolveClaim(c)
  PROVE  SafeInv'
<1> USE PeriodsAssumption
<1> DEFINE i == call[c].id
           k == CallAt("store", i, call[c].verdict, Unbound, call[c].began, now, {})
<1>1. /\ call[c].pc = "claim" /\ i \in Items /\ CallSane(c) /\ ResolverSane(c)
      /\ Reliable' = Reliable
      /\ UNCHANGED <<now, payload, index, redeemLock, hist>>
  BY DEF ResolveClaim, At, IInv, SafeInv, CallInv, CallSane, ItemPCs, Reliable
<1>2. CASE Return(c) /\ UNCHANGED resolveLock
  BY <1>2, ReturnFacts, Frame DEF ResolveClaim, IInv, SafeInv, Reliable
<1>3. CASE /\ Free(resolveLock, i)
           /\ resolveLock' = [resolveLock EXCEPT ![i] = now + ResolvedRetention]
           /\ Hold(c) \/ (Return(c) /\ ~ Reliable)
  <2>1. /\ resolveLock'[i] = now + ResolvedRetention
        /\ \A j \in Items : j # i => resolveLock'[j] = resolveLock[j]
    BY <1>1, <1>3 DEF IInv, TypeOK
  <2>2. \A d \in Callers : d # c => call'[d] = call[d]
    BY <1>3, DoFacts DEF Hold, Return, IInv
  <2>3. Hold(c) => call'[c] = k
    BY DoFacts DEF Hold, IInv
  <2>4. Reliable => /\ payload[i].status = "pending"
                    /\ \A d \in Callers : call[d].id = i => call[d].pc \notin HoldPCs
    BY <1>1, <1>3, FreeMeansAlone
  <2>5. ASSUME NEW d \in Callers, d # c PROVE CallInv(d)'
    <3>1. CallInv(d) /\ call'[d] = call[d]
      BY <2>2, <2>5 DEF IInv, SafeInv
    <3>2. CallSane(d)' /\ ResolverSane(d)' /\ RedeemerSane(d)' /\ ListerSane(d)'
      BY <1>1, <3>1 DEF CallInv, CallSane, ResolverSane, RedeemerSane, ListerSane, Waiting
    <3>3. LockOwned(d)'
      BY <1>1, <2>1, <2>4, <3>1 DEF CallInv, CallSane, LockOwned, ItemPCs, HoldPCs, Verdicts
    <3> QED
      BY <3>2, <3>3 DEF CallInv
  <2>6. Hold(c) => CallInv(c)'
    <3> SUFFICES ASSUME Hold(c) PROVE CallInv(c)'
      OBVIOUS
    <3>1. call'[c] = k
      BY <2>3
    <3>2. CallSane(c)' /\ ResolverSane(c)'
      BY <1>1, <3>1, FieldTypes DEF IInv, CallSane, ResolverSane, CallAt, ItemPCs, HoldPCs
    <3>3. RedeemerSane(c)' /\ ListerSane(c)'
      BY <3>1 DEF RedeemerSane, ListerSane, CallAt
    <3>4. LockOwned(c)'
      BY <1>1, <2>1, <2>4, <3>1 DEF LockOwned, CallAt, HoldPCs
    <3> QED
      BY <3>2, <3>3, <3>4 DEF CallInv
  <2>7. CallInv(c)'
    BY <1>3, <2>6, ReturnFacts DEF IInv
  <2>8. LockExclusive'
    <3>1. Hold(c) => call'[c].id = i
      BY <2>3 DEF CallAt
    <3> QED
      BY <1>1, <1>3, <2>2, <2>4, <3>1 DEF IInv, SafeInv, LockExclusive
  <2>9. ASSUME NEW j \in Items PROVE ItemInv(j)'
    BY <1>1 DEF IInv, SafeInv, ItemInv, ItemListed, ItemDecided, ItemSpent, Waiting
  <2> QED
    BY <2>5, <2>7, <2>8, <2>9 DEF SafeInv
<1> QED
  BY <1>2, <1>3 DEF ResolveClaim, Outcomes, Reliable

LEMMA ReleaseStep ==
  ASSUME IInv, NEW c \in Callers, ResolveRelease(c)
  PROVE  SafeInv'
<1> USE PeriodsAssumption
<1> DEFINE i == call[c].id
<1>1. /\ call[c].pc = "release" /\ i \in Items /\ LockOwned(c)
      /\ Reliable' = Reliable
      /\ UNCHANGED <<now, payload, index, redeemLock, hist>>
  BY DEF ResolveRelease, At, IInv, SafeInv, CallInv, CallSane, ItemPCs, Reliable
<1>2. \A j \in Items : j # i => resolveLock'[j] = resolveLock[j]
  BY <1>1 DEF ResolveRelease, IInv, TypeOK
<1>3. ASSUME NEW d \in Callers, d # c PROVE CallInv(d)'
  <2>1. CallInv(d) /\ call'[d] = call[d]
    BY <1>3, ReturnFacts DEF ResolveRelease, IInv, SafeInv
  <2>2. CallSane(d)' /\ ResolverSane(d)' /\ RedeemerSane(d)' /\ ListerSane(d)'
    BY <1>1, <2>1 DEF CallInv, CallSane, ResolverSane, RedeemerSane, ListerSane, Waiting
  <2>3. LockOwned(d)'
    <3>1. Reliable /\ call[d].id = i => call[d].pc \notin HoldPCs /\ payload[i].status = "pending"
      BY <1>1, <1>3 DEF IInv, SafeInv, LockExclusive, LockOwned, HoldPCs
    <3> QED
      BY <1>1, <1>2, <2>1, <3>1 DEF CallInv, CallSane, LockOwned, ItemPCs, HoldPCs, Verdicts
  <2> QED
    BY <2>2, <2>3 DEF CallInv
<1>4. ASSUME NEW j \in Items PROVE ItemInv(j)'
  BY <1>1 DEF IInv, SafeInv, ItemInv, ItemListed, ItemDecided, ItemSpent, Waiting
<1> QED
  BY <1>1, <1>3, <1>4, ReturnFacts DEF ResolveRelease, IInv, SafeInv

LEMMA UnlistStep ==
  ASSUME IInv, NEW c \in Callers, ResolveUnlist(c)
  PROVE  SafeInv'
<1> USE PeriodsAssumption
<1> DEFINE i == call[c].id
<1>1. /\ call[c].pc = "unlist" /\ i \in Items /\ LockOwned(c)
      /\ payload[i].status \in Verdicts
      /\ Reliable' = Reliable
      /\ UNCHANGED <<now, payload, resolveLock, redeemLock>>
  BY DEF ResolveUnlist, At, IInv, SafeInv, CallInv, CallSane, ResolverSane, ItemPCs, Reliable
<1>2. /\ hist'[i] = Told(hist[i].submitted, hist[i].wins + 1, hist[i].told \cup {call[c].verdict},
                        hist[i].spends, hist[i].paid)
      /\ \A j \in Items : j # i => hist'[j] = hist[j]
  BY <1>1 DEF ResolveUnlist, TellDecided, IInv, TypeOK
<1>3. \A j \in Items : hist'[j].spends = hist[j].spends /\ hist'[j].paid = hist[j].paid
                        /\ hist'[j].submitted = hist[j].submitted
  BY <1>2 DEF Told
<1>4. \A j \in Items : (j \in index' => j \in index) /\ (j \in index /\ j # i => j \in index')
  BY DEF ResolveUnlist
<1>5. ASSUME NEW d \in Callers, d # c PROVE CallInv(d)'
  <2>1. CallInv(d) /\ call'[d] = call[d]
    BY <1>5, ReturnFacts DEF ResolveUnlist, IInv, SafeInv
  <2>2. CallSane(d)' /\ ResolverSane(d)' /\ RedeemerSane(d)'
    BY <1>1, <1>3, <2>1 DEF CallInv, CallSane, ResolverSane, RedeemerSane, ItemPCs
  <2>3. ListerSane(d)'
    BY <1>1, <1>4, <2>1 DEF CallInv, CallSane, ListerSane, Waiting, ItemPCs, Verdicts
  <2>4. LockOwned(d)'
    <3>1. Reliable /\ call[d].id = i => call[d].pc # "unlist"
      BY <1>1, <1>5 DEF IInv, SafeInv, LockExclusive, HoldPCs
    <3> QED
      BY <1>1, <1>2, <2>1, <3>1 DEF CallInv, CallSane, LockOwned, ItemPCs
  <2> QED
    BY <2>2, <2>3, <2>4 DEF CallInv
<1>6. ASSUME NEW j \in Items PROVE ItemInv(j)'
  <2>1. ItemInv(j)
    BY DEF IInv, SafeInv
  <2>2. ItemListed(j)'
    BY <1>1, <1>3, <1>4, <2>1 DEF ItemInv, ItemListed, Waiting, Verdicts
  <2>3. ItemDecided(j)'
    BY <1>1, <1>2, <2>1, FieldTypes DEF IInv, ItemInv, ItemDecided, LockOwned, Told
  <2>4. ItemSpent(j)'
    BY <1>1, <1>3, <2>1 DEF ItemInv, ItemSpent
  <2> QED
    BY <2>2, <2>3, <2>4 DEF ItemInv
<1> QED
  BY <1>1, <1>5, <1>6, ReturnFacts DEF ResolveUnlist, IInv, SafeInv

\* The redeem lock outlives the redemption window plus a call, so whoever
\* finds it free redeems an approval nobody has spent.
LEMMA SpendStep ==
  ASSUME IInv, NEW c \in Callers, claimRedemption(c)
  PROVE  SafeInv'
<1> USE PeriodsAssumption
<1> DEFINE i == call[c].id
<1>1. /\ call[c].pc = "spend" /\ i \in Items /\ CallSane(c) /\ RedeemerSane(c)
      /\ Reliable' = Reliable
      /\ UNCHANGED <<now, payload, index, resolveLock>>
  BY DEF claimRedemption, At, IInv, SafeInv, CallInv, CallSane, ItemPCs, Reliable
<1>2. CASE UNCHANGED <<redeemLock, hist>>
  BY <1>2, ReturnFacts, Frame DEF claimRedemption, IInv, SafeInv, Reliable
<1>3. CASE /\ Free(redeemLock, i)
           /\ redeemLock' = [redeemLock EXCEPT ![i] = now + ResolvedRetention]
           /\ TellAllowed(i, call[c].print) \/ UNCHANGED hist
  <2>1. /\ redeemLock'[i] = now + ResolvedRetention
        /\ \A j \in Items : j # i => redeemLock'[j] = redeemLock[j]
    BY <1>1, <1>3 DEF IInv, TypeOK
  <2>2. hist[i].spends = 0 /\ hist[i].paid = {}
    <3>1. ~ (hist[i].spends >= 1)
      BY <1>1, <1>3, FieldTypes DEF IInv, CallSane, RedeemerSane, Free
    <3> QED
      BY <1>1, <3>1, FieldTypes DEF IInv, SafeInv, ItemInv, ItemSpent
  <2>3. /\ \A j \in Items : j # i => hist'[j] = hist[j]
        /\ hist'[i].submitted = hist[i].submitted
        /\ hist'[i].wins = hist[i].wins /\ hist'[i].told = hist[i].told
        /\ \/ hist'[i].spends = 1 /\ hist'[i].paid = {call[c].print}
           \/ hist'[i].spends = 0 /\ hist'[i].paid = {}
    <3>1. CASE TellAllowed(i, call[c].print)
      <4>1. /\ \A j \in Items : j # i => hist'[j] = hist[j]
            /\ hist'[i] = Told(hist[i].submitted, hist[i].wins, hist[i].told,
                              hist[i].spends + 1, hist[i].paid \cup {call[c].print})
        BY <1>1, <3>1 DEF TellAllowed, IInv, TypeOK
      <4> QED
        BY <2>2, <4>1 DEF Told
    <3>2. CASE UNCHANGED hist
      BY <2>2, <3>2
    <3> QED
      BY <1>3, <3>1, <3>2
  <2>4. ASSUME NEW d \in Callers, d # c PROVE CallInv(d)'
    <3>1. CallInv(d) /\ call'[d] = call[d]
      BY <2>4, ReturnFacts DEF claimRedemption, IInv, SafeInv
    <3>2. CallSane(d)' /\ ListerSane(d)'
      BY <1>1, <3>1 DEF CallInv, CallSane, ListerSane, Waiting
    <3>3. ResolverSane(d)'
      BY <1>1, <2>1, <2>3, <3>1, FieldTypes
         DEF IInv, CallInv, CallSane, ResolverSane, ItemPCs, HoldPCs
    <3>4. RedeemerSane(d)'
      BY <1>1, <2>1, <2>3, <3>1, FieldTypes
         DEF IInv, CallInv, CallSane, RedeemerSane, ItemPCs
    <3>5. LockOwned(d)'
      BY <1>1, <2>3, <3>1 DEF CallInv, CallSane, LockOwned, ItemPCs, HoldPCs
    <3> QED
      BY <3>2, <3>3, <3>4, <3>5 DEF CallInv
  <2>5. ASSUME NEW j \in Items PROVE ItemInv(j)'
    <3>1. ItemInv(j)
      BY DEF IInv, SafeInv
    <3>2. ItemListed(j)' /\ ItemDecided(j)'
      BY <1>1, <2>3, <3>1 DEF ItemInv, ItemListed, ItemDecided, Waiting
    <3>3. ItemSpent(j)'
      BY <1>1, <2>1, <2>3, <3>1, FieldTypes DEF IInv, ItemInv, ItemDecided, ItemSpent, RedeemerSane
    <3> QED
      BY <3>2, <3>3 DEF ItemInv
  <2> QED
    BY <1>1, <2>4, <2>5, ReturnFacts DEF claimRedemption, IInv, SafeInv
<1> QED
  BY <1>2, <1>3 DEF claimRedemption

LEMMA TickStep ==
  ASSUME IInv, Tick
  PROVE  SafeInv'
<1> USE PeriodsAssumption
<1>1. /\ now' = now + 1 /\ Reliable' = Reliable
      /\ UNCHANGED <<payload, index, resolveLock, redeemLock, call, hist>>
  BY DEF Tick, Reliable
<1>2. ASSUME NEW d \in Callers PROVE CallInv(d)'
  <2>1. CallInv(d) /\ (call[d].pc # "idle" => now < call[d].began + CallSpan)
    BY DEF IInv, SafeInv, Tick, Idle
  <2>2. CallSane(d)' /\ ResolverSane(d)'
    BY <1>1, <2>1, FieldTypes DEF IInv, CallInv, CallSane, ResolverSane
  <2>3. RedeemerSane(d)' /\ LockOwned(d)'
    BY <1>1, <2>1 DEF CallInv, RedeemerSane, LockOwned
  <2>4. ListerSane(d)'
    <3>1. \A j \in Items : Waiting(j)' => Waiting(j)
      BY <1>1, FieldTypes DEF IInv, Waiting
    <3> QED
      BY <1>1, <2>1, <3>1 DEF CallInv, CallSane, ListerSane, ItemPCs
  <2> QED
    BY <2>2, <2>3, <2>4 DEF CallInv
<1>3. LockExclusive'
  BY <1>1 DEF IInv, SafeInv, LockExclusive
<1>4. ASSUME NEW j \in Items PROVE ItemInv(j)'
  BY <1>1, FieldTypes DEF IInv, SafeInv, ItemInv, ItemListed, ItemDecided, ItemSpent, Waiting
<1> QED
  BY <1>2, <1>3, <1>4 DEF SafeInv

---------------------------------------------------------------------------
(* The invariant and what follows from it                                  *)

LEMMA InitInv == Init => IInv
<1> SUFFICES ASSUME Init PROVE IInv
  OBVIOUS
<1>1. Item("absent", 0, 0, 0, Unbound) \in ReviewRequest /\ Told(FALSE, 0, {}, 0, {}) \in History
  BY DEF Item, ReviewRequest, Told, History
<1>2. TypeOK
  BY <1>1, NoCallType DEF Init, TypeOK
<1>3. \A c \in Callers : call[c].pc = "idle"
  BY DEF Init, NoCall, CallAt
<1>4. (\A c \in Callers : CallInv(c)) /\ LockExclusive
  BY <1>3, IdleInv DEF LockExclusive, HoldPCs
<1>5. ASSUME NEW i \in Items PROVE ItemInv(i)
  BY DEF Init, Item, Told, ItemInv, ItemListed, ItemDecided, ItemSpent, Waiting, Verdicts
<1> QED
  BY <1>2, <1>4, <1>5 DEF IInv, SafeInv

LEMMA NextInv == IInv /\ [Next]_vars => IInv'
<1> SUFFICES ASSUME IInv, [Next]_vars PROVE IInv'
  OBVIOUS
<1>1. TypeOK'
  BY StepTypeOK DEF IInv, SafeInv, CallInv
<1>2. CASE UNCHANGED vars
  <2>1. LockExclusive'
    BY <1>2 DEF IInv, SafeInv, LockExclusive, Reliable, vars
  <2> QED
    BY <1>1, <1>2, <2>1, Frame DEF IInv, SafeInv, vars
<1>3. CASE Tick
  BY <1>1, <1>3, TickStep DEF IInv
<1>4. ASSUME NEW c \in Callers, Begin(c) PROVE IInv'
  BY <1>1, <1>4, ListRangeStep, EnqueueSetStep, ResolveGetStep, RedeemGetStep DEF Begin, IInv
<1>5. ASSUME NEW c \in Callers, Continue(c) PROVE IInv'
  BY <1>1, <1>5, ZAddStep, XAddStep, ClaimStep, StoreStep, ReleaseStep, UnlistStep, SpendStep,
     FetchStep, TrimStep DEF Continue, IInv
<1>6. ASSUME NEW c \in Callers, Crash(c) PROVE IInv'
  BY <1>1, <1>6, CrashStep DEF IInv
<1> QED
  BY <1>2, <1>3, <1>4, <1>5, <1>6 DEF Next

\* The inductive invariant holds in every reachable state of the queue.
THEOREM Invariance == Spec => []IInv
  BY InitInv, NextInv, PTL DEF Spec

\* Every reachable state of the queue is well typed.
THEOREM TypeCorrect == Spec => []TypeOK
<1>1. IInv => TypeOK
  BY DEF IInv
<1> QED
  BY <1>1, Invariance, PTL

\* resolve() has one winner per item, for any number of racing reviewers,
\* whatever commands are refused and whichever replicas die.
THEOREM ResolveOnce == Spec => []OneWinner
<1>1. IInv => OneWinner
  BY DEF IInv, SafeInv, ItemInv, ItemDecided, OneWinner, Reliable
<1> QED
  BY <1>1, Invariance, PTL

\* Redeem() pays an approval out at most once, for the fingerprint it was
\* given for, also when replies are lost.
THEOREM RedeemOnce == Spec => []RedeemSound
<1>1. IInv => RedeemSound
  BY DEF IInv, SafeInv, ItemInv, ItemSpent, RedeemSound, Reliable
<1> QED
  BY <1>1, Invariance, PTL

\* ListPendingPage's clean-up never hides an item that waits for a reviewer.
THEOREM NothingHidden == Spec => []ListedUntilDecided
<1>1. ASSUME IInv PROVE ListedUntilDecided
  <2>1. \A i \in Items : EffectiveStatus(i) = "pending" => Waiting(i)
    BY <1>1, FieldTypes, PeriodsAssumption
       DEF IInv, EffectiveStatus, expiredIfStale, Present, Waiting, Verdicts
  <2> QED
    BY <1>1, <2>1 DEF IInv, SafeInv, ItemInv, ItemListed, ListedUntilDecided
<1> QED
  BY <1>1, Invariance, PTL

\* resolve() stores no decision later than one call after the item expired.
THEOREM NoLateDecision == Spec => []DecidedInTime
<1>1. IInv => DecidedInTime
  BY DEF IInv, SafeInv, ItemInv, ItemDecided, DecidedInTime
<1> QED
  BY <1>1, Invariance, PTL

---------------------------------------------------------------------------
(* Permanence and refinement                                               *)

\* Only three commands change what the lifecycle shows: the SET of
\* EnqueueRequest, the SET of resolve() and a successful claimRedemption.
LEMMA QuietStep ==
  ASSUME IInv, [Next]_vars
  PROVE  \/ /\ UNCHANGED <<faults, payload>>
            /\ \A j \in Items : hist'[j].spends = hist[j].spends
         \/ \E c \in Callers, i \in Items, f \in Prints \cup {Unbound} : EnqueueSet(c, i, f)
         \/ \E c \in Callers : ResolveStore(c)
         \/ \E c \in Callers : claimRedemption(c)
<1> DEFINE Quiet == /\ UNCHANGED <<faults, payload>>
                    /\ \A j \in Items : hist'[j].spends = hist[j].spends
<1>1. CASE UNCHANGED vars \/ Tick
  BY <1>1 DEF vars, Tick
<1>2. ASSUME NEW c \in Callers, Begin(c)
      PROVE  Quiet \/ \E i \in Items, f \in Prints \cup {Unbound} : EnqueueSet(c, i, f)
  BY <1>2 DEF Begin, ListRange, ResolveGet, RedeemGet
<1>3. ASSUME NEW c \in Callers, Continue(c)
      PROVE  Quiet \/ ResolveStore(c) \/ claimRedemption(c)
  <2>1. CASE EnqueueXAdd(c)
    <3>1. \A j \in Items : hist'[j] = hist[j] \/ hist'[j].spends = hist[j].spends
      BY <2>1 DEF EnqueueXAdd, TellSubmitted, Told, IInv, TypeOK
    <3> QED
      BY <2>1, <3>1 DEF EnqueueXAdd
  <2>2. CASE ResolveUnlist(c)
    <3>1. \A j \in Items : hist'[j] = hist[j] \/ hist'[j].spends = hist[j].spends
      BY <2>2 DEF ResolveUnlist, TellDecided, Told, IInv, TypeOK
    <3> QED
      BY <2>2, <3>1 DEF ResolveUnlist
  <2>3. CASE EnqueueZAdd(c) \/ ResolveClaim(c) \/ ResolveRelease(c) \/ fetchIndexed(c) \/ ListTrim(c)
    BY <2>3 DEF EnqueueZAdd, ResolveClaim, ResolveRelease, fetchIndexed, ListTrim
  <2> QED
    BY <1>3, <2>1, <2>2, <2>3 DEF Continue
<1>4. ASSUME NEW c \in Callers, Crash(c) PROVE Quiet
  BY <1>4 DEF Crash
<1> QED
  BY <1>1, <1>2, <1>3, <1>4 DEF Next

\* Without lost replies, resolve() stores into a pending item.
LEMMA StoreFacts ==
  ASSUME IInv, NEW c \in Callers, ResolveStore(c), Reliable
  PROVE  /\ call[c].id \in Items /\ call[c].verdict \in Verdicts
         /\ payload[call[c].id].status = "pending"
         /\ \/ payload' = payload
            \/ payload' = [payload EXCEPT ![call[c].id] = Decided(c, call[c].verdict)]
         /\ UNCHANGED <<faults, hist>>
<1>1. call[c].pc = "store" /\ CallSane(c) /\ LockOwned(c)
  BY DEF ResolveStore, At, IInv, SafeInv, CallInv
<1>2. call[c].id \in Items /\ payload[call[c].id].status = "pending"
  BY <1>1 DEF CallSane, LockOwned, ItemPCs
<1> QED
  BY <1>2, FieldTypes DEF IInv, ResolveStore

\* A stored decision, its time and its fingerprint never change again,
\* unless a reply is lost.
THEOREM DecidedForGood == Spec => DecisionPermanent
<1>1. ASSUME IInv, [Next]_vars, NEW i \in Items,
             payload[i].status \in Verdicts, "lost" \notin faults
      PROVE  payload'[i] = payload[i]
  <2>1. ASSUME NEW c \in Callers, NEW j \in Items, NEW f \in Prints \cup {Unbound},
               EnqueueSet(c, j, f)
        PROVE  payload'[i] = payload[i]
    BY <1>1, <2>1 DEF EnqueueSet, Verdicts, IInv, TypeOK
  <2>2. ASSUME NEW c \in Callers, ResolveStore(c) PROVE payload'[i] = payload[i]
    BY <1>1, <2>2, StoreFacts DEF Reliable, Verdicts, IInv, TypeOK
  <2>3. ASSUME NEW c \in Callers, claimRedemption(c) PROVE payload'[i] = payload[i]
    BY <2>3 DEF claimRedemption
  <2> QED
    BY <1>1, <2>1, <2>2, <2>3, QuietStep
<1>2. IInv /\ [Next]_vars =>
        [\A i \in Items : payload[i].status \in Verdicts /\ "lost" \notin faults
                            => payload'[i] = payload[i]]_vars
  BY <1>1
<1> QED
  BY <1>2, Invariance, PTL DEF Spec, DecisionPermanent

\* The three visible steps are steps of ReviewLifecycle.
LEMMA StepRefines ==
  ASSUME IInv, IInv', [Next]_vars
  PROVE  [Lifecycle!Next]_(Lifecycle!vars)
<1> DEFINE verdict == [i \in Items |-> IF Reliable THEN payload[i].status ELSE "absent"]
           spent == {i \in Items : Reliable /\ hist[i].spends > 0}
<1> USE DEF Lifecycle!vars
<1>1. ASSUME UNCHANGED <<faults, payload>>, \A j \in Items : hist'[j].spends = hist[j].spends
      PROVE  UNCHANGED Lifecycle!vars
  BY <1>1 DEF Reliable
<1>2. CASE Reliable /\ \E c \in Callers, i \in Items, f \in Prints \cup {Unbound} : EnqueueSet(c, i, f)
  <2>1. PICK c \in Callers, i \in Items, f \in Prints \cup {Unbound} : EnqueueSet(c, i, f)
    BY <1>2
  <2>2. /\ payload[i].status = "absent" /\ payload'[i].status = "pending"
        /\ \A j \in Items : j # i => payload'[j].status = payload[j].status
        /\ UNCHANGED <<faults, hist>>
    BY <2>1 DEF EnqueueSet, Item, IInv, TypeOK
  <2>3. verdict' = [verdict EXCEPT ![i] = "pending"] /\ spent' = spent
    BY <1>2, <2>2 DEF Reliable
  <2>4. Lifecycle!Submit(i)
    BY <1>2, <2>2, <2>3 DEF Lifecycle!Submit
  <2> QED
    BY <2>4 DEF Lifecycle!Next
<1>3. CASE Reliable /\ \E c \in Callers : ResolveStore(c)
  <2>1. PICK c \in Callers : ResolveStore(c)
    BY <1>3
  <2>2. PICK i \in Items, v \in Verdicts : i = call[c].id /\ v = call[c].verdict
    BY <1>3, <2>1, StoreFacts
  <2>3. CASE payload' = payload
    BY <1>1, <1>3, <2>1, <2>3, StoreFacts
  <2>4. CASE payload' = [payload EXCEPT ![i] = Decided(c, v)]
    <3>1. /\ payload[i].status = "pending" /\ payload'[i].status = v
          /\ \A j \in Items : j # i => payload'[j].status = payload[j].status
          /\ UNCHANGED <<faults, hist>>
      BY <1>3, <2>1, <2>2, <2>4, StoreFacts DEF Decided, Item, IInv, TypeOK
    <3>2. verdict' = [verdict EXCEPT ![i] = v] /\ spent' = spent
      BY <1>3, <3>1 DEF Reliable
    <3>3. Lifecycle!Decide(i, v)
      BY <1>3, <3>1, <3>2 DEF Lifecycle!Decide
    <3> QED
      BY <3>3 DEF Lifecycle!Next
  <2> QED
    BY <1>3, <2>1, <2>2, <2>3, <2>4, StoreFacts
<1>4. CASE Reliable /\ \E c \in Callers : claimRedemption(c)
  <2>1. PICK c \in Callers : claimRedemption(c)
    BY <1>4
  <2>2. CASE hist' = hist
    BY <1>1, <2>1, <2>2 DEF claimRedemption
  <2>3. CASE TellAllowed(call[c].id, call[c].print)
    <3>1. PICK i \in Items : i = call[c].id
      BY <2>1 DEF claimRedemption, At, IInv, SafeInv, CallInv, CallSane, ItemPCs
    <3>2. payload[i].status = "approved" /\ UNCHANGED <<faults, payload>>
      BY <1>4, <2>1, <3>1 DEF claimRedemption, At, IInv, SafeInv, CallInv, RedeemerSane
    <3>3. /\ hist'[i].spends = hist[i].spends + 1
          /\ \A j \in Items : j # i => hist'[j].spends = hist[j].spends
      BY <2>3, <3>1 DEF TellAllowed, Told, IInv, TypeOK
    <3>4. hist[i].spends = 0
      <4>1. hist'[i].spends <= 1
        BY <3>1 DEF IInv, SafeInv, ItemInv, ItemSpent
      <4> QED
        BY <3>3, <4>1, FieldTypes DEF IInv
    <3>5. spent' = spent \cup {i} /\ verdict' = verdict /\ i \notin spent
      BY <1>4, <3>2, <3>3, <3>4 DEF Reliable
    <3>6. Lifecycle!Spend(i)
      BY <1>4, <3>2, <3>5 DEF Lifecycle!Spend
    <3> QED
      BY <3>6 DEF Lifecycle!Next
  <2> QED
    BY <2>1, <2>2, <2>3 DEF claimRedemption
<1>5. CASE ~ Reliable
  <2>1. faults' = faults
    BY <1>5, QuietStep DEF EnqueueSet, ResolveStore, claimRedemption
  <2> QED
    BY <1>5, <2>1 DEF Reliable
<1> QED
  BY <1>1, <1>2, <1>3, <1>4, <1>5, QuietStep

\* The Redis queue implements the lifecycle of ReviewLifecycle.
THEOREM RefinesLifecycle == Spec => ImplementsLifecycle
<1>1. Init => Lifecycle!Init
  BY DEF Init, Lifecycle!Init, Item, Told
<1>2. IInv /\ IInv' /\ [Next]_vars => [Lifecycle!Next]_(Lifecycle!vars)
  BY StepRefines
<1> QED
  BY <1>1, <1>2, Invariance, PTL DEF Spec, ImplementsLifecycle, Lifecycle!Spec
==========================================================================
