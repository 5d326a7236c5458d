--------------------------- MODULE PlatformProofs ---------------------------
(***************************************************************************)
(* Proofs about the hosted platform: its gateway, accounts, billing, policy*)
(* simulator, built-in rule lists and list of identities, for any numbers  *)
(* of users, keys, addresses, handlers, drafts and identities.  Each part  *)
(* has an inductive invariant of its own; the theorems about module        *)
(* Platform are at the end.  The pages that send requests of their own are *)
(* in PagesProofs.                                                         *)
(***************************************************************************)
EXTENDS Platform, FiniteSetTheorems, SequenceTheorems, WellFoundedInduction, TLAPS

---------------------------------------------------------------------------
(* CloudGateway: the inductive invariant                                   *)

\* How many handlers are in one of the given states.
Count(cs, S) == Cardinality({c \in Calls : cs[c] \in S})

\* The states of a handler that has read u's usage, whose call the engine has,
\* and that may yet forward its call when the limit is L.
CheckedBy(u) == {q \in Gateway!Call : q.user = u /\ q.used # None}
FlyingBy(u) == {q \in Gateway!Call : q.user = u /\ q.at = "engine"}
WaitingBy(u, L) ==
  {q \in Gateway!Call : q.user = u /\ q.at = "check" /\ q.used # None /\ q.used < L}

\* A live key has an owner; a handler at work has a user, its queries come
\* before the engine, and it has seen no better plan than `best` says.
KeysOwned == \A k \in Keys : keys[k].state = "live" => keys[k].owner \in Users
HandlersSound ==
  \A c \in Calls :
    /\ calls[c].at = "idle" => calls[c] = Gateway!Idle
    /\ calls[c].at # "idle" => calls[c].user \in Users
    /\ calls[c].at = "touch" => calls[c].plan = None /\ calls[c].used = None
    /\ calls[c].at = "engine" => calls[c].plan # None /\ calls[c].used # None
    /\ calls[c].plan # None => PlanLimit[calls[c].plan] <= PlanLimit[best[calls[c].user]]

\* Where a call went that the engine got.
Accounted(u) == sent[u] = rows[u] + pending[u] + lost[u] + Count(calls, FlyingBy(u))

\* The calls sent, and those that may yet be sent against the limit of the best
\* plan or of a better one, exceed that limit by less than the peak.
WithinPeak(u) ==
  \A p \in Gateway!Plans :
    LET L == PlanLimit[p]
        waiting == Count(calls, WaitingBy(u, L))
    IN  PlanLimit[best[u]] <= L /\ waiting > 0 => sent[u] + waiting < L + peak[u]
Bounded(u) ==
  /\ sent[u] <= PlanLimit[best[u]] \/ sent[u] < PlanLimit[best[u]] + peak[u]

GatewayInv ==
  /\ Gateway!TypeOK
  /\ KeysOwned /\ HandlersSound
  /\ \A u \in Users : Accounted(u) /\ WithinPeak(u) /\ Bounded(u)

---------------------------------------------------------------------------
(* CloudGateway: counting handlers                                         *)

Bit(q, S) == IF q \in S THEN 1 ELSE 0

\* The gateway counts with the same operator.
LEMMA SameCardinality == \A S : Gateway!Cardinality(S) = Cardinality(S)
BY DEF Gateway!Cardinality, Cardinality

LEMMA CountIsNat == \A cs, S : Count(cs, S) \in Nat
<1> SUFFICES ASSUME NEW cs, NEW S PROVE Cardinality({c \in Calls : cs[c] \in S}) \in Nat
  BY DEF Count
<1>1. IsFiniteSet({c \in Calls : cs[c] \in S})
  BY FS_Subset, PlatformAssumption
<1> QED
  BY <1>1, FS_CardinalityType

\* One handler changes.
LEMMA CountStep ==
  ASSUME NEW cs, NEW ds, NEW c \in Calls, \A d \in Calls \ {c} : ds[d] = cs[d], NEW S
  PROVE  Count(ds, S) = Count(cs, S) + Bit(ds[c], S) - Bit(cs[c], S)
<1> DEFINE Others == {d \in Calls \ {c} : cs[d] \in S}
<1>1. IsFiniteSet(Others) /\ c \notin Others
  BY FS_Subset, PlatformAssumption
<1>2. Cardinality(Others) \in Nat /\ Cardinality(Others \cup {c}) = Cardinality(Others) + 1
  BY <1>1, FS_CardinalityType, FS_AddElement
<1>3. {d \in Calls : cs[d] \in S} = IF cs[c] \in S THEN Others \cup {c} ELSE Others
  OBVIOUS
<1>4. {d \in Calls : ds[d] \in S} = IF ds[c] \in S THEN Others \cup {c} ELSE Others
  OBVIOUS
<1>5. Count(cs, S) = Cardinality(Others) + Bit(cs[c], S)
  BY <1>2, <1>3 DEF Count, Bit
<1>6. Count(ds, S) = Cardinality(Others) + Bit(ds[c], S)
  BY <1>2, <1>4 DEF Count, Bit
<1>7. Bit(cs[c], S) \in {0, 1} /\ Bit(ds[c], S) \in {0, 1}
  BY DEF Bit
<1> QED
  BY <1>2, <1>5, <1>6, <1>7

\* The calls in the engine and those that wait are among the checked.
LEMMA CheckedCount ==
  ASSUME NEW cs, NEW u, NEW L,
         \A c \in Calls : cs[c].at = "engine" => cs[c].used # None
  PROVE  Count(cs, FlyingBy(u)) + Count(cs, WaitingBy(u, L)) <= Count(cs, CheckedBy(u))
<1> DEFINE F == {c \in Calls : cs[c] \in FlyingBy(u)}
           W == {c \in Calls : cs[c] \in WaitingBy(u, L)}
           C == {c \in Calls : cs[c] \in CheckedBy(u)}
<1>1. IsFiniteSet(F) /\ IsFiniteSet(W) /\ IsFiniteSet(C)
  BY FS_Subset, PlatformAssumption
<1>2. F \cap W = {} /\ F \cup W \in SUBSET C
  BY DEF FlyingBy, WaitingBy, CheckedBy
<1>3. Cardinality(F \cup W) = Cardinality(F) + Cardinality(W)
  <2>1. Cardinality(F \cup W) = Cardinality(F) + Cardinality(W) - Cardinality(F \cap W)
    BY <1>1, FS_Union
  <2>2. Cardinality(F \cap W) = 0
    BY <1>2, FS_EmptySet
  <2>3. Cardinality(F) \in Nat /\ Cardinality(W) \in Nat
    BY <1>1, FS_CardinalityType
  <2> QED
    BY <2>1, <2>2, <2>3
<1>4. Cardinality(F \cup W) <= Cardinality(C)
  BY <1>1, <1>2, FS_Subset
<1> QED
  BY <1>3, <1>4 DEF Count

\* The library's Max of two numbers.
LEMMA MaxPair ==
  ASSUME NEW a \in Nat, NEW b \in Nat
  PROVE  Gateway!Max({a, b}) = IF a >= b THEN a ELSE b
<1>1. Gateway!Max({a, b}) = CHOOSE x \in {a, b} : \A y \in {a, b} : x >= y
  BY DEF Gateway!Max
<1>2. \E x \in {a, b} : \A y \in {a, b} : x >= y
  OBVIOUS
<1> QED
  BY <1>1, <1>2

---------------------------------------------------------------------------
(* CloudGateway: every step keeps the invariant                            *)

LEMMA GatewayStarts == Gateway!Init => GatewayInv
<1> SUFFICES ASSUME Gateway!Init PROVE GatewayInv
  OBVIOUS
<1> USE PlatformAssumption
<1>1. Gateway!TypeOK
  BY DEF Gateway!Init, Gateway!TypeOK, Gateway!Plans, Gateway!Key, Gateway!Call, Gateway!Idle
<1>2. KeysOwned /\ HandlersSound
  BY DEF Gateway!Init, KeysOwned, HandlersSound, Gateway!Idle
<1>3. ASSUME NEW u \in Users, NEW L
      PROVE  Count(calls, FlyingBy(u)) = 0 /\ Count(calls, WaitingBy(u, L)) = 0
  <2>1. \A c \in Calls : calls[c] \notin FlyingBy(u) /\ calls[c] \notin WaitingBy(u, L)
    BY DEF Gateway!Init, Gateway!Idle, FlyingBy, WaitingBy
  <2>2. {c \in Calls : calls[c] \in FlyingBy(u)} = {} /\ {c \in Calls : calls[c] \in WaitingBy(u, L)} = {}
    BY <2>1
  <2> QED
    BY <2>2, FS_EmptySet DEF Count
<1>4. ASSUME NEW u \in Users PROVE Accounted(u) /\ WithinPeak(u) /\ Bounded(u)
  <2>1. Accounted(u)
    BY <1>3 DEF Gateway!Init, Accounted
  <2>2. WithinPeak(u)
    BY <1>3 DEF WithinPeak
  <2>3. Bounded(u)
    BY DEF Gateway!Init, Bounded
  <2> QED
    BY <2>1, <2>2, <2>3
<1> QED
  BY <1>1, <1>2, <1>4 DEF GatewayInv

\* What the invariant says of a handler at work.
LEMMA AtWork ==
  ASSUME GatewayInv, NEW c \in Calls
  PROVE  /\ calls[c] \in Gateway!Call
         /\ calls[c].at # "idle" => calls[c].user \in Users
         /\ calls[c].at = "idle" => calls[c] = Gateway!Idle
         /\ calls[c].at = "touch" => calls[c].plan = None /\ calls[c].used = None
         /\ calls[c].at = "engine" => calls[c].plan # None /\ calls[c].used # None
         /\ calls[c].plan # None => PlanLimit[calls[c].plan] <= PlanLimit[best[calls[c].user]]
BY DEF GatewayInv, Gateway!TypeOK, HandlersSound

\* The limits are numbers, and those of a user's best plan positive.
LEMMA Limits ==
  ASSUME GatewayInv
  PROVE  /\ \A p \in Gateway!Plans : PlanLimit[p] \in Nat \ {0}
         /\ \A u \in Users : plan[u] \in Gateway!Plans /\ best[u] \in Gateway!Plans
         /\ \A u \in Users : sent[u] \in Nat /\ sent[u] <= MaxCalls
         /\ \A u \in Users : rows[u] \in Nat /\ pending[u] \in Nat /\ lost[u] \in Nat /\ peak[u] \in Nat
BY PlatformAssumption DEF GatewayInv, Gateway!TypeOK, Gateway!Plans

\* Keys come and go, and the plan changes.
LEMMA GatewayKeysKeep ==
  ASSUME GatewayInv,
         \/ \E u \in Users, k \in Keys :
              Gateway!revokeApiKey(u, k) \/ \E x \in BOOLEAN : Gateway!createApiKey(u, k, x)
         \/ \E k \in Keys : Gateway!KeyExpires(k)
         \/ \E u \in Users : Gateway!PlanChanges(u)
  PROVE  GatewayInv'
<1>1. UNCHANGED <<rows, pending, calls, sent, lost, peak, best>>
  BY DEF Gateway!revokeApiKey, Gateway!createApiKey, Gateway!KeyExpires, Gateway!PlanChanges,
         Gateway!quota
<1>2. keys' \in [Keys -> Gateway!Key] /\ KeysOwned' /\ plan' \in [Users -> Gateway!Plans]
  <2>1. CASE \E u \in Users, k \in Keys : Gateway!revokeApiKey(u, k)
    BY <2>1 DEF GatewayInv, Gateway!TypeOK, Gateway!Key, KeysOwned, Gateway!revokeApiKey
  <2>2. CASE \E u \in Users, k \in Keys, x \in BOOLEAN : Gateway!createApiKey(u, k, x)
    BY <2>2 DEF GatewayInv, Gateway!TypeOK, Gateway!Key, KeysOwned, Gateway!createApiKey
  <2>3. CASE \E k \in Keys : Gateway!KeyExpires(k)
    BY <2>3 DEF GatewayInv, Gateway!TypeOK, Gateway!Key, KeysOwned, Gateway!KeyExpires
  <2>4. CASE \E u \in Users : Gateway!PlanChanges(u)
    BY <2>4 DEF GatewayInv, Gateway!TypeOK, Gateway!Plans, KeysOwned, Gateway!PlanChanges
  <2> QED
    BY <2>1, <2>2, <2>3, <2>4
<1>3. Gateway!TypeOK'
  BY <1>1, <1>2 DEF GatewayInv, Gateway!TypeOK
<1>4. HandlersSound'
  BY <1>1 DEF GatewayInv, HandlersSound
<1>5. ASSUME NEW u \in Users PROVE (Accounted(u) /\ WithinPeak(u) /\ Bounded(u))'
  BY <1>1 DEF GatewayInv, Accounted, WithinPeak, Bounded, Count
<1> QED
  BY <1>2, <1>3, <1>4, <1>5 DEF GatewayInv

\* What a handler's step does to the counts.
LEMMA HandlerMoves ==
  ASSUME GatewayInv, NEW c \in Calls, NEW r, calls' = [calls EXCEPT ![c] = r]
  PROVE  /\ \A S : Count(calls', S) = Count(calls, S) + Bit(r, S) - Bit(calls[c], S)
         /\ \A S : Count(calls, S) \in Nat /\ Count(calls', S) \in Nat
<1>1. calls'[c] = r /\ \A d \in Calls \ {c} : calls'[d] = calls[d]
  BY DEF GatewayInv, Gateway!TypeOK
<1>2. PICK cs, ds : cs = calls /\ ds = calls'
  OBVIOUS
<1>3. ASSUME NEW S PROVE Count(calls', S) = Count(calls, S) + Bit(r, S) - Bit(calls[c], S)
  <2>1. \A d \in Calls \ {c} : ds[d] = cs[d]
    BY <1>1, <1>2
  <2>2. Count(ds, S) = Count(cs, S) + Bit(ds[c], S) - Bit(cs[c], S)
    BY ONLY <2>1, CountStep
  <2> QED
    BY <1>1, <1>2, <2>2
<1> QED
  BY <1>3, CountIsNat

\* A step after which a handler counts as before changes no balance.
LEMMA QuietMove ==
  ASSUME GatewayInv, NEW c \in Calls, NEW r, calls' = [calls EXCEPT ![c] = r],
         UNCHANGED <<rows, pending, sent, lost, peak>>,
         best' \in [Users -> Gateway!Plans],
         \A u \in Users : PlanLimit[best[u]] <= PlanLimit[best'[u]],
         \A u \in Users : r \in FlyingBy(u) <=> calls[c] \in FlyingBy(u),
         \A u \in Users, L \in Nat : r \in WaitingBy(u, L) <=> calls[c] \in WaitingBy(u, L)
  PROVE  \A u \in Users : (Accounted(u) /\ WithinPeak(u) /\ Bounded(u))'
<1> SUFFICES ASSUME NEW u \in Users PROVE (Accounted(u) /\ WithinPeak(u) /\ Bounded(u))'
  OBVIOUS
<1>0. \A S : (r \in S <=> calls[c] \in S) => Count(calls', S) = Count(calls, S)
  <2> SUFFICES ASSUME NEW S, r \in S <=> calls[c] \in S
               PROVE  Count(calls', S) = Count(calls, S)
    OBVIOUS
  <2>1. Count(calls', S) = Count(calls, S) + Bit(r, S) - Bit(calls[c], S) /\ Count(calls, S) \in Nat
    BY HandlerMoves
  <2>2. Bit(r, S) = Bit(calls[c], S) /\ Bit(r, S) \in {0, 1}
    BY DEF Bit
  <2> QED
    BY <2>1, <2>2
<1>1. Count(calls', FlyingBy(u)) = Count(calls, FlyingBy(u))
  BY <1>0
<1>2. ASSUME NEW p \in Gateway!Plans
      PROVE  Count(calls', WaitingBy(u, PlanLimit[p])) = Count(calls, WaitingBy(u, PlanLimit[p]))
  <2>1. PlanLimit[p] \in Nat
    BY Limits
  <2> QED
    BY <1>0, <2>1
<1>3. /\ PlanLimit[best[u]] \in Nat /\ PlanLimit[best'[u]] \in Nat
      /\ PlanLimit[best[u]] <= PlanLimit[best'[u]]
      /\ sent[u] \in Nat /\ peak[u] \in Nat
  BY Limits
<1>4. Accounted(u)'
  BY <1>1 DEF GatewayInv, Accounted
<1>5. WithinPeak(u)'
  <2> SUFFICES ASSUME NEW p \in Gateway!Plans, PlanLimit[best'[u]] <= PlanLimit[p],
                      Count(calls', WaitingBy(u, PlanLimit[p])) > 0
               PROVE  sent'[u] + Count(calls', WaitingBy(u, PlanLimit[p])) < PlanLimit[p] + peak'[u]
    BY DEF WithinPeak
  <2>1. PlanLimit[p] \in Nat /\ PlanLimit[best[u]] <= PlanLimit[p]
    BY <1>3, Limits
  <2>2. sent[u] + Count(calls, WaitingBy(u, PlanLimit[p])) < PlanLimit[p] + peak[u]
    BY <1>2, <2>1 DEF GatewayInv, WithinPeak
  <2> QED
    BY <1>2, <2>2
<1>6. Bounded(u)'
  <2>1. Bounded(u) /\ sent'[u] = sent[u] /\ peak'[u] = peak[u]
    BY DEF GatewayInv
  <2> QED
    BY <1>3, <2>1 DEF Bounded
<1> QED
  BY <1>4, <1>5, <1>6

LEMMA QuietStepsKeep ==
  ASSUME GatewayInv, NEW c \in Calls,
         Gateway!validateApiKey(c) \/ Gateway!Touch(c) \/ Gateway!getUserPlan(c)
  PROVE  GatewayInv'
<1> USE PlatformAssumption
<1>0. /\ UNCHANGED <<keys, rows, pending, sent, lost, peak, plan>>
      /\ calls[c] \in Gateway!Call /\ calls \in [Calls -> Gateway!Call]
  BY AtWork DEF Gateway!validateApiKey, Gateway!Touch, Gateway!getUserPlan, GatewayInv, Gateway!TypeOK
\* The new state of the handler, and the best plan.
<1> DEFINE Quiet(r) ==
      /\ r \in Gateway!Call /\ calls' = [calls EXCEPT ![c] = r]
      /\ r.at = "idle" => r = Gateway!Idle
      /\ r.at # "idle" => r.user \in Users
      /\ r.at = "touch" => r.plan = None /\ r.used = None
      /\ r.at # "engine"
      /\ r.plan # None => PlanLimit[r.plan] <= PlanLimit[best'[r.user]]
      /\ \A u \in Users : r \in FlyingBy(u) <=> calls[c] \in FlyingBy(u)
      /\ \A u \in Users, L \in Nat : r \in WaitingBy(u, L) <=> calls[c] \in WaitingBy(u, L)
<1>1. /\ \E r : Quiet(r)
      /\ best' \in [Users -> Gateway!Plans]
      /\ \A u \in Users : PlanLimit[best[u]] <= PlanLimit[best'[u]]
  <2>1. CASE Gateway!validateApiKey(c)
    <3> PICK k \in Keys : /\ calls[c] = Gateway!Idle /\ keys[k].state = "live"
                          /\ calls' = [calls EXCEPT ![c] = [Gateway!Idle EXCEPT !.at = "touch",
                                                              !.user = keys[k].owner]]
                          /\ UNCHANGED best
      BY <2>1 DEF Gateway!validateApiKey
    <3> PICK o : o = keys[k].owner
      OBVIOUS
    <3> PICK r : r = [Gateway!Idle EXCEPT !.at = "touch", !.user = o]
      OBVIOUS
    <3>1. o \in Users
      BY DEF GatewayInv, KeysOwned
    <3>2. /\ r \in Gateway!Call /\ r.at = "touch" /\ r.user \in Users /\ r.plan = None /\ r.used = None
          /\ calls[c].at = "idle" /\ calls[c].used = None
      <4>1. r = [at |-> "touch", user |-> o, plan |-> None, used |-> None]
        BY DEF Gateway!Idle
      <4>2. calls[c] = [at |-> "idle", user |-> None, plan |-> None, used |-> None]
        BY DEF Gateway!Idle
      <4>3. r \in Gateway!Call
        BY ONLY <3>1, <4>1 DEF Gateway!Call
      <4> QED
        BY <3>1, <4>1, <4>2, <4>3
    <3>3. \A u \in Users : r \in FlyingBy(u) <=> calls[c] \in FlyingBy(u)
      BY <3>2 DEF FlyingBy
    <3>4. \A u \in Users, L \in Nat : r \in WaitingBy(u, L) <=> calls[c] \in WaitingBy(u, L)
      BY <3>2 DEF WaitingBy
    <3>5. Quiet(r)
      BY <3>2, <3>3, <3>4
    <3>6. \A u \in Users : PlanLimit[best[u]] \in Nat
      BY Limits
    <3>7. best' = best /\ best \in [Users -> Gateway!Plans]
      BY DEF GatewayInv, Gateway!TypeOK
    <3>8. \A u \in Users : PlanLimit[best[u]] <= PlanLimit[best'[u]]
      BY <3>6, <3>7
    <3>9. \E x : Quiet(x)
      BY <3>5
    <3> QED
      BY ONLY <3>8, <3>9, <3>6, <3>7
  <2>2. CASE Gateway!Touch(c)
    <3>1. PICK r : /\ calls' = [calls EXCEPT ![c] = r]
                   /\ r = [calls[c] EXCEPT !.at = "check"] \/ r = Gateway!Idle
      BY <1>0, <2>2 DEF Gateway!Touch
    <3>2. calls[c].at = "touch" /\ calls[c].plan = None /\ calls[c].used = None /\ calls[c].user \in Users
      BY <2>2, AtWork DEF Gateway!Touch
    <3>3. Quiet(r)
      BY <1>0, <3>1, <3>2 DEF Gateway!Call, Gateway!Idle, FlyingBy, WaitingBy
    <3>4. \A u \in Users : PlanLimit[best[u]] \in Nat
      BY Limits
    <3>5. best' = best /\ best \in [Users -> Gateway!Plans]
      BY <2>2 DEF GatewayInv, Gateway!TypeOK, Gateway!Touch
    <3>8. \A u \in Users : PlanLimit[best[u]] <= PlanLimit[best'[u]]
      BY <3>4, <3>5
    <3>9. \E x : Quiet(x)
      BY <3>3
    <3> QED
      BY ONLY <3>8, <3>9, <3>4, <3>5
  <2>3. CASE Gateway!getUserPlan(c)
    <3>1. PICK u : u = calls[c].user
      OBVIOUS
    <3>2. PICK r : r = [calls[c] EXCEPT !.plan = plan[u]]
      OBVIOUS
    <3>3. /\ calls[c].at = "check" /\ u \in Users /\ calls' = [calls EXCEPT ![c] = r]
          /\ best' = [best EXCEPT ![u] = Gateway!Better(@, plan[u])]
          /\ plan[u] \in Gateway!Plans
      BY <1>0, <2>3, <3>1, <3>2, AtWork, Limits DEF Gateway!getUserPlan
    <3>4. /\ best' \in [Users -> Gateway!Plans]
          /\ \A v \in Users : PlanLimit[best[v]] <= PlanLimit[best'[v]]
          /\ PlanLimit[plan[u]] <= PlanLimit[best'[u]]
      <4>1. PICK b : b = Gateway!Better(best[u], plan[u])
        OBVIOUS
      <4>2. best \in [Users -> Gateway!Plans] /\ \A p \in Gateway!Plans : PlanLimit[p] \in Nat
        <5>1. best \in [Users -> Gateway!Plans]
          BY DEF GatewayInv, Gateway!TypeOK
        <5> QED
          BY ONLY <5>1, GatewayInv, Limits
      <4>3. best[u] \in Gateway!Plans
        BY <3>3, <4>2
      <4>4. /\ b \in Gateway!Plans /\ PlanLimit[best[u]] <= PlanLimit[b]
            /\ PlanLimit[plan[u]] <= PlanLimit[b]
        BY <3>3, <4>1, <4>2, <4>3 DEF Gateway!Better, Gateway!limitForPlan
      <4>5. best' = [best EXCEPT ![u] = b]
        BY <3>3, <4>1
      <4> HIDE DEF GatewayInv
      <4> QED
        BY <3>3, <4>2, <4>4, <4>5
    <3>5. /\ r \in Gateway!Call /\ r.at = "check" /\ r.user = u /\ r.plan = plan[u]
          /\ r.used = calls[c].used
      BY <1>0, <3>1, <3>2, <3>3 DEF Gateway!Call
    <3>6. \A v \in Users : r \in FlyingBy(v) <=> calls[c] \in FlyingBy(v)
      BY <1>0, <3>1, <3>3, <3>5 DEF FlyingBy
    <3>7. \A v \in Users, L \in Nat : r \in WaitingBy(v, L) <=> calls[c] \in WaitingBy(v, L)
      BY <1>0, <3>1, <3>3, <3>5 DEF WaitingBy
    <3>8. Quiet(r)
      BY <3>3, <3>4, <3>5, <3>6, <3>7
    <3> QED
      BY <3>4, <3>8
  <2> QED
    BY <2>1, <2>2, <2>3
<1>2. PICK r : Quiet(r)
  BY <1>1
<1>3. Gateway!TypeOK'
  BY <1>0, <1>1, <1>2 DEF GatewayInv, Gateway!TypeOK
<1>4. KeysOwned'
  BY <1>0 DEF GatewayInv, KeysOwned
<1>5. HandlersSound'
  <2> SUFFICES ASSUME NEW d \in Calls
               PROVE  (/\ calls[d].at = "idle" => calls[d] = Gateway!Idle
                       /\ calls[d].at # "idle" => calls[d].user \in Users
                       /\ calls[d].at = "touch" => calls[d].plan = None /\ calls[d].used = None
                       /\ calls[d].at = "engine" => calls[d].plan # None /\ calls[d].used # None
                       /\ calls[d].plan # None =>
                            PlanLimit[calls[d].plan] <= PlanLimit[best[calls[d].user]])'
    BY DEF HandlersSound
  <2>1. CASE d = c
    BY <1>0, <1>2, <2>1
  <2>2. CASE d # c
    <3>1. calls'[d] = calls[d]
      BY <1>0, <1>2, <2>2
    <3>2. calls[d].plan # None => /\ calls[d].user \in Users /\ calls[d].plan \in Gateway!Plans
                                  /\ PlanLimit[calls[d].plan] <= PlanLimit[best[calls[d].user]]
      BY AtWork DEF Gateway!Call, Gateway!Idle
    <3>3. calls[d].plan # None => PlanLimit[calls[d].plan] <= PlanLimit[best'[calls[d].user]]
      BY <1>1, <3>2, Limits
    <3> QED
      BY <3>1, <3>3, AtWork
  <2> QED
    BY <2>1, <2>2
<1>6. \A u \in Users : (Accounted(u) /\ WithinPeak(u) /\ Bounded(u))'
  BY <1>0, <1>1, <1>2, QuietMove
<1> QED
  BY <1>3, <1>4, <1>5, <1>6 DEF GatewayInv

\* The handlers' records stay sound when one of them changes and `best` does not.
LEMMA HandlersStaySound ==
  ASSUME GatewayInv, NEW c \in Calls, NEW r \in Gateway!Call, calls' = [calls EXCEPT ![c] = r],
         UNCHANGED best,
         r.at = "idle" => r = Gateway!Idle,
         r.at # "idle" => r.user \in Users,
         r.at # "touch",
         r.at = "engine" => r.plan # None /\ r.used # None,
         r.plan # None => PlanLimit[r.plan] <= PlanLimit[best[r.user]]
  PROVE  calls' \in [Calls -> Gateway!Call] /\ HandlersSound'
<1>1. calls'[c] = r /\ \A d \in Calls \ {c} : calls'[d] = calls[d]
  BY DEF GatewayInv, Gateway!TypeOK
<1>2. calls' \in [Calls -> Gateway!Call]
  BY DEF GatewayInv, Gateway!TypeOK
<1>3. HandlersSound'
  BY <1>1 DEF GatewayInv, HandlersSound
<1> QED
  BY <1>2, <1>3

\* Which counts a record adds to.
LEMMA Bits ==
  ASSUME NEW q \in Gateway!Call, NEW u \in Users, NEW L
  PROVE  /\ q.user # u => Bit(q, FlyingBy(u)) = 0 /\ Bit(q, WaitingBy(u, L)) = 0 /\ Bit(q, CheckedBy(u)) = 0
         /\ q.used = None => Bit(q, WaitingBy(u, L)) = 0 /\ Bit(q, CheckedBy(u)) = 0
         /\ q.at # "engine" => Bit(q, FlyingBy(u)) = 0
         /\ q.at # "check" => Bit(q, WaitingBy(u, L)) = 0
         /\ q.user = u /\ q.at = "engine" => Bit(q, FlyingBy(u)) = 1
         /\ q.user = u /\ q.used # None => Bit(q, CheckedBy(u)) = 1
         /\ q.user = u /\ q.at = "check" /\ q.used # None =>
              Bit(q, WaitingBy(u, L)) = IF q.used < L THEN 1 ELSE 0
BY DEF Bit, FlyingBy, WaitingBy, CheckedBy

\* The rows of a user are never more than its calls of the month.
LEMMA RowsBounded ==
  ASSUME GatewayInv, NEW u \in Users
  PROVE  rows[u] \in 0..MaxCalls
<1>1. Count(calls, FlyingBy(u)) \in Nat
  BY CountIsNat
<1>2. sent[u] = rows[u] + pending[u] + lost[u] + Count(calls, FlyingBy(u))
  BY DEF GatewayInv, Accounted
<1> QED
  BY <1>1, <1>2, Limits, PlatformAssumption

\* The calls of u that were checked and have no row, counted as above.
LEMMA UnrecordedCount ==
  ASSUME GatewayInv, NEW u \in Users
  PROVE  Gateway!Unrecorded(u) = Count(calls, CheckedBy(u)) + pending[u] + lost[u]
<1>1. {c \in Calls : calls[c].user = u /\ calls[c].used # None} = {c \in Calls : calls[c] \in CheckedBy(u)}
  BY AtWork DEF CheckedBy
<1>2. Gateway!Unrecorded(u) =
        Cardinality({c \in Calls : calls[c].user = u /\ calls[c].used # None}) + pending[u] + lost[u]
  BY SameCardinality DEF Gateway!Unrecorded
<1> QED
  BY <1>1, <1>2 DEF Count

\* checkQuota's second query: the handler joins those that wait, and the peak
\* covers it together with every call that has no row.
LEMMA UsageStepKeeps ==
  ASSUME GatewayInv, NEW c \in Calls, Gateway!getMonthlyUsage(c)
  PROVE  GatewayInv'
<1>1. PICK u : u = calls[c].user
  OBVIOUS
<1>2. PICK r : r = [calls[c] EXCEPT !.used = rows[u]]
  OBVIOUS
<1>3. /\ calls[c].at = "check" /\ calls[c].used = None /\ calls' = [calls EXCEPT ![c] = r]
      /\ peak' = [peak EXCEPT ![u] = Gateway!Max({@, Gateway!Unrecorded(u) + 1})]
      /\ UNCHANGED <<keys, rows, pending, sent, lost, best, plan>>
  BY <1>1, <1>2, AtWork DEF Gateway!getMonthlyUsage, GatewayInv, Gateway!TypeOK
<1>4. u \in Users /\ calls[c] \in Gateway!Call /\ rows[u] \in 0..MaxCalls
  BY <1>1, <1>3, AtWork, RowsBounded
<1>5. /\ r \in Gateway!Call /\ r.at = "check" /\ r.user = u /\ r.used = rows[u] /\ r.used # None
      /\ r.plan = calls[c].plan
  BY <1>1, <1>2, <1>3, <1>4, PlatformAssumption DEF Gateway!Call
<1>6. calls' \in [Calls -> Gateway!Call] /\ HandlersSound'
  BY <1>1, <1>3, <1>4, <1>5, AtWork, HandlersStaySound
<1>7. PICK n \in Nat : n = Count(calls, CheckedBy(u)) + pending[u] + lost[u]
  BY <1>4, CountIsNat, Limits
<1>8. /\ peak' \in [Users -> Nat]
      /\ peak'[u] >= peak[u] /\ peak'[u] >= n + 1
      /\ \A v \in Users \ {u} : peak'[v] = peak[v]
  <2>1. peak' = [peak EXCEPT ![u] = Gateway!Max({peak[u], n + 1})]
    BY <1>3, <1>4, <1>7, UnrecordedCount
  <2>2. peak \in [Users -> Nat] /\ peak[u] \in Nat
    BY <1>4 DEF GatewayInv, Gateway!TypeOK
  <2>3. Gateway!Max({peak[u], n + 1}) = IF peak[u] >= n + 1 THEN peak[u] ELSE n + 1
    BY <2>2, MaxPair
  <2> QED
    BY <1>4, <2>1, <2>2, <2>3
<1>9. Gateway!TypeOK' /\ KeysOwned'
  BY <1>3, <1>6, <1>8 DEF GatewayInv, Gateway!TypeOK, KeysOwned
<1>10. ASSUME NEW v \in Users
       PROVE  /\ Count(calls', FlyingBy(v)) = Count(calls, FlyingBy(v))
              /\ \A L \in Nat :
                   Count(calls', WaitingBy(v, L)) =
                     IF v = u /\ rows[u] < L THEN Count(calls, WaitingBy(v, L)) + 1
                     ELSE Count(calls, WaitingBy(v, L))
  <2>1. ASSUME NEW L \in Nat
        PROVE  /\ Bit(calls[c], FlyingBy(v)) = 0 /\ Bit(calls[c], WaitingBy(v, L)) = 0
               /\ Bit(r, FlyingBy(v)) = 0
               /\ Bit(r, WaitingBy(v, L)) = IF v = u /\ rows[u] < L THEN 1 ELSE 0
    BY <1>3, <1>4, <1>5, Bits
  <2>2. \A S : Count(calls', S) = Count(calls, S) + Bit(r, S) - Bit(calls[c], S) /\ Count(calls, S) \in Nat
    BY <1>3, HandlerMoves
  <2>3. 0 \in Nat
    OBVIOUS
  <2>4. Count(calls', FlyingBy(v)) = Count(calls, FlyingBy(v))
    BY <2>1, <2>2, <2>3
  <2> QED
    BY <2>1, <2>2, <2>4
<1>11. ASSUME NEW v \in Users PROVE Accounted(v)' /\ Bounded(v)'
  <2>1. Accounted(v) /\ Bounded(v)
    BY DEF GatewayInv
  <2>2. peak'[v] >= peak[v] /\ peak[v] \in Nat /\ peak'[v] \in Nat
    BY <1>8, Limits
  <2>3. PlanLimit[best[v]] \in Nat /\ sent[v] \in Nat
    BY Limits
  <2>4. Accounted(v)'
    BY <1>3, <1>10, <2>1 DEF Accounted
  <2>5. sent' = sent /\ best' = best
    BY <1>3
  <2> QED
    BY <2>1, <2>2, <2>3, <2>4, <2>5 DEF Bounded
<1>12. ASSUME NEW v \in Users PROVE WithinPeak(v)'
  <2> SUFFICES ASSUME NEW p \in Gateway!Plans, NEW L \in Nat, L = PlanLimit[p],
                      PlanLimit[best[v]] <= L, Count(calls', WaitingBy(v, L)) > 0
               PROVE  sent[v] + Count(calls', WaitingBy(v, L)) < L + peak'[v]
    BY <1>3, Limits DEF WithinPeak
  <2>1. Count(calls, WaitingBy(v, L)) > 0 => sent[v] + Count(calls, WaitingBy(v, L)) < L + peak[v]
    BY DEF GatewayInv, WithinPeak
  <2>2. /\ Count(calls, WaitingBy(v, L)) \in Nat /\ Count(calls, FlyingBy(v)) \in Nat
        /\ sent[v] \in Nat /\ peak[v] \in Nat /\ rows[v] \in Nat /\ pending[v] \in Nat /\ lost[v] \in Nat
        /\ peak'[v] \in Nat /\ peak'[v] >= peak[v]
    BY <1>8, CountIsNat, Limits
  <2>3. CASE v = u /\ rows[u] < L
    <3>1. Count(calls, FlyingBy(u)) + Count(calls, WaitingBy(u, L)) <= Count(calls, CheckedBy(u))
      BY CheckedCount, AtWork
    <3>2. sent[u] = rows[u] + pending[u] + lost[u] + Count(calls, FlyingBy(u))
      BY <1>4 DEF GatewayInv, Accounted
    <3>3. Count(calls, CheckedBy(u)) \in Nat
      BY CountIsNat
    <3>4. Count(calls', WaitingBy(v, L)) = Count(calls, WaitingBy(v, L)) + 1
      BY <1>10, <2>3
    <3> QED
      BY <1>7, <1>8, <2>2, <2>3, <3>1, <3>2, <3>3, <3>4
  <2>4. CASE ~ (v = u /\ rows[u] < L)
    <3>1. Count(calls', WaitingBy(v, L)) = Count(calls, WaitingBy(v, L))
      BY <1>10, <2>4
    <3> QED
      BY <2>1, <2>2, <3>1
  <2> QED
    BY <2>3, <2>4
<1> QED
  BY <1>6, <1>9, <1>11, <1>12 DEF GatewayInv

\* checkQuota's answer: a call that passes is sent and waits no more, so that
\* what was sent stays within the peak; a refused one is forgotten.
LEMMA ForwardKeeps ==
  ASSUME GatewayInv, NEW c \in Calls, Gateway!Forward(c)
  PROVE  GatewayInv'
<1>1. PICK u : u = calls[c].user
  OBVIOUS
<1>2. PICK limit : limit = PlanLimit[calls[c].plan]
  OBVIOUS
<1>3. /\ calls[c].at = "check" /\ calls[c].plan # None /\ calls[c].used # None
      /\ UNCHANGED <<keys, rows, pending, lost, peak, best, plan>>
  BY DEF Gateway!Forward
<1>4. /\ u \in Users /\ calls[c] \in Gateway!Call /\ calls[c].used \in Nat
      /\ limit \in Nat /\ limit <= PlanLimit[best[u]] /\ calls \in [Calls -> Gateway!Call]
  <2>1. u \in Users /\ calls[c] \in Gateway!Call /\ limit <= PlanLimit[best[u]]
    BY <1>1, <1>2, <1>3, AtWork
  <2>2. calls[c].used \in 0..MaxCalls /\ calls[c].plan \in Gateway!Plans
    BY <1>3, <2>1 DEF Gateway!Call
  <2>3. limit \in Nat
    BY <1>2, <2>2, Limits
  <2>4. 0..MaxCalls \subseteq Nat
    BY PlatformAssumption
  <2> QED
    BY <2>1, <2>2, <2>3, <2>4 DEF GatewayInv, Gateway!TypeOK
<1>5. \A v \in Users : \A L : /\ Count(calls, FlyingBy(v)) \in Nat /\ Count(calls, WaitingBy(v, L)) \in Nat
  BY CountIsNat
<1>6. CASE calls[c].used < limit
  <2>1. PICK r : r = [calls[c] EXCEPT !.at = "engine"]
    OBVIOUS
  <2>2. /\ sent[u] < MaxCalls /\ calls' = [calls EXCEPT ![c] = r]
        /\ sent' = [sent EXCEPT ![u] = @ + 1]
    BY <1>1, <1>2, <1>3, <1>4, <1>6, <2>1
       DEF Gateway!Forward, Gateway!checkQuota, Gateway!limitForPlan
  <2>3. /\ r \in Gateway!Call /\ r.at = "engine" /\ r.user = u /\ r.used = calls[c].used
        /\ r.plan = calls[c].plan
    BY <1>1, <1>4, <2>1 DEF Gateway!Call
  <2>4. calls' \in [Calls -> Gateway!Call] /\ HandlersSound'
    BY <1>1, <1>3, <1>4, <2>2, <2>3, AtWork, HandlersStaySound
  <2>5. /\ sent' \in [Users -> 0..MaxCalls] /\ sent'[u] = sent[u] + 1
        /\ \A v \in Users \ {u} : sent'[v] = sent[v]
    BY <1>4, <2>2, PlatformAssumption, SMTT(20) DEF GatewayInv, Gateway!TypeOK
  <2>6. Gateway!TypeOK' /\ KeysOwned'
    BY <1>3, <2>4, <2>5 DEF GatewayInv, Gateway!TypeOK, KeysOwned
  <2>7. \A S : Count(calls', S) = Count(calls, S) + Bit(r, S) - Bit(calls[c], S)
    BY <2>2, HandlerMoves
  <2>8. ASSUME NEW v \in Users, NEW L \in Nat
        PROVE  /\ Count(calls', FlyingBy(v)) =
                    IF v = u THEN Count(calls, FlyingBy(v)) + 1 ELSE Count(calls, FlyingBy(v))
               /\ Count(calls', WaitingBy(v, L)) =
                    IF v = u /\ calls[c].used < L THEN Count(calls, WaitingBy(v, L)) - 1
                    ELSE Count(calls, WaitingBy(v, L))
    <3>1. /\ Bit(calls[c], FlyingBy(v)) = 0 /\ Bit(r, WaitingBy(v, L)) = 0
          /\ Bit(r, FlyingBy(v)) = IF v = u THEN 1 ELSE 0
          /\ Bit(calls[c], WaitingBy(v, L)) = IF v = u /\ calls[c].used < L THEN 1 ELSE 0
      BY <1>1, <1>3, <1>4, <2>3, Bits
    <3> QED
      BY <1>5, <2>7, <3>1
  <2>9. ASSUME NEW v \in Users PROVE Accounted(v)'
    <3>1. sent[v] = rows[v] + pending[v] + lost[v] + Count(calls, FlyingBy(v))
      BY DEF GatewayInv, Accounted
    <3>2. /\ rows[v] \in Nat /\ pending[v] \in Nat /\ lost[v] \in Nat
          /\ Count(calls, FlyingBy(v)) \in Nat
      BY <1>5, Limits
    <3>3. Count(calls', FlyingBy(v)) =
            IF v = u THEN Count(calls, FlyingBy(v)) + 1 ELSE Count(calls, FlyingBy(v))
      BY <1>4, <2>8
    <3>4. sent'[v] = rows[v] + pending[v] + lost[v] + Count(calls', FlyingBy(v))
      BY <2>5, <3>1, <3>2, <3>3
    <3> QED
      BY <1>3, <3>4 DEF Accounted
  \* The handler that is sent was among the waiting, for any limit no smaller
  \* than the best.
  <2>10. ASSUME NEW L \in Nat, PlanLimit[best[u]] <= L, \E p \in Gateway!Plans : L = PlanLimit[p]
         PROVE  /\ Count(calls', WaitingBy(u, L)) = Count(calls, WaitingBy(u, L)) - 1
                /\ Count(calls', WaitingBy(u, L)) \in Nat
                /\ sent[u] + Count(calls, WaitingBy(u, L)) < L + peak[u]
    <3>1. calls[c].used < L
      BY <1>4, <1>6, <2>10, Limits
    <3>2. Count(calls', WaitingBy(u, L)) = Count(calls, WaitingBy(u, L)) - 1
      BY <1>4, <2>8, <3>1
    <3>3. Count(calls', WaitingBy(u, L)) \in Nat
      BY CountIsNat
    <3>4. Count(calls, WaitingBy(u, L)) > 0
      BY <1>5, <1>4, <3>2, <3>3
    <3> QED
      BY <1>4, <2>10, <3>2, <3>3, <3>4 DEF GatewayInv, WithinPeak
  <2>11. ASSUME NEW v \in Users PROVE WithinPeak(v)'
    <3> SUFFICES ASSUME NEW p \in Gateway!Plans, NEW L \in Nat, L = PlanLimit[p],
                        PlanLimit[best[v]] <= L, Count(calls', WaitingBy(v, L)) > 0
                 PROVE  sent'[v] + Count(calls', WaitingBy(v, L)) < L + peak[v]
      BY <1>3, Limits DEF WithinPeak
    <3>1. CASE v = u
      <4>1. sent[u] \in Nat /\ peak[u] \in Nat
        BY <1>4, Limits
      <4> QED
        BY <1>5, <2>5, <2>10, <3>1, <4>1
    <3>2. CASE v # u
      BY <2>5, <2>8, <3>2 DEF GatewayInv, WithinPeak
    <3> QED
      BY <3>1, <3>2
  <2>12. ASSUME NEW v \in Users PROVE Bounded(v)'
    <3>1. CASE v = u
      <4>1. PICK L \in Nat : L = PlanLimit[best[u]] /\ L <= L /\ \E p \in Gateway!Plans : L = PlanLimit[p]
        BY <1>4, Limits
      <4>2. /\ Count(calls', WaitingBy(u, L)) \in Nat /\ sent[u] \in Nat /\ peak[u] \in Nat
            /\ Count(calls, WaitingBy(u, L)) \in Nat
        BY <1>4, <1>5, CountIsNat, Limits
      <4>3. /\ Count(calls', WaitingBy(u, L)) = Count(calls, WaitingBy(u, L)) - 1
            /\ sent[u] + Count(calls, WaitingBy(u, L)) < L + peak[u]
        BY <2>10, <4>1
      <4>4. sent[u] + 1 < L + peak[u]
        BY <4>2, <4>3
      <4> QED
        BY <1>3, <2>5, <3>1, <4>1, <4>4 DEF Bounded
    <3>2. CASE v # u
      BY <1>3, <2>5, <3>2 DEF GatewayInv, Bounded
    <3> QED
      BY <3>1, <3>2
  <2> QED
    BY <2>4, <2>6, <2>9, <2>11, <2>12 DEF GatewayInv
<1>7. CASE ~ (calls[c].used < limit)
  <2>1. PICK r : r = Gateway!Idle
    OBVIOUS
  <2>2. calls' = [calls EXCEPT ![c] = r] /\ UNCHANGED sent
    BY <1>2, <1>3, <1>7, <2>1 DEF Gateway!Forward, Gateway!checkQuota, Gateway!limitForPlan
  <2>3. r \in Gateway!Call /\ r.at = "idle" /\ r.used = None /\ r.plan = None
    BY <2>1 DEF Gateway!Call, Gateway!Idle
  <2>4. calls' \in [Calls -> Gateway!Call] /\ HandlersSound'
    BY <1>3, <2>1, <2>2, <2>3, HandlersStaySound
  <2>5. Gateway!TypeOK' /\ KeysOwned'
    BY <1>3, <2>2, <2>4 DEF GatewayInv, Gateway!TypeOK, KeysOwned
  <2>6. ASSUME NEW v \in Users, NEW L \in Nat
        PROVE  /\ Count(calls', FlyingBy(v)) = Count(calls, FlyingBy(v))
               /\ Count(calls', WaitingBy(v, L)) \in Nat
               /\ Count(calls', WaitingBy(v, L)) <= Count(calls, WaitingBy(v, L))
    <3>1. /\ Bit(calls[c], FlyingBy(v)) = 0 /\ Bit(r, FlyingBy(v)) = 0
          /\ Bit(r, WaitingBy(v, L)) = 0 /\ Bit(calls[c], WaitingBy(v, L)) \in {0, 1}
      BY <1>3, <1>4, <2>3, Bits DEF Bit
    <3>2. \A S : Count(calls', S) = Count(calls, S) + Bit(r, S) - Bit(calls[c], S)
      BY <2>2, HandlerMoves
    <3>3. Count(calls', WaitingBy(v, L)) \in Nat
      BY CountIsNat
    <3> QED
      BY <1>5, <3>1, <3>2, <3>3
  <2>7. ASSUME NEW v \in Users PROVE Accounted(v)' /\ Bounded(v)'
    <3>1. Count(calls', FlyingBy(v)) = Count(calls, FlyingBy(v))
      BY <1>4, <2>6
    <3> QED
      BY <1>3, <2>2, <3>1 DEF GatewayInv, Accounted, Bounded
  <2>8. ASSUME NEW v \in Users PROVE WithinPeak(v)'
    <3> SUFFICES ASSUME NEW p \in Gateway!Plans, NEW L \in Nat, L = PlanLimit[p],
                        PlanLimit[best[v]] <= L, Count(calls', WaitingBy(v, L)) > 0
                 PROVE  sent[v] + Count(calls', WaitingBy(v, L)) < L + peak[v]
      BY <1>3, <2>2, Limits DEF WithinPeak
    <3>1. /\ Count(calls', WaitingBy(v, L)) \in Nat /\ Count(calls, WaitingBy(v, L)) \in Nat
          /\ Count(calls', WaitingBy(v, L)) <= Count(calls, WaitingBy(v, L))
          /\ sent[v] \in Nat /\ peak[v] \in Nat
      BY <1>5, <2>6, Limits
    <3>2. sent[v] + Count(calls, WaitingBy(v, L)) < L + peak[v]
      BY <3>1 DEF GatewayInv, WithinPeak
    <3> QED
      BY <3>1, <3>2
  <2> QED
    BY <2>4, <2>5, <2>7, <2>8 DEF GatewayInv
<1> QED
  BY <1>6, <1>7

\* The engine's answer: the call is in the queue of rows to write, or lost.
LEMMA AnswerKeeps ==
  ASSUME GatewayInv, NEW c \in Calls, Gateway!EngineAnswers(c)
  PROVE  GatewayInv'
<1>1. PICK u : u = calls[c].user
  OBVIOUS
<1>2. PICK r : r = Gateway!Idle
  OBVIOUS
<1>3. /\ calls[c].at = "engine" /\ calls' = [calls EXCEPT ![c] = r]
      /\ \/ pending' = [pending EXCEPT ![u] = @ + 1] /\ UNCHANGED lost
         \/ lost' = [lost EXCEPT ![u] = @ + 1] /\ UNCHANGED pending
      /\ UNCHANGED <<keys, rows, sent, peak, best, plan>>
  BY <1>1, <1>2 DEF Gateway!EngineAnswers
<1>4. /\ u \in Users /\ calls[c] \in Gateway!Call /\ calls[c].used # None
      /\ r \in Gateway!Call /\ r.at = "idle" /\ r.used = None /\ r.plan = None
  BY <1>1, <1>2, <1>3, AtWork DEF Gateway!Call, Gateway!Idle
<1>5. calls' \in [Calls -> Gateway!Call] /\ HandlersSound'
  BY <1>2, <1>3, <1>4, HandlersStaySound
<1>6. ASSUME NEW v \in Users, NEW L \in Nat
      PROVE  /\ Count(calls', FlyingBy(v)) =
                  IF v = u THEN Count(calls, FlyingBy(v)) - 1 ELSE Count(calls, FlyingBy(v))
             /\ Count(calls', WaitingBy(v, L)) = Count(calls, WaitingBy(v, L))
             /\ Count(calls, FlyingBy(v)) \in Nat /\ Count(calls', FlyingBy(v)) \in Nat
  <2>1. /\ Bit(r, FlyingBy(v)) = 0 /\ Bit(r, WaitingBy(v, L)) = 0 /\ Bit(calls[c], WaitingBy(v, L)) = 0
        /\ Bit(calls[c], FlyingBy(v)) = IF v = u THEN 1 ELSE 0
    BY <1>1, <1>3, <1>4, Bits
  <2>2. \A S : /\ Count(calls', S) = Count(calls, S) + Bit(r, S) - Bit(calls[c], S)
               /\ Count(calls, S) \in Nat /\ Count(calls', S) \in Nat
    BY <1>3, HandlerMoves
  <2> QED
    BY <2>1, <2>2
<1>7. ASSUME NEW v \in Users
      PROVE  /\ Accounted(v)'
             /\ pending'[v] \in Nat /\ lost'[v] \in 0..MaxCalls
  <2>1. sent[v] = rows[v] + pending[v] + lost[v] + Count(calls, FlyingBy(v))
    BY DEF GatewayInv, Accounted
  <2>2. /\ rows[v] \in Nat /\ pending[v] \in Nat /\ lost[v] \in Nat /\ sent[v] \in Nat
        /\ sent[v] <= MaxCalls /\ MaxCalls \in Nat
    BY Limits, PlatformAssumption
  <2>3. /\ Count(calls', FlyingBy(v)) =
             IF v = u THEN Count(calls, FlyingBy(v)) - 1 ELSE Count(calls, FlyingBy(v))
        /\ Count(calls, FlyingBy(v)) \in Nat /\ Count(calls', FlyingBy(v)) \in Nat
    BY <1>4, <1>6, 0 \in Nat
  <2>4. \/ /\ pending'[v] = IF v = u THEN pending[v] + 1 ELSE pending[v]
           /\ lost'[v] = lost[v]
        \/ /\ lost'[v] = IF v = u THEN lost[v] + 1 ELSE lost[v]
           /\ pending'[v] = pending[v]
    BY <1>3, <1>4 DEF GatewayInv, Gateway!TypeOK
  <2>5. /\ sent[v] = rows[v] + pending'[v] + lost'[v] + Count(calls', FlyingBy(v))
        /\ pending'[v] \in Nat /\ lost'[v] \in Nat
    BY <2>1, <2>2, <2>3, <2>4
  <2>6. lost'[v] <= MaxCalls
    BY <2>2, <2>3, <2>5
  <2> QED
    BY <1>3, <2>2, <2>5, <2>6 DEF Accounted
<1>8. pending' \in [Users \cup {None} -> Nat] /\ lost' \in [Users -> 0..MaxCalls]
  <2>1. /\ pending \in [Users \cup {None} -> Nat] /\ lost \in [Users -> 0..MaxCalls]
        /\ pending[u] + 1 \in Nat
    BY <1>4, Limits DEF GatewayInv, Gateway!TypeOK
  <2>2. lost'[u] \in 0..MaxCalls
    BY <1>4, <1>7
  <2> QED
    BY <1>3, <1>4, <2>1, <2>2
<1>9. Gateway!TypeOK' /\ KeysOwned'
  BY <1>3, <1>5, <1>8 DEF GatewayInv, Gateway!TypeOK, KeysOwned
<1>10. ASSUME NEW v \in Users PROVE WithinPeak(v)' /\ Bounded(v)'
  <2>1. Bounded(v)'
    BY <1>3 DEF GatewayInv, Bounded
  <2>2. ASSUME NEW p \in Gateway!Plans
        PROVE  Count(calls', WaitingBy(v, PlanLimit[p])) = Count(calls, WaitingBy(v, PlanLimit[p]))
    BY <1>6, Limits
  <2>3. WithinPeak(v)'
    BY <1>3, <2>2 DEF GatewayInv, WithinPeak
  <2> QED
    BY <2>1, <2>3
<1> QED
  BY <1>5, <1>7, <1>9, <1>10 DEF GatewayInv

\* Rows are queued, written and lost while no handler moves.
LEMMA LogKeeps ==
  ASSUME GatewayInv, NEW u \in Users \cup {None},
         UNCHANGED <<keys, calls, sent, peak, best, plan>>,
         pending' \in [Users \cup {None} -> Nat], rows' \in [Users \cup {None} -> Nat],
         lost' \in [Users -> Nat],
         \A v \in Users : rows'[v] + pending'[v] + lost'[v] = rows[v] + pending[v] + lost[v]
  PROVE  GatewayInv'
<1>1. ASSUME NEW v \in Users PROVE Accounted(v)' /\ lost'[v] \in 0..MaxCalls
  <2>1. sent[v] = rows[v] + pending[v] + lost[v] + Count(calls, FlyingBy(v))
    BY DEF GatewayInv, Accounted
  <2>2. /\ rows[v] \in Nat /\ pending[v] \in Nat /\ lost[v] \in Nat /\ Count(calls, FlyingBy(v)) \in Nat
        /\ rows'[v] \in Nat /\ pending'[v] \in Nat /\ lost'[v] \in Nat
        /\ sent[v] \in Nat /\ sent[v] <= MaxCalls /\ MaxCalls \in Nat
        /\ rows'[v] + pending'[v] + lost'[v] = rows[v] + pending[v] + lost[v]
    <3>1. rows[v] \in Nat /\ pending[v] \in Nat /\ lost[v] \in Nat /\ sent[v] \in Nat /\ sent[v] <= MaxCalls
      BY Limits
    <3>2. Count(calls, FlyingBy(v)) \in Nat
      BY CountIsNat
    <3>3. MaxCalls \in Nat
      BY PlatformAssumption
    <3>4. rows'[v] \in Nat /\ pending'[v] \in Nat /\ lost'[v] \in Nat
      OBVIOUS
    <3> QED
      BY <3>1, <3>2, <3>3, <3>4
  <2>3. sent[v] = rows'[v] + pending'[v] + lost'[v] + Count(calls, FlyingBy(v)) /\ lost'[v] <= MaxCalls
    BY <2>1, <2>2
  <2> QED
    BY <2>2, <2>3 DEF Accounted
<1>2. Gateway!TypeOK'
  <2>1. lost' \in [Users -> 0..MaxCalls]
    BY <1>1
  <2> QED
    BY <2>1 DEF GatewayInv, Gateway!TypeOK
<1>3. KeysOwned' /\ HandlersSound'
  BY DEF GatewayInv, KeysOwned, HandlersSound
<1>4. ASSUME NEW v \in Users PROVE WithinPeak(v)' /\ Bounded(v)'
  BY DEF GatewayInv, WithinPeak, Bounded
<1> QED
  BY <1>1, <1>2, <1>3, <1>4 DEF GatewayInv

\* A month begins: what is in the engine or queued counts, and nothing else.
LEMMA MonthKeeps ==
  ASSUME GatewayInv, Gateway!NewMonth
  PROVE  GatewayInv'
<1>1. /\ rows' = [u \in Users \cup {None} |-> 0] /\ lost' = [u \in Users |-> 0]
      /\ UNCHANGED <<keys, pending, calls, plan>>
  BY DEF Gateway!NewMonth
<1>2. ASSUME NEW u \in Users
      PROVE  /\ sent'[u] = Count(calls, FlyingBy(u)) + pending[u]
             /\ peak'[u] = Count(calls, CheckedBy(u)) + pending[u]
  <2>1. {c \in Calls : calls[c].user = u /\ calls[c].at = "engine"} = {c \in Calls : calls[c] \in FlyingBy(u)}
    BY AtWork DEF FlyingBy
  <2>2. /\ sent'[u] = Cardinality({c \in Calls : calls[c].user = u /\ calls[c].at = "engine"}) + pending[u]
        /\ peak'[u] = Gateway!Unrecorded(u) - lost[u]
    BY SameCardinality DEF Gateway!NewMonth
  <2>3. /\ Count(calls, CheckedBy(u)) \in Nat /\ pending[u] \in Nat /\ lost[u] \in Nat
    BY CountIsNat, Limits
  <2>4. Gateway!Unrecorded(u) - lost[u] = Count(calls, CheckedBy(u)) + pending[u]
    BY <2>3, UnrecordedCount
  <2> QED
    BY <2>1, <2>2, <2>4 DEF Count
<1>3. ASSUME NEW u \in Users
      PROVE  /\ best'[u] \in Gateway!Plans
             /\ \A c \in Calls : calls[c].user = u /\ calls[c].plan # None =>
                                   PlanLimit[calls[c].plan] <= PlanLimit[best'[u]]
  <2>1. PICK held : held = {calls[c].plan : c \in {d \in Calls : calls[d].user = u}} \ {None}
    OBVIOUS
  <2>2. best'[u] = IF "paid" \in held THEN "paid" ELSE plan[u]
    BY <2>1 DEF Gateway!NewMonth
  <2>3. plan[u] \in Gateway!Plans
    BY Limits
  <2>4. ASSUME NEW c \in Calls, calls[c].user = u, calls[c].plan # None
        PROVE  PlanLimit[calls[c].plan] <= PlanLimit[best'[u]]
    <3>1. calls[c].plan \in held /\ calls[c].plan \in {"free", "paid"}
      BY <2>1, <2>4, AtWork DEF Gateway!Call, Gateway!Plans
    <3> QED
      BY <2>2, <2>3, <3>1, PlatformAssumption DEF Gateway!Plans
  <2> QED
    BY <2>2, <2>3, <2>4 DEF Gateway!Plans
<1>4. best' \in [Users -> Gateway!Plans]
  <2>1. \E f : best' = [u \in Users |-> f[u]]
    BY DEF Gateway!NewMonth
  <2> QED
    BY <1>3, <2>1
<1>5. ASSUME NEW u \in Users PROVE /\ Accounted(u)' /\ sent'[u] \in 0..MaxCalls /\ peak'[u] \in Nat
                                   /\ sent'[u] <= peak'[u]
  <2>1. /\ Count(calls, FlyingBy(u)) \in Nat /\ Count(calls, CheckedBy(u)) \in Nat
        /\ Count(calls, WaitingBy(u, 0)) \in Nat
    BY CountIsNat
  <2>2. /\ rows[u] \in Nat /\ pending[u] \in Nat /\ lost[u] \in Nat
        /\ sent[u] \in Nat /\ sent[u] <= MaxCalls /\ MaxCalls \in Nat
    BY Limits, PlatformAssumption
  <2>3. sent[u] = rows[u] + pending[u] + lost[u] + Count(calls, FlyingBy(u))
    BY DEF GatewayInv, Accounted
  <2>4. Count(calls, FlyingBy(u)) + Count(calls, WaitingBy(u, 0)) <= Count(calls, CheckedBy(u))
    BY CheckedCount, AtWork
  <2>5. rows'[u] = 0 /\ lost'[u] = 0 /\ pending'[u] = pending[u] /\ calls' = calls
    BY <1>1
  <2>6. Accounted(u)'
    BY <1>2, <2>1, <2>2, <2>5 DEF Accounted
  <2> QED
    BY <1>2, <2>1, <2>2, <2>3, <2>4, <2>6
<1>6. Gateway!TypeOK'
  <2>1. /\ sent' \in [Users -> 0..MaxCalls] /\ peak' \in [Users -> Nat]
    <3>1. sent' = [u \in Users |-> sent'[u]] /\ peak' = [u \in Users |-> peak'[u]]
      BY DEF Gateway!NewMonth
    <3> QED
      BY <1>5, <3>1
  <2>2. rows' \in [Users \cup {None} -> Nat] /\ lost' \in [Users -> 0..MaxCalls]
    BY <1>1, PlatformAssumption
  <2> QED
    BY <1>1, <1>4, <2>1, <2>2 DEF GatewayInv, Gateway!TypeOK
<1>7. KeysOwned' /\ HandlersSound'
  <2>1. ASSUME NEW c \in Calls, calls[c].plan # None PROVE calls[c].user \in Users
    BY <2>1, AtWork DEF Gateway!Idle
  <2>2. HandlersSound'
    BY <1>1, <1>3, <2>1 DEF GatewayInv, HandlersSound
  <2> QED
    BY <1>1, <2>2 DEF GatewayInv, KeysOwned
<1>8. ASSUME NEW u \in Users PROVE WithinPeak(u)'
  <2> SUFFICES ASSUME NEW p \in Gateway!Plans, NEW L \in Nat \ {0}, L = PlanLimit[p],
                      Count(calls, WaitingBy(u, L)) > 0
               PROVE  sent'[u] + Count(calls, WaitingBy(u, L)) < L + peak'[u]
    BY <1>1, Limits DEF WithinPeak
  <2>1. /\ Count(calls, FlyingBy(u)) \in Nat /\ Count(calls, CheckedBy(u)) \in Nat
        /\ Count(calls, WaitingBy(u, L)) \in Nat /\ pending[u] \in Nat
    BY CountIsNat, Limits
  <2>2. Count(calls, FlyingBy(u)) + Count(calls, WaitingBy(u, L)) <= Count(calls, CheckedBy(u))
    BY CheckedCount, AtWork
  <2> QED
    BY <1>2, <2>1, <2>2
<1>9. ASSUME NEW u \in Users PROVE Bounded(u)'
  <2>1. PlanLimit[best'[u]] \in Nat \ {0}
    BY <1>3, Limits
  <2>2. sent'[u] \in Nat /\ peak'[u] \in Nat /\ sent'[u] <= peak'[u]
    BY <1>5, PlatformAssumption
  <2> QED
    BY <2>1, <2>2 DEF Bounded
<1> QED
  BY <1>5, <1>6, <1>7, <1>8, <1>9 DEF GatewayInv

LEMMA GatewayKeeps == GatewayInv /\ [Gateway!Next]_(Gateway!vars) => GatewayInv'
<1> SUFFICES ASSUME GatewayInv, [Gateway!Next]_(Gateway!vars) PROVE GatewayInv'
  OBVIOUS
<1>1. CASE \/ \E u \in Users, k \in Keys :
                Gateway!revokeApiKey(u, k) \/ \E x \in BOOLEAN : Gateway!createApiKey(u, k, x)
           \/ \E k \in Keys : Gateway!KeyExpires(k)
           \/ \E u \in Users : Gateway!PlanChanges(u)
  BY <1>1, GatewayKeysKeep
<1>2. ASSUME NEW c \in Calls,
             Gateway!validateApiKey(c) \/ Gateway!Touch(c) \/ Gateway!getUserPlan(c)
      PROVE  GatewayInv'
  BY <1>2, QuietStepsKeep
<1>3. ASSUME NEW c \in Calls, Gateway!getMonthlyUsage(c) PROVE GatewayInv'
  BY <1>3, UsageStepKeeps
<1>4. ASSUME NEW c \in Calls, Gateway!Forward(c) PROVE GatewayInv'
  BY <1>4, ForwardKeeps
<1>5. ASSUME NEW c \in Calls, Gateway!EngineAnswers(c) PROVE GatewayInv'
  BY <1>5, AnswerKeeps
<1>6. CASE Gateway!SandboxCall
  <2>1. /\ pending' = [pending EXCEPT ![None] = @ + 1]
        /\ UNCHANGED <<keys, rows, calls, sent, lost, peak, best, plan>>
    BY <1>6 DEF Gateway!SandboxCall
  <2>2. /\ pending \in [Users \cup {None} -> Nat] /\ rows \in [Users \cup {None} -> Nat]
        /\ lost \in [Users -> Nat]
    BY PlatformAssumption DEF GatewayInv, Gateway!TypeOK
  <2>3. /\ pending' \in [Users \cup {None} -> Nat] /\ \A v \in Users : pending'[v] = pending[v]
    BY <2>1, <2>2, PlatformAssumption
  <2> QED
    BY <2>1, <2>2, <2>3, LogKeeps
<1>7. ASSUME NEW u \in Users \cup {None}, Gateway!logAuditEvent(u) PROVE GatewayInv'
  <2>1. /\ pending[u] > 0 /\ pending' = [pending EXCEPT ![u] = @ - 1]
        /\ \/ rows' = [rows EXCEPT ![u] = @ + 1] /\ UNCHANGED lost
           \/ /\ u \in Users /\ lost' = [lost EXCEPT ![u] = @ + 1]
              /\ UNCHANGED rows
           \/ u = None /\ UNCHANGED <<rows, lost>>
        /\ UNCHANGED <<keys, calls, sent, peak, best, plan>>
    BY <1>7 DEF Gateway!logAuditEvent
  <2>2. /\ pending \in [Users \cup {None} -> Nat] /\ rows \in [Users \cup {None} -> Nat]
        /\ lost \in [Users -> Nat]
    BY PlatformAssumption DEF GatewayInv, Gateway!TypeOK
  <2>3. /\ pending' \in [Users \cup {None} -> Nat] /\ rows' \in [Users \cup {None} -> Nat]
        /\ lost' \in [Users -> Nat]
    BY <2>1, <2>2
  <2>4. ASSUME NEW v \in Users
        PROVE  rows'[v] + pending'[v] + lost'[v] = rows[v] + pending[v] + lost[v]
    <3>1. rows[v] \in Nat /\ pending[v] \in Nat /\ lost[v] \in Nat
      BY <2>2
    <3>2. CASE v = u
      <4>1. /\ pending'[v] = pending[v] - 1
            /\ \/ rows'[v] = rows[v] + 1 /\ lost'[v] = lost[v]
               \/ rows'[v] = rows[v] /\ lost'[v] = lost[v] + 1
        BY <2>1, <2>2, <3>2, PlatformAssumption
      <4> QED
        BY <3>1, <4>1
    <3>3. CASE v # u
      BY <2>1, <2>2, <3>3
    <3> QED
      BY <3>2, <3>3
  <2> QED
    BY <2>1, <2>3, <2>4, LogKeeps
<1>8. CASE Gateway!NewMonth
  BY <1>8, MonthKeeps
<1>9. CASE UNCHANGED (Gateway!vars)
  BY <1>9 DEF Gateway!vars, GatewayInv, Gateway!TypeOK, KeysOwned, HandlersSound, Accounted,
              WithinPeak, Bounded, Count
<1> QED
  BY <1>1, <1>2, <1>3, <1>4, <1>5, <1>6, <1>7, <1>8, <1>9 DEF Gateway!Next

\* What the invariant says, as the module puts it.
LEMMA GatewayHolds == GatewayInv => Gateway!OvershootBounded /\ Gateway!UsageAccounted
<1> SUFFICES ASSUME GatewayInv, NEW u \in Users
             PROVE  /\ sent[u] <= PlanLimit[best[u]] + Gateway!Max({peak[u], 1}) - 1
                    /\ sent[u] = rows[u] + pending[u] + lost[u]
                         + Gateway!Cardinality({c \in Calls : calls[c].user = u /\ calls[c].at = "engine"})
  BY DEF Gateway!OvershootBounded, Gateway!UsageAccounted, Gateway!limitForPlan
<1>1. {c \in Calls : calls[c].user = u /\ calls[c].at = "engine"} = {c \in Calls : calls[c] \in FlyingBy(u)}
  BY AtWork DEF FlyingBy
<1>2. Accounted(u) /\ Bounded(u)
  BY DEF GatewayInv
<1>3. sent[u] \in Nat /\ peak[u] \in Nat /\ PlanLimit[best[u]] \in Nat
  BY Limits
<1>4. Gateway!Max({peak[u], 1}) = IF peak[u] >= 1 THEN peak[u] ELSE 1
  BY <1>3, MaxPair
<1>5. sent[u] <= PlanLimit[best[u]] + Gateway!Max({peak[u], 1}) - 1
  BY <1>2, <1>3, <1>4 DEF Bounded
<1> QED
  BY <1>1, <1>2, <1>5, SameCardinality DEF Accounted, Count

---------------------------------------------------------------------------
(* Accounts: the inductive invariant                                       *)

\* The statements of each handler.
StepsOf(op) ==
  CASE op = "register" -> {"start", "insert", "clear", "issue", "send", "mark"}
    [] op \in {"forgot", "resend"} -> {"find", "clear", "issue", "send"}
    [] op \in {"reset", "verify"} -> {"read", "spend", "apply"}
    [] op = "oauth" -> {"linked", "byEmail", "create", "link"}
    [] OTHER -> {"start"}

\* A handler knows what its statement needs.  The account it issues a link for,
\* applies a link to or links exists; register marks an account, and a
\* verification link an address, only when there is a ground for it.
RequestSound(q) ==
  /\ q.op = "idle" => q = Accounts!Idle
  /\ q.at \in StepsOf(q.op)
  /\ q.op \in {"register", "forgot", "resend", "oauth"} \/ q.at \in {"spend", "apply"} => q.user \in Emails
  /\ q.op \in {"register", "reset"} => q.pw \in Passwords
  /\ q.op \in {"reset", "verify"} \/ q.at = "send" => q.tok \in Tokens
  /\ q.op = "oauth" => q.acct \in Accounts!Accts
  /\ q.at \in {"clear", "issue", "send", "mark", "spend", "apply", "link"} => Accounts!Exists(q.user)
  /\ q.at = "mark" => q.user \in grounds
  /\ q.op = "verify" =>
       /\ q.at = "read" => \A l \in links : l.kind = "verify" /\ l.id = q.tok => l.user \in grounds
       /\ q.at # "read" => q.user \in grounds

\* Links are of existing users, and whoever is about to insert one has seen
\* the others of its kind drawn.
LinksSound == \A l \in links : Accounts!Exists(l.user)
SeenSound ==
  \A r \in Requests : req[r].at = "issue" =>
    \A l \in links : l.kind = Accounts!KindOf(req[r].op) /\ l.user = req[r].user => l.id \in req[r].seen

\* A session with an account is of the user the account is linked to, one with
\* a password of a verified user.
SessionsSound ==
  \A s \in sessions :
    IF s.via = None THEN Accounts!Exists(s.user) /\ users[s.user].verified
    ELSE linked[s.via] = s.user

\* What was created exists, once, with its password until a reset.
CreatedSound ==
  /\ \A c \in created : /\ Accounts!Exists(c[1])
                        /\ c[1] \notin reset => users[c[1]].pw = c[2]
  /\ \A c, d \in created : c[1] = d[1] => c = d

AccountsInv ==
  /\ Accounts!TypeOK
  /\ \A r \in Requests : RequestSound(req[r])
  /\ LinksSound /\ SeenSound /\ Accounts!OneLiveLink
  /\ Accounts!VerifiedForAReason /\ SessionsSound /\ CreatedSound

\* No statement of a handler removes an account or a ground for one, or takes
\* back that an address is verified.
AccountsGrow ==
  /\ \A e \in Emails : Accounts!Exists(e) =>
       /\ Accounts!Exists(e)'
       /\ users[e].verified => users'[e].verified
  /\ grounds \subseteq grounds'

\* Nothing that was handed out or noted changes.
AccountsQuiet == UNCHANGED <<users, linked, sessions, created, reset>>

LEMMA SoundStays ==
  ASSUME NEW q \in Accounts!Request, RequestSound(q), AccountsGrow,
         \A l \in links' : l \in links \/ l.id # q.tok
  PROVE  RequestSound(q)'
<1>1. q.at \in {"clear", "issue", "send", "mark", "spend", "apply", "link"} => q.user \in Emails
  BY DEF RequestSound, StepsOf, Accounts!Request, Accounts!Ops
<1>2. q.at \in {"clear", "issue", "send", "mark", "spend", "apply", "link"} => Accounts!Exists(q.user)'
  BY <1>1 DEF RequestSound, AccountsGrow
<1>3. q.at = "mark" => q.user \in grounds'
  BY DEF RequestSound, AccountsGrow
<1>4. q.op = "verify" =>
       /\ q.at = "read" => \A l \in links' : l.kind = "verify" /\ l.id = q.tok => l.user \in grounds'
       /\ q.at # "read" => q.user \in grounds'
  BY DEF RequestSound, AccountsGrow
<1> QED
  BY <1>2, <1>3, <1>4 DEF RequestSound

\* A handler that moves and draws no token.
LEMMA LinksStay ==
  ASSUME LinksSound, SeenSound, Accounts!OneLiveLink, Accounts!TypeOK, AccountsGrow, links' \subseteq links,
         \A s \in Requests : req'[s].at = "issue" =>
            \/ req'[s] = req[s]
            \/ \A l \in links' : l.kind = Accounts!KindOf(req'[s].op) => l.user # req'[s].user
  PROVE  LinksSound' /\ SeenSound' /\ Accounts!OneLiveLink'
<1>1. LinksSound'
  BY DEF LinksSound, AccountsGrow, Accounts!TypeOK, Accounts!Link
<1>2. SeenSound'
  BY DEF SeenSound, Accounts!KindOf
<1>3. Accounts!OneLiveLink'
  BY DEF Accounts!OneLiveLink
<1> QED
  BY <1>1, <1>2, <1>3

LEMMA RestStays ==
  ASSUME Accounts!VerifiedForAReason, SessionsSound, CreatedSound, AccountsQuiet, grounds \subseteq grounds'
  PROVE  Accounts!VerifiedForAReason' /\ SessionsSound' /\ CreatedSound'
BY DEF Accounts!VerifiedForAReason, SessionsSound, CreatedSound, AccountsQuiet, Accounts!Exists

\* A handler moves on; q is what it knows afterwards.
LEMMA AccountsMoves ==
  ASSUME AccountsInv, AccountsGrow, Accounts!TypeOK', links' \subseteq links,
         NEW r \in Requests, NEW q \in Accounts!Request, req' = [req EXCEPT ![r] = q],
         RequestSound(q)',
         q.at = "issue" => \A l \in links' : l.kind = Accounts!KindOf(q.op) => l.user # q.user
  PROVE  /\ (\A s \in Requests : RequestSound(req[s]))'
         /\ LinksSound' /\ SeenSound' /\ Accounts!OneLiveLink'
<1>1. /\ req \in [Requests -> Accounts!Request]
      /\ \A s \in Requests : req'[s] = IF s = r THEN q ELSE req[s]
  BY DEF AccountsInv, Accounts!TypeOK
<1>2. ASSUME NEW s \in Requests
      PROVE  RequestSound(req[s])'
  <2>1. CASE s = r
    BY <1>1, <2>1 DEF RequestSound
  <2>2. CASE s # r
    <3>1. PICK p \in Accounts!Request : p = req[s] /\ p = req'[s]
      BY <1>1, <2>2
    <3>2. RequestSound(p)
      BY <3>1 DEF AccountsInv
    <3>3. RequestSound(p)'
      BY <3>2, SoundStays
    <3> QED
      BY <3>1, <3>3 DEF RequestSound
  <2> QED
    BY <2>1, <2>2
<1>3. LinksSound' /\ SeenSound' /\ Accounts!OneLiveLink'
  BY <1>1, LinksStay DEF AccountsInv
<1> QED
  BY <1>2, <1>3

\* ... and nothing that was handed out changes.
LEMMA AccountsMovesQuietly ==
  ASSUME AccountsInv, AccountsQuiet, grounds \subseteq grounds', Accounts!TypeOK', links' \subseteq links,
         NEW r \in Requests, NEW q \in Accounts!Request, req' = [req EXCEPT ![r] = q],
         RequestSound(q)',
         q.at = "issue" => \A l \in links' : l.kind = Accounts!KindOf(q.op) => l.user # q.user
  PROVE  AccountsInv'
<1>1. AccountsGrow
  BY DEF AccountsGrow, AccountsQuiet, Accounts!Exists
<1>2. Accounts!VerifiedForAReason' /\ SessionsSound' /\ CreatedSound'
  BY RestStays DEF AccountsInv
<1> QED
  BY <1>1, <1>2, AccountsMoves DEF AccountsInv

\* The steps after which nothing that was handed out has changed.
OthersTyped ==
  /\ expired' \subseteq Tokens /\ inbox' \subseteq Tokens /\ grounds' \subseteq Emails
  /\ profile' \in [Accounts!Accts -> Emails] /\ served' \in 0..MaxRequests

LEMMA IdleSound == Accounts!Idle \in Accounts!Request /\ RequestSound(Accounts!Idle) /\ RequestSound(Accounts!Idle)'
BY DEF Accounts!Idle, Accounts!Request, Accounts!Ops, Accounts!Steps, RequestSound, StepsOf

LEMMA QuietlyTyped ==
  ASSUME Accounts!TypeOK, AccountsQuiet, OthersTyped, links' \subseteq Accounts!Link,
         req' \in [Requests -> Accounts!Request]
  PROVE  Accounts!TypeOK'
BY DEF Accounts!TypeOK, AccountsQuiet, OthersTyped

LEMMA AccountsAdvance ==
  ASSUME AccountsInv, AccountsQuiet, grounds \subseteq grounds', OthersTyped, links' \subseteq links,
         NEW r \in Requests, NEW q \in Accounts!Request, req' = [req EXCEPT ![r] = q],
         RequestSound(q)',
         q.at = "issue" => \A l \in links' : l.kind = Accounts!KindOf(q.op) => l.user # q.user
  PROVE  AccountsInv'
<1>1. /\ Accounts!TypeOK
      /\ req \in [Requests -> Accounts!Request] /\ links \subseteq Accounts!Link
  BY DEF AccountsInv, Accounts!TypeOK
<1>2. req' \in [Requests -> Accounts!Request]
  BY <1>1
<1>3. Accounts!TypeOK'
  BY <1>1, <1>2, QuietlyTyped
<1> QED
  BY <1>3, AccountsMovesQuietly

LEMMA AccountsDone ==
  ASSUME AccountsInv, AccountsQuiet, grounds \subseteq grounds', OthersTyped, links' \subseteq links,
         NEW r \in Requests, Accounts!Done(r)
  PROVE  AccountsInv'
<1>1. Accounts!Idle.at # "issue"
  BY DEF Accounts!Idle
<1> QED
  BY <1>1, IdleSound, AccountsAdvance DEF Accounts!Done

\* What a handler knows at its statement.
LEMMA HandlerSound ==
  ASSUME AccountsInv, NEW r \in Requests
  PROVE  req[r] \in Accounts!Request /\ RequestSound(req[r])
BY DEF AccountsInv, Accounts!TypeOK

\* It goes to another statement with what it knows.
LEMMA AccountsGoes ==
  ASSUME AccountsInv, AccountsQuiet, grounds \subseteq grounds', OthersTyped, links' \subseteq links,
         NEW r \in Requests, NEW to \in Accounts!Steps, Accounts!Go(r, to),
         NEW q, q = [req[r] EXCEPT !.at = to], RequestSound(q)',
         to = "issue" => \A l \in links' : l.kind = Accounts!KindOf(q.op) => l.user # q.user
  PROVE  AccountsInv'
<1>1. q \in Accounts!Request /\ q.at = to
  BY HandlerSound DEF Accounts!Request
<1>2. req' = [req EXCEPT ![r] = q]
  BY DEF Accounts!Go
<1> QED
  BY <1>1, <1>2, AccountsAdvance

LEMMA OthersStay ==
  ASSUME AccountsInv, UNCHANGED <<expired, inbox, grounds, profile, served>>
  PROVE  OthersTyped
BY DEF AccountsInv, Accounts!TypeOK, OthersTyped

\* A handler that begins: what the five routes start with.
LEMMA AccountsBegins ==
  ASSUME AccountsInv, NEW r \in Requests, NEW q \in Accounts!Request, Accounts!Begin(r, q),
         AccountsQuiet, UNCHANGED <<links, expired, inbox, profile>>,
         grounds \subseteq grounds', grounds' \subseteq Emails,
         RequestSound(q)', q.at # "issue"
  PROVE  AccountsInv'
<1>1. served' \in 0..MaxRequests
  BY PlatformAssumption DEF Accounts!Begin, Accounts!Accept, AccountsInv, Accounts!TypeOK
<1>2. OthersTyped
  BY <1>1 DEF OthersTyped, AccountsInv, Accounts!TypeOK
<1>3. req' = [req EXCEPT ![r] = q]
  BY DEF Accounts!Begin
<1> QED
  BY <1>2, <1>3, AccountsAdvance

LEMMA AccountsBeginKeeps ==
  ASSUME AccountsInv, NEW r \in Requests,
         \/ Accounts!Register(r) \/ Accounts!ForgotPassword(r) \/ Accounts!ResendVerification(r)
         \/ Accounts!ResetPassword(r) \/ Accounts!OAuthCallback(r)
  PROVE  AccountsInv'
<1>1. /\ AccountsQuiet /\ UNCHANGED <<links, expired, inbox, profile>>
      /\ grounds \subseteq grounds' /\ grounds' \subseteq Emails
  BY DEF AccountsQuiet, Accounts!Register, Accounts!ForgotPassword, Accounts!ResendVerification,
         Accounts!ResetPassword, Accounts!OAuthCallback, Accounts!db, Accounts!history,
         AccountsInv, Accounts!TypeOK
<1>2. CASE Accounts!Register(r)
  <2>1. PICK e \in Emails, p \in Passwords :
          Accounts!Begin(r, [Accounts!New("register", "start") EXCEPT !.user = e, !.pw = p])
    BY <1>2 DEF Accounts!Register
  <2>2. PICK q : q = [Accounts!New("register", "start") EXCEPT !.user = e, !.pw = p]
    OBVIOUS
  <2>3. q = [op |-> "register", at |-> "start", user |-> e, pw |-> p, tok |-> None, acct |-> None,
             seen |-> {}, verified |-> FALSE]
    BY <2>2 DEF Accounts!New, Accounts!Idle
  <2>4. q \in Accounts!Request
    BY <2>3 DEF Accounts!Request, Accounts!Ops, Accounts!Steps
  <2>5. RequestSound(q)' /\ q.at # "issue"
    BY <2>3 DEF RequestSound, StepsOf
  <2>6. Accounts!Begin(r, q)
    BY <2>1, <2>2
  <2> QED
    BY <1>1, <2>4, <2>5, <2>6, AccountsBegins
<1>3. CASE Accounts!ForgotPassword(r) \/ Accounts!ResendVerification(r)
  <2>1. PICK e \in Emails, op \in {"forgot", "resend"} :
          Accounts!Begin(r, [Accounts!New(op, "find") EXCEPT !.user = e])
    BY <1>3 DEF Accounts!ForgotPassword, Accounts!ResendVerification
  <2>2. PICK q : q = [Accounts!New(op, "find") EXCEPT !.user = e]
    OBVIOUS
  <2>3. q = [op |-> op, at |-> "find", user |-> e, pw |-> None, tok |-> None, acct |-> None,
             seen |-> {}, verified |-> FALSE]
    BY <2>2 DEF Accounts!New, Accounts!Idle
  <2>4. q \in Accounts!Request
    BY <2>3 DEF Accounts!Request, Accounts!Ops, Accounts!Steps
  <2>5. RequestSound(q)' /\ q.at # "issue"
    BY <2>3 DEF RequestSound, StepsOf
  <2>6. Accounts!Begin(r, q)
    BY <2>1, <2>2
  <2> QED
    BY <1>1, <2>4, <2>5, <2>6, AccountsBegins
<1>4. CASE Accounts!ResetPassword(r)
  <2>1. PICK t \in Tokens, p \in Passwords :
          Accounts!Begin(r, [Accounts!New("reset", "read") EXCEPT !.tok = t, !.pw = p])
    BY <1>4 DEF Accounts!ResetPassword, AccountsInv, Accounts!TypeOK
  <2>2. PICK q : q = [Accounts!New("reset", "read") EXCEPT !.tok = t, !.pw = p]
    OBVIOUS
  <2>3. q = [op |-> "reset", at |-> "read", user |-> None, pw |-> p, tok |-> t, acct |-> None,
             seen |-> {}, verified |-> FALSE]
    BY <2>2 DEF Accounts!New, Accounts!Idle
  <2>4. q \in Accounts!Request
    BY <2>3 DEF Accounts!Request, Accounts!Ops, Accounts!Steps
  <2>5. RequestSound(q)' /\ q.at # "issue"
    BY <2>3 DEF RequestSound, StepsOf
  <2>6. Accounts!Begin(r, q)
    BY <2>1, <2>2
  <2> QED
    BY <1>1, <2>4, <2>5, <2>6, AccountsBegins
<1>5. CASE Accounts!OAuthCallback(r)
  <2>1. PICK a \in Accounts!Accts : \E p \in Accounts!fetchProfile(a) :
          Accounts!Begin(r, [Accounts!New("oauth", "linked") EXCEPT
                               !.acct = a, !.user = p.email, !.verified = p.verified])
    BY <1>5 DEF Accounts!OAuthCallback
  <2>2. PICK p \in Accounts!fetchProfile(a) :
          Accounts!Begin(r, [Accounts!New("oauth", "linked") EXCEPT
                               !.acct = a, !.user = p.email, !.verified = p.verified])
    BY <2>1
  <2>3. profile[a] \in Emails
    BY DEF AccountsInv, Accounts!TypeOK
  <2>4. p.email \in Emails /\ p.verified \in BOOLEAN
    <3>1. \/ p \in Accounts!fetchGoogleProfile(a)
          \/ p \in Accounts!fetchGitHubProfile(a)
      BY <2>2 DEF Accounts!fetchProfile
    <3>2. \/ \E v \in BOOLEAN : p = [email |-> profile[a], verified |-> v]
          \/ \E e \in Emails : p = [email |-> e, verified |-> FALSE]
      BY <3>1 DEF Accounts!fetchGoogleProfile, Accounts!fetchGitHubProfile
    <3>3. CASE \E v \in BOOLEAN : p = [email |-> profile[a], verified |-> v]
      <4>1. PICK v \in BOOLEAN : p = [email |-> profile[a], verified |-> v]
        BY <3>3
      <4>2. p.email = profile[a] /\ p.verified = v
        BY <4>1
      <4> QED
        BY <2>3, <4>2
    <3>4. CASE \E e \in Emails : p = [email |-> e, verified |-> FALSE]
      BY <3>4
    <3> QED
      BY <3>2, <3>3, <3>4
  <2>5. PICK q : q = [Accounts!New("oauth", "linked") EXCEPT
                        !.acct = a, !.user = p.email, !.verified = p.verified]
    OBVIOUS
  <2>6. q = [op |-> "oauth", at |-> "linked", user |-> p.email, pw |-> None, tok |-> None, acct |-> a,
             seen |-> {}, verified |-> p.verified]
    BY <2>5 DEF Accounts!New, Accounts!Idle
  <2>7. q \in Accounts!Request
    BY <2>4, <2>6 DEF Accounts!Request, Accounts!Ops, Accounts!Steps
  <2>8. RequestSound(q)' /\ q.at # "issue"
    BY <2>4, <2>6 DEF RequestSound, StepsOf
  <2>9. Accounts!Begin(r, q)
    BY <2>2, <2>5
  <2> QED
    BY <1>1, <2>7, <2>8, <2>9, AccountsBegins
<1> QED
  BY <1>2, <1>3, <1>4, <1>5

\* The link that is opened counts as a ground from here on.
LEMMA VerifyEmailKeeps ==
  ASSUME AccountsInv, NEW r \in Requests, Accounts!VerifyEmail(r)
  PROVE  AccountsInv'
<1>1. PICK t \in Tokens :
        /\ Accounts!Begin(r, [Accounts!New("verify", "read") EXCEPT !.tok = t])
        /\ grounds' = grounds \cup {l.user : l \in Accounts!RowOf("verify", t)}
  BY DEF Accounts!VerifyEmail, AccountsInv, Accounts!TypeOK
<1>2. AccountsQuiet /\ UNCHANGED <<links, expired, inbox, profile>>
  BY DEF Accounts!VerifyEmail, Accounts!db, AccountsQuiet
<1>3. grounds \subseteq grounds' /\ grounds' \subseteq Emails
  BY <1>1 DEF Accounts!RowOf, AccountsInv, Accounts!TypeOK, Accounts!Link
<1>4. PICK q : q = [Accounts!New("verify", "read") EXCEPT !.tok = t]
  OBVIOUS
<1>5. q = [op |-> "verify", at |-> "read", user |-> None, pw |-> None, tok |-> t, acct |-> None,
           seen |-> {}, verified |-> FALSE]
  BY <1>4 DEF Accounts!New, Accounts!Idle
<1>6. q \in Accounts!Request
  BY <1>5 DEF Accounts!Request, Accounts!Ops, Accounts!Steps
<1>7. \A l \in links' : l.kind = "verify" /\ l.id = t => l.user \in grounds'
  BY <1>1, <1>2 DEF Accounts!RowOf
<1>8. RequestSound(q)' /\ q.at # "issue"
  BY <1>5, <1>7 DEF RequestSound, StepsOf
<1>9. Accounts!Begin(r, q)
  BY <1>1, <1>4
<1> QED
  BY <1>2, <1>3, <1>6, <1>8, <1>9, AccountsBegins

\* Time passes, and a provider account gets another address.
LEMMA AccountsOutside ==
  ASSUME AccountsInv, Accounts!Expire \/ Accounts!ChangeAddress \/ UNCHANGED Accounts!vars
  PROVE  AccountsInv'
<1>1. AccountsQuiet /\ UNCHANGED <<links, req, grounds, served, inbox>>
  BY DEF Accounts!Expire, Accounts!ChangeAddress, Accounts!vars, Accounts!db, Accounts!history, AccountsQuiet
<1>2. expired' \subseteq Tokens /\ profile' \in [Accounts!Accts -> Emails]
  BY DEF AccountsInv, Accounts!TypeOK, Accounts!Link, Accounts!Expire, Accounts!ChangeAddress, Accounts!vars
<1>3. Accounts!TypeOK'
  BY <1>1, <1>2 DEF AccountsInv, Accounts!TypeOK, AccountsQuiet
<1>4. (\A r \in Requests : RequestSound(req[r]))'
  BY <1>1 DEF AccountsInv, RequestSound, AccountsQuiet, Accounts!Exists
<1>5. LinksSound' /\ SeenSound' /\ Accounts!OneLiveLink'
  BY <1>1 DEF AccountsInv, LinksSound, SeenSound, Accounts!OneLiveLink, AccountsQuiet, Accounts!Exists
<1>6. Accounts!VerifiedForAReason' /\ SessionsSound' /\ CreatedSound'
  BY <1>1, RestStays DEF AccountsInv
<1> QED
  BY <1>3, <1>4, <1>5, <1>6 DEF AccountsInv

\* The steps of a handler that only look, answer, delete a link or send a mail.
LEMMA AccountsLookKeeps ==
  ASSUME AccountsInv, NEW r \in Requests,
         Accounts!RegisterSelect(r) \/ Accounts!IssueFind(r) \/ Accounts!OAuthByEmail(r)
  PROVE  AccountsInv'
<1>1. AccountsQuiet /\ UNCHANGED <<links, expired, inbox, grounds, profile, served>>
  BY DEF AccountsQuiet, Accounts!RegisterSelect, Accounts!IssueFind, Accounts!OAuthByEmail,
         Accounts!db, Accounts!history
<1>2. OthersTyped /\ grounds \subseteq grounds' /\ links' \subseteq links
  BY <1>1, OthersStay
<1>3. CASE Accounts!Done(r)
  BY <1>1, <1>2, <1>3, AccountsDone
<1>4. PICK p : p = req[r]
  OBVIOUS
<1>5. p \in Accounts!Request /\ RequestSound(p) /\ RequestSound(p)'
  <2>1. AccountsGrow
    BY <1>1 DEF AccountsGrow, AccountsQuiet, Accounts!Exists
  <2> QED
    BY <1>1, <1>4, <2>1, HandlerSound, SoundStays
<1>6. p.user \in Emails \cup {None}
  BY <1>5 DEF Accounts!Request
<1>7. ASSUME NEW to \in Accounts!Steps, Accounts!Go(r, to), to # "issue",
             RequestSound([p EXCEPT !.at = to])'
      PROVE  AccountsInv'
  BY <1>1, <1>2, <1>4, <1>7, AccountsGoes
<1>8. CASE Accounts!RegisterSelect(r)
  <2>1. p.op = "register" /\ (Accounts!Done(r) \/ Accounts!Go(r, "insert"))
    BY <1>4, <1>8 DEF Accounts!RegisterSelect, Accounts!At
  <2>2. RequestSound([p EXCEPT !.at = "insert"])'
    BY <1>5, <2>1 DEF RequestSound, StepsOf, Accounts!Request
  <2> QED
    BY <1>3, <1>7, <2>1, <2>2 DEF Accounts!Steps
<1>9. CASE Accounts!IssueFind(r)
  <2>1. /\ p.op \in {"forgot", "resend"}
        /\ Accounts!Done(r) \/ (Accounts!Exists(p.user) /\ Accounts!Go(r, "clear"))
    BY <1>4, <1>9 DEF Accounts!IssueFind, Accounts!At
  <2>2. Accounts!Exists(p.user) => Accounts!Exists(p.user)'
    BY <1>1 DEF Accounts!Exists, AccountsQuiet
  <2>3. Accounts!Exists(p.user) => RequestSound([p EXCEPT !.at = "clear"])'
    BY <1>5, <2>1, <2>2 DEF RequestSound, StepsOf, Accounts!Request
  <2> QED
    BY <1>3, <1>7, <2>1, <2>3 DEF Accounts!Steps
<1>10. CASE Accounts!OAuthByEmail(r)
  <2>1. /\ p.op = "oauth"
        /\ \/ Accounts!Done(r) \/ Accounts!Go(r, "create")
           \/ Accounts!Exists(p.user) /\ Accounts!Go(r, "link")
    BY <1>4, <1>10 DEF Accounts!OAuthByEmail, Accounts!At
  <2>2. Accounts!Exists(p.user) => Accounts!Exists(p.user)'
    BY <1>1 DEF Accounts!Exists, AccountsQuiet
  <2>3. /\ RequestSound([p EXCEPT !.at = "create"])'
        /\ Accounts!Exists(p.user) => RequestSound([p EXCEPT !.at = "link"])'
    BY <1>5, <2>1, <2>2 DEF RequestSound, StepsOf, Accounts!Request
  <2> QED
    BY <1>3, <1>7, <2>1, <2>3 DEF Accounts!Steps
<1> QED
  BY <1>8, <1>9, <1>10

\* register verifies the account itself when no link can be sent.
LEMMA IssueFails ==
  ASSUME AccountsInv, AccountsQuiet, links' \subseteq links, expired' \subseteq Tokens, inbox' \subseteq Tokens,
         UNCHANGED <<profile, served>>, NEW r \in Requests, Accounts!IssueFailed(r),
         req[r].op \in {"register", "forgot", "resend"}, req[r].at \in {"clear", "send"}
  PROVE  AccountsInv'
<1>1. PICK p : p = req[r]
  OBVIOUS
<1>2. p \in Accounts!Request /\ RequestSound(p)
  BY <1>1, HandlerSound
<1>3. p.user \in Emails
  BY <1>1, <1>2 DEF RequestSound
<1>4. CASE p.op = "register"
  <2>1. Accounts!Go(r, "mark") /\ grounds' = grounds \cup {p.user}
    BY <1>1, <1>4 DEF Accounts!IssueFailed
  <2>2. OthersTyped
    BY <1>3, <2>1 DEF OthersTyped, AccountsInv, Accounts!TypeOK
  <2>3. Accounts!Exists(p.user)'
    BY <1>1, <1>2 DEF RequestSound, Accounts!Exists, AccountsQuiet
  <2>4. RequestSound([p EXCEPT !.at = "mark"])'
    BY <1>2, <1>4, <2>1, <2>3 DEF RequestSound, StepsOf, Accounts!Request
  <2> QED
    BY <1>1, <2>1, <2>2, <2>4, AccountsGoes DEF Accounts!Steps
<1>5. CASE p.op # "register"
  <2>1. Accounts!Done(r) /\ UNCHANGED grounds
    BY <1>1, <1>5 DEF Accounts!IssueFailed
  <2>2. OthersTyped
    BY <2>1 DEF OthersTyped, AccountsInv, Accounts!TypeOK
  <2> QED
    BY <2>1, <2>2, AccountsDone
<1> QED
  BY <1>4, <1>5

LEMMA IssueClearKeeps ==
  ASSUME AccountsInv, NEW r \in Requests, Accounts!IssueClear(r)
  PROVE  AccountsInv'
<1>1. /\ AccountsQuiet /\ UNCHANGED <<expired, inbox, profile, served>> /\ links' \subseteq links
      /\ expired' \subseteq Tokens /\ inbox' \subseteq Tokens
      /\ req[r].op \in {"register", "forgot", "resend"} /\ req[r].at = "clear"
  BY DEF AccountsQuiet, Accounts!IssueClear, Accounts!Threw, Accounts!At, AccountsInv, Accounts!TypeOK
<1>2. PICK p : p = req[r]
  OBVIOUS
<1>3. p \in Accounts!Request /\ RequestSound(p)
  BY <1>2, HandlerSound
<1>4. CASE /\ links' = links \ Accounts!Rows(Accounts!KindOf(p.op), p.user)
           /\ Accounts!Go(r, "issue") /\ UNCHANGED grounds
  <2>1. OthersTyped
    BY <1>1, <1>4, OthersStay
  <2>2. Accounts!Exists(p.user)'
    BY <1>1, <1>2, <1>3 DEF RequestSound, Accounts!Exists, AccountsQuiet
  <2>3. RequestSound([p EXCEPT !.at = "issue"])'
    BY <1>1, <1>2, <1>3, <2>2 DEF RequestSound, StepsOf, Accounts!Request
  <2>4. \A l \in links' : l.kind = Accounts!KindOf(p.op) => l.user # p.user
    BY <1>4 DEF Accounts!Rows
  <2>5. [p EXCEPT !.at = "issue"].op = p.op /\ [p EXCEPT !.at = "issue"].user = p.user
    BY <1>3 DEF Accounts!Request
  <2>6. grounds \subseteq grounds' /\ "issue" \in Accounts!Steps
    BY <1>4 DEF Accounts!Steps
  <2>7. PICK q : q = [p EXCEPT !.at = "issue"]
    OBVIOUS
  <2>8. \A l \in links' : l.kind = Accounts!KindOf(q.op) => l.user # q.user
    BY <2>4, <2>5, <2>7
  <2>9. q = [req[r] EXCEPT !.at = "issue"] /\ RequestSound(q)'
    BY <1>2, <2>3, <2>7
  <2> QED
    BY <1>1, <1>4, <2>1, <2>6, <2>8, <2>9, AccountsGoes
<1>5. CASE Accounts!IssueFailed(r)
  BY <1>1, <1>5, IssueFails
<1> QED
  BY <1>2, <1>4, <1>5 DEF Accounts!IssueClear

LEMMA IssueSendKeeps ==
  ASSUME AccountsInv, NEW r \in Requests, Accounts!IssueSend(r)
  PROVE  AccountsInv'
<1>1. /\ AccountsQuiet /\ UNCHANGED <<links, expired, profile, served>> /\ links' \subseteq links
      /\ req[r].op \in {"register", "forgot", "resend"} /\ req[r].at = "send"
  BY DEF AccountsQuiet, Accounts!IssueSend, Accounts!At, Accounts!db
<1>2. req[r].tok \in Tokens
  BY <1>1, HandlerSound DEF RequestSound
<1>3. expired' \subseteq Tokens /\ inbox' \subseteq Tokens
  BY <1>1, <1>2 DEF Accounts!IssueSend, Accounts!Threw, AccountsInv, Accounts!TypeOK
<1>4. CASE Accounts!Done(r) /\ UNCHANGED grounds
  <2>1. OthersTyped /\ grounds \subseteq grounds'
    BY <1>1, <1>3, <1>4 DEF OthersTyped, AccountsInv, Accounts!TypeOK
  <2> QED
    BY <1>1, <1>4, <2>1, AccountsDone
<1>5. CASE Accounts!IssueFailed(r)
  BY <1>1, <1>3, <1>5, IssueFails
<1> QED
  BY <1>4, <1>5 DEF Accounts!IssueSend

LEMMA ConsumeSelectKeeps ==
  ASSUME AccountsInv, NEW r \in Requests, Accounts!ConsumeSelect(r)
  PROVE  AccountsInv'
<1>1. /\ AccountsQuiet /\ UNCHANGED <<expired, inbox, grounds, profile, served>> /\ links' \subseteq links
      /\ req[r].op \in {"verify", "reset"} /\ req[r].at = "read"
  BY DEF AccountsQuiet, Accounts!ConsumeSelect, Accounts!At, Accounts!history
<1>2. OthersTyped /\ grounds \subseteq grounds'
  BY <1>1, OthersStay
<1>3. PICK p : p = req[r]
  OBVIOUS
<1>4. p \in Accounts!Request /\ RequestSound(p)
  BY <1>3, HandlerSound
<1>5. CASE Accounts!Done(r)
  BY <1>1, <1>2, <1>5, AccountsDone
<1>6. CASE \E l \in Accounts!RowOf(p.op, p.tok) :
             req' = [req EXCEPT ![r].at = "spend", ![r].user = l.user]
  <2>1. PICK l \in Accounts!RowOf(p.op, p.tok) : req' = [req EXCEPT ![r].at = "spend", ![r].user = l.user]
    BY <1>6
  <2>2. l \in links /\ l.kind = p.op /\ l.id = p.tok /\ l.user \in Emails /\ Accounts!Exists(l.user)
    BY <2>1 DEF Accounts!RowOf, AccountsInv, LinksSound, Accounts!TypeOK, Accounts!Link
  <2>3. PICK q : q = [p EXCEPT !.at = "spend", !.user = l.user]
    OBVIOUS
  <2>4. q \in Accounts!Request /\ q.at = "spend" /\ q.op = p.op /\ q.user = l.user /\ q.pw = p.pw /\ q.tok = p.tok
    BY <1>4, <2>2, <2>3 DEF Accounts!Request, Accounts!Steps
  <2>5. req' = [req EXCEPT ![r] = q]
    BY <1>3, <2>1, <2>3 DEF AccountsInv, Accounts!TypeOK
  <2>6. Accounts!Exists(l.user)' /\ (p.op = "verify" => l.user \in grounds')
    BY <1>1, <1>3, <1>4, <2>2 DEF RequestSound, Accounts!Exists, AccountsQuiet
  <2>7. RequestSound(q)'
    BY <1>1, <1>3, <1>4, <2>2, <2>4, <2>6 DEF RequestSound, StepsOf
  <2> QED
    BY <1>1, <1>2, <2>4, <2>5, <2>7, AccountsAdvance
<1> QED
  BY <1>3, <1>5, <1>6 DEF Accounts!ConsumeSelect

LEMMA ConsumeDeleteKeeps ==
  ASSUME AccountsInv, NEW r \in Requests, Accounts!ConsumeDelete(r)
  PROVE  AccountsInv'
<1>1. /\ AccountsQuiet /\ UNCHANGED <<expired, inbox, grounds, profile, served>> /\ links' \subseteq links
      /\ req[r].op \in {"verify", "reset"} /\ req[r].at = "spend"
      /\ Accounts!Done(r) \/ Accounts!Go(r, "apply")
  BY DEF AccountsQuiet, Accounts!ConsumeDelete, Accounts!Threw, Accounts!At, Accounts!history
<1>2. OthersTyped /\ grounds \subseteq grounds'
  BY <1>1, OthersStay
<1>3. PICK p : p = req[r]
  OBVIOUS
<1>4. p \in Accounts!Request /\ RequestSound(p)
  BY <1>3, HandlerSound
<1>5. Accounts!Exists(p.user)'
  BY <1>1, <1>3, <1>4 DEF RequestSound, Accounts!Exists, AccountsQuiet
<1>6. RequestSound([p EXCEPT !.at = "apply"])'
  BY <1>1, <1>3, <1>4, <1>5 DEF RequestSound, StepsOf, Accounts!Request
<1> QED
  BY <1>1, <1>2, <1>3, <1>6, AccountsDone, AccountsGoes DEF Accounts!Steps

---------------------------------------------------------------------------
(* Accounts: the steps that create, verify, sign in or issue               *)

\* Typing of a step that writes users.
LEMMA UsersTyped ==
  ASSUME Accounts!TypeOK, users' \in [Emails -> Accounts!User \cup {None}],
         req' \in [Requests -> Accounts!Request], grounds' \subseteq Emails,
         created' \subseteq Emails \X Passwords, reset' \subseteq Emails,
         UNCHANGED <<linked, links, expired, inbox, profile, sessions, served>>
  PROVE  Accounts!TypeOK'
BY DEF Accounts!TypeOK

\* A registration answered with 201 is of an address that had no account.
LEMMA RegisterInsertKeeps ==
  ASSUME AccountsInv, NEW r \in Requests, Accounts!RegisterInsert(r)
  PROVE  AccountsInv'
<1>1. PICK p : p = req[r]
  OBVIOUS
<1>2. /\ p \in Accounts!Request /\ RequestSound(p)
      /\ p.op = "register" /\ p.at = "insert" /\ p.user \in Emails /\ p.pw \in Passwords
  BY <1>1, HandlerSound DEF RequestSound, Accounts!RegisterInsert, Accounts!At
<1>3. UNCHANGED <<linked, links, expired, inbox, profile, sessions, reset, grounds, served>>
  BY DEF Accounts!RegisterInsert
<1>4. CASE UNCHANGED users /\ UNCHANGED created /\ Accounts!Done(r)
  <2>1. AccountsQuiet /\ Accounts!Done(r)
    BY <1>3, <1>4 DEF AccountsQuiet
  <2> QED
    BY <1>3, <2>1, OthersStay, AccountsDone
<1>5. CASE /\ ~Accounts!Exists(p.user)
           /\ Accounts!InsertUser(p.user, p.pw, ~EmailOn)
           /\ \/ Accounts!Done(r)
              \/ EmailOn /\ Accounts!Go(r, "clear") /\ created' = created \cup {<<p.user, p.pw>>}
           /\ created' \in {created, created \cup {<<p.user, p.pw>>}}
  <2>1. PICK u, v : v = ~EmailOn /\ u = [pw |-> p.pw, verified |-> v]
    OBVIOUS
  <2>2. u.pw = p.pw /\ (EmailOn => ~u.verified) /\ u \in Accounts!User /\ u # None
    <3>1. v \in BOOLEAN /\ (EmailOn => ~v)
      BY <2>1
    <3>2. u.pw = p.pw /\ u.verified = v
      BY <2>1
    <3>3. u \in Accounts!User
      BY <1>2, <2>1, <3>1 DEF Accounts!User
    <3> QED
      BY <3>1, <3>2, <3>3, PlatformAssumption
  <2>3. /\ users \in [Emails -> Accounts!User \cup {None}]
        /\ req \in [Requests -> Accounts!Request]
        /\ users' = [users EXCEPT ![p.user] = u]
    BY <1>5, <2>1 DEF AccountsInv, Accounts!TypeOK, Accounts!InsertUser
  <2>4. /\ users' \in [Emails -> Accounts!User \cup {None}]
        /\ \A e \in Emails : users'[e] = IF e = p.user THEN u ELSE users[e]
    BY <1>2, <2>2, <2>3
  <2>5. users[p.user] = None
    BY <1>5 DEF Accounts!Exists
  <2>6. AccountsGrow
    BY <1>3, <2>2, <2>4, <2>5 DEF AccountsGrow, Accounts!Exists
  <2>7. PICK q : q = IF Accounts!Done(r) THEN Accounts!Idle ELSE [p EXCEPT !.at = "clear"]
    OBVIOUS
  <2>8. /\ req' = [req EXCEPT ![r] = q] /\ q \in Accounts!Request /\ q.at # "issue" /\ RequestSound(q)'
    <3>1. CASE Accounts!Done(r)
      BY <2>7, <3>1, IdleSound DEF Accounts!Done, Accounts!Idle
    <3>2. CASE ~Accounts!Done(r)
      <4>1. q = [p EXCEPT !.at = "clear"] /\ Accounts!Go(r, "clear")
        BY <1>5, <2>7, <3>2
      <4>2. q \in Accounts!Request /\ q.at = "clear" /\ q.op = "register" /\ q.user = p.user /\ q.pw = p.pw
        BY <1>2, <4>1 DEF Accounts!Request, Accounts!Steps
      <4>3. req' = [req EXCEPT ![r] = q]
        BY <1>1, <2>3, <4>1 DEF Accounts!Go
      <4>4. Accounts!Exists(p.user)'
        BY <1>2, <2>2, <2>4 DEF Accounts!Exists
      <4>5. RequestSound(q)'
        BY <1>2, <4>2, <4>4 DEF RequestSound, StepsOf
      <4> QED
        BY <4>2, <4>3, <4>5
    <3> QED
      BY <3>1, <3>2
  <2>9. req' \in [Requests -> Accounts!Request]
    BY <2>3, <2>8
  <2>10. created' \subseteq Emails \X Passwords
    BY <1>2, <1>5 DEF AccountsInv, Accounts!TypeOK
  <2>11. grounds' \subseteq Emails /\ reset' \subseteq Emails
    BY <1>3 DEF AccountsInv, Accounts!TypeOK
  <2>12. Accounts!TypeOK'
    BY <1>3, <2>4, <2>9, <2>10, <2>11, UsersTyped DEF AccountsInv
  <2>13. /\ (\A s \in Requests : RequestSound(req[s]))'
         /\ LinksSound' /\ SeenSound' /\ Accounts!OneLiveLink'
    BY <1>3, <2>6, <2>8, <2>12, AccountsMoves
  <2>14. Accounts!VerifiedForAReason'
    BY <1>3, <2>2, <2>4 DEF AccountsInv, Accounts!VerifiedForAReason, Accounts!Exists
  <2>15. SessionsSound'
    BY <1>3, <2>6 DEF AccountsInv, SessionsSound, AccountsGrow, Accounts!TypeOK, Accounts!Session
  <2>16. CreatedSound'
    <3>1. \A c \in created : c[1] \in Emails /\ c[1] # p.user /\ users'[c[1]] = users[c[1]]
      BY <1>5, <2>4 DEF AccountsInv, CreatedSound, Accounts!TypeOK
    <3>2. \A c \in created' : c \in created \/ c = <<p.user, p.pw>>
      BY <1>5
    <3> QED
      BY <1>2, <1>3, <2>2, <2>4, <3>1, <3>2 DEF AccountsInv, CreatedSound, Accounts!Exists
  <2> QED
    BY <2>12, <2>13, <2>14, <2>15, <2>16 DEF AccountsInv
<1> QED
  BY <1>1, <1>4, <1>5 DEF Accounts!RegisterInsert

\* A statement writes one row of lelu_users: it takes no verification back, has
\* a ground for one it gives, and changes a password only by a reset.
LEMMA AccountsWrites ==
  ASSUME AccountsInv, NEW r \in Requests, NEW q \in Accounts!Request, req' = [req EXCEPT ![r] = q],
         RequestSound(q)', q.at # "issue",
         NEW e \in Emails, NEW u \in Accounts!User, users' = [users EXCEPT ![e] = u],
         UNCHANGED <<linked, links, expired, inbox, profile, sessions, served, created>>,
         grounds \subseteq grounds', grounds' \subseteq Emails, reset \subseteq reset', reset' \subseteq Emails,
         Accounts!Exists(e) /\ users[e].verified => u.verified,
         EmailOn /\ u.verified => e \in grounds',
         Accounts!Exists(e) => e \in reset' \/ u.pw = users[e].pw
  PROVE  AccountsInv'
<1>1. u # None
  BY PlatformAssumption
<1>2. /\ users \in [Emails -> Accounts!User \cup {None}]
      /\ req \in [Requests -> Accounts!Request]
  BY DEF AccountsInv, Accounts!TypeOK
<1>3. /\ users' \in [Emails -> Accounts!User \cup {None}]
      /\ \A a \in Emails : users'[a] = IF a = e THEN u ELSE users[a]
  BY <1>2
<1>4. AccountsGrow
  BY <1>1, <1>3 DEF AccountsGrow, Accounts!Exists
<1>5. Accounts!TypeOK'
  <2>1. req' \in [Requests -> Accounts!Request]
    BY <1>2
  <2>2. created' \subseteq Emails \X Passwords
    BY DEF AccountsInv, Accounts!TypeOK
  <2> QED
    BY <1>3, <2>1, <2>2, UsersTyped DEF AccountsInv
<1>6. /\ (\A s \in Requests : RequestSound(req[s]))'
      /\ LinksSound' /\ SeenSound' /\ Accounts!OneLiveLink'
  BY <1>4, <1>5, AccountsMoves
<1>7. Accounts!VerifiedForAReason'
  BY <1>3 DEF AccountsInv, Accounts!VerifiedForAReason, Accounts!Exists
<1>8. SessionsSound'
  BY <1>4 DEF AccountsInv, SessionsSound, AccountsGrow, Accounts!TypeOK, Accounts!Session
<1>9. CreatedSound'
  <2>1. \A c \in created : c[1] \in Emails /\ Accounts!Exists(c[1])'
    BY <1>4 DEF AccountsInv, CreatedSound, AccountsGrow, Accounts!TypeOK
  <2>2. ASSUME NEW c \in created, c[1] \notin reset'
        PROVE  users'[c[1]].pw = c[2]
    <3>1. users[c[1]].pw = c[2] /\ Accounts!Exists(c[1])
      BY <2>2 DEF AccountsInv, CreatedSound
    <3> QED
      BY <1>3, <2>1, <2>2, <3>1
  <2> QED
    BY <2>1, <2>2 DEF AccountsInv, CreatedSound
<1> QED
  BY <1>5, <1>6, <1>7, <1>8, <1>9 DEF AccountsInv

\* The fallback of register: it noted its ground before.
LEMMA RegisterMarkKeeps ==
  ASSUME AccountsInv, NEW r \in Requests, Accounts!RegisterMark(r)
  PROVE  AccountsInv'
<1>1. PICK p : p = req[r]
  OBVIOUS
<1>2. /\ p.op = "register" /\ p.at = "mark" /\ p.user \in Emails /\ p.user \in grounds /\ Accounts!Exists(p.user)
  BY <1>1, HandlerSound DEF RequestSound, Accounts!RegisterMark, Accounts!At
<1>3. /\ UNCHANGED <<linked, links, expired, inbox, profile, sessions, served, created, reset, grounds>>
      /\ Accounts!Done(r)
  BY DEF Accounts!RegisterMark, Accounts!history
<1>4. CASE UNCHANGED users
  BY <1>3, <1>4, OthersStay, AccountsDone DEF AccountsQuiet
<1>5. CASE users' = [users EXCEPT ![p.user].verified = TRUE]
  <2>1. users[p.user] \in Accounts!User
    BY <1>2 DEF AccountsInv, Accounts!TypeOK, Accounts!Exists
  <2>2. PICK u : u = [users[p.user] EXCEPT !.verified = TRUE]
    OBVIOUS
  <2>3. u \in Accounts!User /\ u.verified /\ u.pw = users[p.user].pw
    BY <2>1, <2>2 DEF Accounts!User
  <2>4. users' = [users EXCEPT ![p.user] = u]
    BY <1>5, <2>2
  <2>5. grounds' \subseteq Emails /\ reset' \subseteq Emails
    BY <1>3 DEF AccountsInv, Accounts!TypeOK
  <2>6. Accounts!Idle.at # "issue" /\ req' = [req EXCEPT ![r] = Accounts!Idle]
    BY <1>3 DEF Accounts!Idle, Accounts!Done
  <2> QED
    BY <1>2, <1>3, <2>3, <2>4, <2>5, <2>6, IdleSound, AccountsWrites
<1> QED
  BY <1>1, <1>4, <1>5 DEF Accounts!RegisterMark

\* A spent link verifies its address, which its opening is a ground for, or
\* changes the password.
LEMMA ConsumeApplyKeeps ==
  ASSUME AccountsInv, NEW r \in Requests, Accounts!ConsumeApply(r)
  PROVE  AccountsInv'
<1>1. PICK p : p = req[r]
  OBVIOUS
<1>2. /\ p.op \in {"verify", "reset"} /\ p.at = "apply" /\ p.user \in Emails /\ Accounts!Exists(p.user)
      /\ p.op = "reset" => p.pw \in Passwords
      /\ p.op = "verify" => p.user \in grounds
  BY <1>1, HandlerSound DEF RequestSound, Accounts!ConsumeApply, Accounts!At
<1>3. /\ UNCHANGED <<linked, links, expired, inbox, profile, sessions, served, created, grounds>>
      /\ Accounts!Done(r)
      /\ reset' = IF p.op = "reset" THEN reset \cup {p.user} ELSE reset
  BY <1>1 DEF Accounts!ConsumeApply
<1>4. users[p.user] \in Accounts!User /\ users \in [Emails -> Accounts!User \cup {None}]
  BY <1>2 DEF AccountsInv, Accounts!TypeOK, Accounts!Exists
<1>5. PICK u : /\ users' = [users EXCEPT ![p.user] = u]
               /\ \/ u = users[p.user]
                  \/ p.op = "verify" /\ u = [pw |-> users[p.user].pw, verified |-> TRUE]
                  \/ p.op = "reset" /\ u = [pw |-> p.pw, verified |-> users[p.user].verified]
  <2>1. CASE UNCHANGED users
    <3>1. users' = [users EXCEPT ![p.user] = users[p.user]]
      BY <1>4, <2>1
    <3> QED
      BY <3>1
  <2>2. CASE users' = [users EXCEPT ![p.user] =
                         IF p.op = "verify"
                         THEN [pw |-> users[p.user].pw, verified |-> TRUE]
                         ELSE [pw |-> p.pw, verified |-> users[p.user].verified]]
    BY <1>2, <2>2
  <2> QED
    BY <1>1, <2>1, <2>2 DEF Accounts!ConsumeApply
<1>6. u \in Accounts!User
  <2>1. PICK pw, v : /\ users[p.user] = [pw |-> pw, verified |-> v]
                     /\ pw \in Passwords \cup {None} /\ v \in BOOLEAN
    BY <1>4 DEF Accounts!User
  <2>2. CASE u = [pw |-> users[p.user].pw, verified |-> TRUE]
    BY <2>1, <2>2 DEF Accounts!User
  <2>3. CASE p.op = "reset" /\ u = [pw |-> p.pw, verified |-> users[p.user].verified]
    BY <1>2, <2>1, <2>3 DEF Accounts!User
  <2> QED
    BY <1>4, <1>5, <2>2, <2>3
<1>7. users[p.user].verified => u.verified
  BY <1>5
<1>8. EmailOn /\ u.verified => p.user \in grounds
  BY <1>2, <1>5 DEF AccountsInv, Accounts!VerifiedForAReason
<1>9. p.user \in reset' \/ u.pw = users[p.user].pw
  BY <1>3, <1>5
<1>10. grounds \subseteq grounds' /\ grounds' \subseteq Emails /\ reset \subseteq reset' /\ reset' \subseteq Emails
  BY <1>2, <1>3 DEF AccountsInv, Accounts!TypeOK
<1>11. Accounts!Idle.at # "issue" /\ req' = [req EXCEPT ![r] = Accounts!Idle]
  BY <1>3 DEF Accounts!Idle, Accounts!Done
<1>12. Accounts!Exists(p.user) /\ users[p.user].verified => u.verified
  BY <1>7
<1>13. EmailOn /\ u.verified => p.user \in grounds'
  BY <1>8, <1>3
<1> QED
  BY <1>2, <1>3, <1>5, <1>6, <1>9, <1>10, <1>11, <1>12, <1>13, IdleSound, AccountsWrites

\* A sign-in with a provider creates the account as the provider vouches for it.
LEMMA OAuthCreateKeeps ==
  ASSUME AccountsInv, NEW r \in Requests, Accounts!OAuthCreate(r)
  PROVE  AccountsInv'
<1>1. PICK p : p = req[r]
  OBVIOUS
<1>2. /\ p \in Accounts!Request /\ RequestSound(p)
      /\ p.op = "oauth" /\ p.at = "create" /\ p.user \in Emails /\ p.verified \in BOOLEAN
  BY <1>1, HandlerSound DEF RequestSound, Accounts!OAuthCreate, Accounts!At, Accounts!Request
<1>3. /\ UNCHANGED <<linked, links, expired, inbox, profile, sessions, served, created, reset>>
      /\ grounds' = IF p.verified THEN grounds \cup {p.user} ELSE grounds
  BY <1>1 DEF Accounts!OAuthCreate
<1>4. grounds \subseteq grounds' /\ grounds' \subseteq Emails /\ reset' \subseteq Emails
  BY <1>2, <1>3 DEF AccountsInv, Accounts!TypeOK
<1>5. CASE UNCHANGED users /\ Accounts!Done(r)
  <2>1. OthersTyped
    BY <1>3, <1>4 DEF OthersTyped, AccountsInv, Accounts!TypeOK
  <2> QED
    BY <1>3, <1>4, <1>5, <2>1, AccountsDone DEF AccountsQuiet
<1>6. CASE /\ ~Accounts!Exists(p.user) /\ Accounts!InsertUser(p.user, None, p.verified)
           /\ Accounts!Done(r) \/ Accounts!Go(r, "link")
  <2>1. PICK u : u = [pw |-> None, verified |-> p.verified]
    OBVIOUS
  <2>2. u \in Accounts!User /\ u.verified = p.verified /\ u # None
    BY <1>2, <2>1, PlatformAssumption DEF Accounts!User
  <2>3. users' = [users EXCEPT ![p.user] = u]
    BY <1>6, <2>1 DEF Accounts!InsertUser
  <2>4. /\ users \in [Emails -> Accounts!User \cup {None}] /\ req \in [Requests -> Accounts!Request]
    BY DEF AccountsInv, Accounts!TypeOK
  <2>5. Accounts!Exists(p.user)'
    BY <1>2, <2>2, <2>3, <2>4 DEF Accounts!Exists
  <2>6. PICK q : q = IF Accounts!Done(r) THEN Accounts!Idle ELSE [p EXCEPT !.at = "link"]
    OBVIOUS
  <2>7. /\ req' = [req EXCEPT ![r] = q] /\ q \in Accounts!Request /\ q.at # "issue" /\ RequestSound(q)'
    <3>1. CASE Accounts!Done(r)
      BY <2>6, <3>1, IdleSound DEF Accounts!Done, Accounts!Idle
    <3>2. CASE ~Accounts!Done(r)
      <4>1. q = [p EXCEPT !.at = "link"] /\ Accounts!Go(r, "link")
        BY <1>6, <2>6, <3>2
      <4>2. q \in Accounts!Request /\ q.at = "link" /\ q.op = "oauth" /\ q.user = p.user /\ q.acct = p.acct
        BY <1>2, <4>1 DEF Accounts!Request, Accounts!Steps
      <4>3. req' = [req EXCEPT ![r] = q]
        BY <1>1, <2>4, <4>1 DEF Accounts!Go
      <4>4. RequestSound(q)'
        BY <1>2, <2>5, <4>2 DEF RequestSound, StepsOf
      <4> QED
        BY <4>2, <4>3, <4>4
    <3> QED
      BY <3>1, <3>2
  <2>8. EmailOn /\ u.verified => p.user \in grounds'
    BY <1>3, <2>2
  <2> QED
    BY <1>2, <1>3, <1>4, <1>6, <2>2, <2>3, <2>7, <2>8, AccountsWrites
<1> QED
  BY <1>1, <1>5, <1>6 DEF Accounts!OAuthCreate

\* Who signs in with a password has a verified account.
LEMMA LoginKeeps ==
  ASSUME AccountsInv, NEW r \in Requests, Accounts!Login(r)
  PROVE  AccountsInv'
<1>1. PICK e \in Emails :
        /\ Accounts!Exists(e) /\ users[e].verified
        /\ sessions' = sessions \cup {[user |-> e, via |-> None]}
  BY DEF Accounts!Login
<1>2. /\ UNCHANGED <<users, linked, links, expired, inbox, profile, req, created, reset, grounds>>
      /\ served' \in 0..MaxRequests
  BY PlatformAssumption
     DEF Accounts!Login, Accounts!Accept, Accounts!db, Accounts!history, AccountsInv, Accounts!TypeOK
<1>3. Accounts!TypeOK'
  BY <1>1, <1>2 DEF AccountsInv, Accounts!TypeOK, Accounts!Session
<1>4. (\A s \in Requests : RequestSound(req[s]))'
  BY <1>2 DEF AccountsInv, RequestSound, Accounts!Exists
<1>5. LinksSound' /\ SeenSound' /\ Accounts!OneLiveLink' /\ Accounts!VerifiedForAReason' /\ CreatedSound'
  BY <1>2 DEF AccountsInv, LinksSound, SeenSound, Accounts!OneLiveLink, Accounts!VerifiedForAReason,
              CreatedSound, Accounts!Exists
<1>6. SessionsSound'
  BY <1>1, <1>2 DEF AccountsInv, SessionsSound, Accounts!Exists
<1> QED
  BY <1>3, <1>4, <1>5, <1>6 DEF AccountsInv

\* A sign-in with a provider answers, and links its account at most once.
LEMMA AccountsSigns ==
  ASSUME AccountsInv, NEW r \in Requests, Accounts!Done(r),
         NEW a \in Accounts!Accts, NEW e \in Emails,
         UNCHANGED <<users, links, expired, inbox, profile, served, created, reset, grounds>>,
         \/ UNCHANGED linked
         \/ linked[a] = None /\ linked' = [linked EXCEPT ![a] = e],
         \/ UNCHANGED sessions
         \/ linked'[a] = e /\ sessions' = sessions \cup {[user |-> e, via |-> a]}
  PROVE  AccountsInv'
<1>1. /\ linked \in [Accounts!Accts -> Emails \cup {None}] /\ sessions \subseteq Accounts!Session
      /\ req \in [Requests -> Accounts!Request]
  BY DEF AccountsInv, Accounts!TypeOK
<1>2. /\ linked' \in [Accounts!Accts -> Emails \cup {None}]
      /\ \A b \in Accounts!Accts : linked[b] # None => linked'[b] = linked[b]
  BY <1>1
<1>3. \A s \in sessions' : s \in sessions \/ (s = [user |-> e, via |-> a] /\ linked'[a] = e)
  <2>1. CASE UNCHANGED sessions
    BY ONLY <2>1
  <2>2. CASE linked'[a] = e /\ sessions' = sessions \cup {[user |-> e, via |-> a]}
    BY <2>2
  <2> QED
    BY <2>1, <2>2
<1>4. a # None
  BY PlatformAssumption DEF Accounts!Accts
<1>5. sessions' \subseteq Accounts!Session
  BY <1>1 DEF Accounts!Session
<1>6. /\ req' = [req EXCEPT ![r] = Accounts!Idle] /\ req' \in [Requests -> Accounts!Request]
      /\ Accounts!Idle.at # "issue"
  BY <1>1, IdleSound DEF Accounts!Done, Accounts!Idle
<1>7. Accounts!TypeOK'
  BY <1>2, <1>5, <1>6 DEF AccountsInv, Accounts!TypeOK
<1>8. AccountsGrow
  BY DEF AccountsGrow, Accounts!Exists
<1>9. /\ (\A s \in Requests : RequestSound(req[s]))'
      /\ LinksSound' /\ SeenSound' /\ Accounts!OneLiveLink'
  BY <1>6, <1>7, <1>8, IdleSound, AccountsMoves
<1>10. Accounts!VerifiedForAReason' /\ CreatedSound'
  BY DEF AccountsInv, Accounts!VerifiedForAReason, CreatedSound, Accounts!Exists
<1>11. SessionsSound'
  <2>1. ASSUME NEW s \in sessions, s.via = None
        PROVE  Accounts!Exists(s.user)' /\ users'[s.user].verified
    BY <2>1 DEF AccountsInv, SessionsSound, Accounts!Exists
  <2>2. ASSUME NEW s \in sessions, s.via # None
        PROVE  linked'[s.via] = s.user
    <3>1. s.via \in Accounts!Accts /\ s.user \in Emails
      BY <1>1, <2>2 DEF Accounts!Session
    <3>2. linked[s.via] = s.user /\ s.user # None
      BY <2>2, <3>1, PlatformAssumption DEF AccountsInv, SessionsSound
    <3> QED
      BY <1>2, <3>1, <3>2
  <2> QED
    BY <1>3, <1>4, <2>1, <2>2 DEF SessionsSound
<1> QED
  BY <1>7, <1>9, <1>10, <1>11 DEF AccountsInv

LEMMA OAuthLinkKeeps ==
  ASSUME AccountsInv, NEW r \in Requests, Accounts!OAuthLink(r)
  PROVE  AccountsInv'
<1>1. PICK p : p = req[r]
  OBVIOUS
<1>2. p.op = "oauth" /\ p.user \in Emails /\ p.acct \in Accounts!Accts
  BY <1>1, HandlerSound DEF RequestSound, Accounts!OAuthLink, Accounts!At
<1>3. UNCHANGED <<users, links, expired, inbox, profile, served, created, reset, grounds>> /\ Accounts!Done(r)
  BY DEF Accounts!OAuthLink, Accounts!history
<1>4. linked \in [Accounts!Accts -> Emails \cup {None}]
  BY DEF AccountsInv, Accounts!TypeOK
<1>5. /\ \/ UNCHANGED linked
         \/ linked[p.acct] = None /\ linked' = [linked EXCEPT ![p.acct] = p.user]
      /\ \/ UNCHANGED sessions
         \/ linked'[p.acct] = p.user /\ sessions' = sessions \cup {[user |-> p.user, via |-> p.acct]}
  BY <1>1, <1>2, <1>4 DEF Accounts!OAuthLink, Accounts!Threw, Accounts!SignIn
<1> QED
  BY <1>2, <1>3, <1>5, AccountsSigns

LEMMA OAuthLinkedKeeps ==
  ASSUME AccountsInv, NEW r \in Requests, Accounts!OAuthLinked(r)
  PROVE  AccountsInv'
<1>1. PICK p : p = req[r]
  OBVIOUS
<1>2. /\ p \in Accounts!Request /\ RequestSound(p)
      /\ p.op = "oauth" /\ p.at = "linked" /\ p.user \in Emails /\ p.acct \in Accounts!Accts
  BY <1>1, HandlerSound DEF RequestSound, Accounts!OAuthLinked, Accounts!At
<1>3. UNCHANGED <<users, linked, links, expired, inbox, profile, served, created, reset, grounds>>
  BY DEF Accounts!OAuthLinked, Accounts!db, Accounts!history
<1>4. linked \in [Accounts!Accts -> Emails \cup {None}]
  BY DEF AccountsInv, Accounts!TypeOK
<1>5. CASE linked[p.acct] # None /\ Accounts!SignIn(r, linked[p.acct]) /\ Accounts!Done(r)
  <2>1. PICK e \in Emails : e = linked[p.acct]
    BY <1>2, <1>4, <1>5
  <2>2. linked'[p.acct] = e /\ sessions' = sessions \cup {[user |-> e, via |-> p.acct]}
    BY <1>1, <1>3, <1>5, <2>1 DEF Accounts!SignIn
  <2> QED
    BY <1>2, <1>3, <1>5, <2>2, AccountsSigns
<1>6. CASE UNCHANGED sessions /\ Accounts!Done(r)
  BY <1>3, <1>6, OthersStay, AccountsDone DEF AccountsQuiet
<1>7. CASE UNCHANGED sessions /\ Accounts!Go(r, "byEmail")
  <2>1. RequestSound([p EXCEPT !.at = "byEmail"])'
    BY <1>2 DEF RequestSound, StepsOf, Accounts!Request
  <2>2. AccountsQuiet /\ OthersTyped /\ grounds \subseteq grounds' /\ links' \subseteq links
    BY <1>3, <1>7, OthersStay DEF AccountsQuiet
  <2> QED
    BY <1>1, <1>7, <2>1, <2>2, AccountsGoes DEF Accounts!Steps
<1> QED
  BY <1>1, <1>5, <1>6, <1>7 DEF Accounts!OAuthLinked

\* A link is inserted under a token nobody has seen; who is about to insert one
\* for the same user has seen it drawn.
LEMMA IssueInsertKeeps ==
  ASSUME AccountsInv, NEW r \in Requests, Accounts!IssueInsert(r)
  PROVE  AccountsInv'
<1>1. PICK p, t : p = req[r] /\ t = Accounts!Fresh
  OBVIOUS
<1>2. /\ p \in Accounts!Request /\ RequestSound(p)
      /\ p.op \in {"register", "forgot", "resend"} /\ p.at = "issue" /\ p.user \in Emails
      /\ p.seen \subseteq Tokens
  BY <1>1, HandlerSound DEF RequestSound, Accounts!IssueInsert, Accounts!At, Accounts!Request
<1>3. t \in Tokens /\ Accounts!Forgotten(t)
  BY <1>1 DEF Accounts!IssueInsert, Accounts!Fresh
<1>4. /\ req \in [Requests -> Accounts!Request] /\ links \subseteq Accounts!Link
      /\ users \in [Emails -> Accounts!User \cup {None}] /\ grounds \subseteq Emails
  BY DEF AccountsInv, Accounts!TypeOK
<1>5. PICK kind, row : /\ kind = Accounts!KindOf(p.op)
                       /\ row = [kind |-> kind, id |-> t, user |-> p.user, over |-> p.seen]
  OBVIOUS
<1>6. kind \in Accounts!Kinds /\ row \in Accounts!Link
  BY <1>2, <1>3, <1>5 DEF Accounts!KindOf, Accounts!Kinds, Accounts!Link
<1>7. row.kind = kind /\ row.id = t /\ row.user = p.user /\ row.over = p.seen
  BY <1>5
<1>8. PICK rivals : rivals = {s \in Requests \ {r} :
                                /\ Accounts!At(s, {"register", "forgot", "resend"}, "issue")
                                /\ Accounts!KindOf(req[s].op) = kind /\ req[s].user = p.user}
  OBVIOUS
<1>9. PICK noted : noted = [s \in Requests |->
                              IF s \in rivals
                              THEN [req[s] EXCEPT !.seen = @ \cup {t}] ELSE req[s]]
  OBVIOUS
<1>10. /\ links' \in {links, links \cup {row}}
       /\ expired' = expired \ {t}
       /\ UNCHANGED <<users, linked, inbox, profile, sessions, created, reset, served>>
       /\ \/ /\ req' = [noted EXCEPT ![r].at = "send", ![r].tok = t]
             /\ UNCHANGED grounds
          \/ /\ req' = [noted EXCEPT ![r].at = "mark"] /\ p.op = "register"
             /\ grounds' = grounds \cup {p.user}
          \/ /\ req' = [noted EXCEPT ![r] = Accounts!Idle]
             /\ UNCHANGED grounds
  BY <1>1, <1>5, <1>8, <1>9 DEF Accounts!IssueInsert, Accounts!Threw
<1>11. noted[r] = p /\ DOMAIN noted = Requests
  BY <1>1, <1>8, <1>9
<1>12. PICK q : /\ req' = [noted EXCEPT ![r] = q]
                /\ \/ q = [p EXCEPT !.at = "send", !.tok = t]
                   \/ q = [p EXCEPT !.at = "mark"] /\ p.op = "register" /\ p.user \in grounds'
                   \/ q = Accounts!Idle
  <2>1. CASE req' = [noted EXCEPT ![r].at = "send", ![r].tok = t]
    <3>1. req' = [noted EXCEPT ![r] = [p EXCEPT !.at = "send", !.tok = t]]
      BY <1>9, <1>11, <2>1
    <3> QED
      BY <3>1
  <2>2. CASE req' = [noted EXCEPT ![r].at = "mark"] /\ p.op = "register" /\ grounds' = grounds \cup {p.user}
    <3>1. req' = [noted EXCEPT ![r] = [p EXCEPT !.at = "mark"]] /\ p.user \in grounds'
      BY <1>11, <2>2
    <3> QED
      BY <2>2, <3>1
  <2>3. CASE req' = [noted EXCEPT ![r] = Accounts!Idle]
    BY <2>3
  <2> QED
    BY <1>10, <2>1, <2>2, <2>3
<1>13. \A s \in Requests : req'[s] = IF s = r THEN q
                                     ELSE IF s \in rivals THEN [req[s] EXCEPT !.seen = @ \cup {t}] ELSE req[s]
  BY <1>9, <1>12
<1>14. /\ AccountsQuiet /\ AccountsGrow /\ grounds \subseteq grounds' /\ grounds' \subseteq Emails
       /\ \A e : Accounts!Exists(e)' <=> Accounts!Exists(e)
  BY <1>2, <1>4, <1>10 DEF AccountsQuiet, AccountsGrow, Accounts!Exists
<1>15. q \in Accounts!Request /\ q.at # "issue" /\ RequestSound(q)'
  <2>1. Accounts!Exists(p.user)'
    BY <1>2, <1>14 DEF RequestSound
  <2>2. CASE q = [p EXCEPT !.at = "send", !.tok = t]
    <3>1. /\ q \in Accounts!Request /\ q.at = "send" /\ q.tok = t
          /\ q.op = p.op /\ q.user = p.user /\ q.pw = p.pw
      BY <1>2, <1>3, <2>2 DEF Accounts!Request, Accounts!Steps
    <3> QED
      BY <1>2, <1>3, <2>1, <3>1 DEF RequestSound, StepsOf
  <2>3. CASE q = [p EXCEPT !.at = "mark"] /\ p.op = "register" /\ p.user \in grounds'
    <3>1. /\ q \in Accounts!Request /\ q.at = "mark"
          /\ q.op = p.op /\ q.user = p.user /\ q.pw = p.pw
      BY <1>2, <1>3, <2>3 DEF Accounts!Request, Accounts!Steps
    <3> QED
      BY <1>2, <2>1, <2>3, <3>1 DEF RequestSound, StepsOf
  <2>4. CASE q = Accounts!Idle
    BY <2>4, IdleSound DEF Accounts!Idle
  <2> QED
    BY <1>12, <2>2, <2>3, <2>4
<1>16. \A s \in Requests : s # r =>
         /\ req'[s] \in Accounts!Request
         /\ req'[s].op = req[s].op /\ req'[s].at = req[s].at /\ req'[s].user = req[s].user
         /\ req'[s].pw = req[s].pw /\ req'[s].tok = req[s].tok /\ req'[s].acct = req[s].acct
         /\ req[s].seen \subseteq req'[s].seen
         /\ s \in rivals => t \in req'[s].seen
         /\ req'[s] = req[s] \/ req[s].op \in {"register", "forgot", "resend"}
  <2> SUFFICES ASSUME NEW s \in Requests, s # r
               PROVE  /\ req'[s] \in Accounts!Request
                      /\ req'[s].op = req[s].op /\ req'[s].at = req[s].at /\ req'[s].user = req[s].user
                      /\ req'[s].pw = req[s].pw /\ req'[s].tok = req[s].tok /\ req'[s].acct = req[s].acct
                      /\ req[s].seen \subseteq req'[s].seen
                      /\ s \in rivals => t \in req'[s].seen
                      /\ req'[s] = req[s] \/ req[s].op \in {"register", "forgot", "resend"}
    OBVIOUS
  <2>1. req[s] \in Accounts!Request
    BY <1>4
  <2>2. CASE s \in rivals
    <3>1. req'[s] = [req[s] EXCEPT !.seen = @ \cup {t}]
      BY <1>13, <2>2
    <3>2. req[s].op \in {"register", "forgot", "resend"}
      BY <1>8, <2>2 DEF Accounts!At
    <3>3. PICK m : m = req[s]
      OBVIOUS
    <3>4. req'[s] = [m EXCEPT !.seen = m.seen \cup {t}] /\ m \in Accounts!Request
      BY <2>1, <3>1, <3>3
    <3>5. /\ req'[s] \in Accounts!Request /\ req'[s].seen = m.seen \cup {t}
          /\ req'[s].op = m.op /\ req'[s].at = m.at /\ req'[s].user = m.user
          /\ req'[s].pw = m.pw /\ req'[s].tok = m.tok /\ req'[s].acct = m.acct
      BY ONLY <1>3, <3>4 DEF Accounts!Request
    <3> QED
      BY <3>2, <3>3, <3>5
  <2>3. CASE s \notin rivals
    BY <1>13, <2>1, <2>3
  <2> QED
    BY <2>2, <2>3
<1>17. Accounts!TypeOK'
  <2>1. req' \in [Requests -> Accounts!Request]
    <3>1. req' = [s \in Requests |-> req'[s]]
      BY <1>9, <1>12
    <3>2. \A s \in Requests : req'[s] \in Accounts!Request
      BY <1>13, <1>15, <1>16
    <3> QED
      BY <3>1, <3>2
  <2>2. links' \subseteq Accounts!Link
    BY <1>4, <1>6, <1>10
  <2> QED
    BY <1>10, <1>14, <2>1, <2>2 DEF AccountsInv, Accounts!TypeOK
<1>18. ASSUME NEW s \in Requests
       PROVE  RequestSound(req[s])'
  <2>1. CASE s = r
    <3>1. req'[s] = q
      BY <1>13, <2>1
    <3> QED
      BY <1>15, <3>1 DEF RequestSound
  <2>2. CASE s # r
    <3>1. PICK m : m = req'[s]
      OBVIOUS
    <3>2. m \in Accounts!Request
      BY <1>16, <2>2, <3>1
    <3>3. RequestSound(m)
      <4>1. RequestSound(req[s])
        BY HandlerSound
      <4>2. CASE m = req[s]
        BY <4>1, <4>2
      <4>3. CASE req[s].op \in {"register", "forgot", "resend"}
        BY <1>16, <2>2, <3>1, <4>1, <4>3 DEF RequestSound
      <4> QED
        BY <1>16, <2>2, <3>1, <4>2, <4>3
    <3>4. t # m.tok
      BY <1>3, <1>16, <2>2, <3>1 DEF Accounts!Forgotten
    <3>5. \A l \in links' : l \in links \/ l.id # m.tok
      BY <1>7, <1>10, <3>4
    <3>6. RequestSound(m)'
      BY <1>14, <3>2, <3>3, <3>5, SoundStays
    <3> QED
      BY <3>1, <3>6 DEF RequestSound
  <2> QED
    BY <2>1, <2>2
<1>19. LinksSound'
  BY <1>2, <1>7, <1>10, <1>14 DEF AccountsInv, LinksSound, RequestSound
<1>20. SeenSound'
  <2> SUFFICES ASSUME NEW s \in Requests, req'[s].at = "issue",
                      NEW l \in links', l.kind = Accounts!KindOf(req'[s].op), l.user = req'[s].user
               PROVE  l.id \in req'[s].seen
    BY DEF SeenSound
  <2>1. s # r
    BY <1>13, <1>15
  <2>2. req[s].at = "issue" /\ l.kind = Accounts!KindOf(req[s].op) /\ l.user = req[s].user
    BY <1>16, <2>1
  <2>3. CASE l \in links
    BY <1>16, <2>1, <2>2, <2>3 DEF AccountsInv, SeenSound
  <2>4. CASE l = row
    <3>1. req[s].op \in {"register", "forgot", "resend"}
      BY <2>2, HandlerSound DEF RequestSound, StepsOf, Accounts!Request, Accounts!Ops
    <3>2. s \in rivals
      BY <1>7, <1>8, <2>1, <2>2, <2>4, <3>1 DEF Accounts!At
    <3> QED
      BY <1>7, <1>16, <2>1, <2>4, <3>2
  <2> QED
    BY <1>10, <2>3, <2>4
<1>21. Accounts!OneLiveLink'
  <2>1. \A m \in links : m.kind = kind /\ m.user = p.user => m.id \in p.seen
    BY <1>1, <1>2, <1>5 DEF AccountsInv, SeenSound
  <2> QED
    BY <1>7, <1>10, <2>1 DEF AccountsInv, Accounts!OneLiveLink
<1>22. Accounts!VerifiedForAReason' /\ SessionsSound' /\ CreatedSound'
  BY <1>14, RestStays DEF AccountsInv
<1> QED
  BY <1>17, <1>18, <1>19, <1>20, <1>21, <1>22 DEF AccountsInv

---------------------------------------------------------------------------
(* Accounts: every step                                                    *)

LEMMA AccountsStarts == Accounts!Init => AccountsInv
<1> SUFFICES ASSUME Accounts!Init PROVE AccountsInv
  OBVIOUS
<1>1. /\ \A r \in Requests : req[r] = Accounts!Idle
      /\ \A e \in Emails : users[e] = None
      /\ links = {} /\ sessions = {} /\ created = {}
  BY DEF Accounts!Init
<1>2. Accounts!TypeOK
  <2>1. req \in [Requests -> Accounts!Request]
    BY IdleSound DEF Accounts!Init
  <2> QED
    BY <2>1, PlatformAssumption DEF Accounts!Init, Accounts!TypeOK
<1>3. \A r \in Requests : RequestSound(req[r])
  BY <1>1, IdleSound
<1>4. LinksSound /\ SeenSound /\ Accounts!OneLiveLink
  BY <1>1 DEF LinksSound, SeenSound, Accounts!OneLiveLink
<1>5. Accounts!VerifiedForAReason /\ SessionsSound /\ CreatedSound
  BY <1>1 DEF Accounts!VerifiedForAReason, SessionsSound, CreatedSound, Accounts!Exists
<1> QED
  BY <1>2, <1>3, <1>4, <1>5 DEF AccountsInv

LEMMA AccountsKeeps ==
  ASSUME AccountsInv, [Accounts!Next]_(Accounts!vars)
  PROVE  AccountsInv'
<1>1. ASSUME NEW r \in Requests, Accounts!Handler(r)
      PROVE  AccountsInv'
  BY <1>1, AccountsBeginKeeps, AccountsLookKeeps, RegisterInsertKeeps, RegisterMarkKeeps, IssueClearKeeps,
     IssueInsertKeeps, IssueSendKeeps, VerifyEmailKeeps, ConsumeSelectKeeps, ConsumeDeleteKeeps,
     ConsumeApplyKeeps, LoginKeeps, OAuthLinkedKeeps, OAuthCreateKeeps, OAuthLinkKeeps
     DEF Accounts!Handler
<1> QED
  BY <1>1, AccountsOutside DEF Accounts!Next

LEMMA AccountsHoldAlways ==
  ASSUME AccountsInv
  PROVE  /\ Accounts!VerifiedForAReason /\ Accounts!PasswordLoginVerified
         /\ Accounts!OneLiveLink /\ Accounts!SameAccountSameUser /\ Accounts!RegisteredOnce
BY DEF AccountsInv, SessionsSound, CreatedSound, Accounts!PasswordLoginVerified,
       Accounts!SameAccountSameUser, Accounts!RegisteredOnce

---------------------------------------------------------------------------
(* Billing: the inductive invariant                                        *)

\* Event i of w tells the webhook who the user's customer is.
Completes(w, i) == w[i].type = "completed"

\* Once the events of w before n are in, the customer of their user is c: the
\* last of them that names one names c, or c is the one stored.
CustomerIs(w, stored, n, c) ==
  /\ \A i \in 1..(n - 1) :
       Completes(w, i) /\ (\A j \in (i + 1)..(n - 1) : ~Completes(w, j)) => w[i].cust = c
  /\ (\A i \in 1..(n - 1) : ~Completes(w, i)) => stored = c

\* Once all events of w are in, their user is paid or not: so says the last
\* one, or the plan there is.
PaidIs(w, paid, b) ==
  /\ Len(w) > 0 => (w[Len(w)].active <=> b)
  /\ Len(w) = 0 => (paid <=> b)

\* A customer id is of one user, and so are the events.
Owns(u, c) == \E t \in subs : t.user = u /\ t.cust = c
CustomersOwned ==
  /\ \A s, t \in subs : s.cust = t.cust => s.user = t.user
  /\ \A s \in checkouts : s.cust # None => Owns(s.user, s.cust)
  /\ \A u \in Users : customer[u] # None => Owns(u, customer[u])
  /\ \A u \in Users : \A i \in 1..Len(wire[u]) : wire[u][i].user = u /\ Owns(u, wire[u][i].cust)

\* A user with one subscription at a time, whose events come in order: each
\* one on the wire will find the customer id it is matched by, so will the next
\* one, and the events lead to the state of the subscription.
UserSettles(u) ==
  /\ \A s, t \in subs : s.user = u /\ t.user = u /\ ~s.ended /\ ~t.ended => s = t
  /\ \A i \in 1..Len(wire[u]) : ~Completes(wire[u], i) => CustomerIs(wire[u], customer[u], i, wire[u][i].cust)
  /\ \A s \in subs : s.user = u /\ ~s.ended => CustomerIs(wire[u], customer[u], Len(wire[u]) + 1, s.cust)
  /\ PaidIs(wire[u], tier[u] = "paid", Billing!Live(u) # {})

WiresTyped == wire \in [Users -> Seq(Billing!Event)]
CompletedPays == \A u \in Users : \A i \in 1..Len(wire[u]) : Completes(wire[u], i) => wire[u][i].active

BillingInv ==
  /\ Billing!TypeOK /\ WiresTyped
  /\ \A s \in subs : s.active => ~s.ended
  /\ CompletedPays
  /\ CustomersOwned
  /\ \A u \in Users \ (doubled \cup overtaken) : UserSettles(u)

---------------------------------------------------------------------------
(* Billing: an event is posted, or one leaves                              *)

LEMMA Posted ==
  ASSUME NEW S, NEW w \in Seq(S), NEW e \in S
  PROVE  /\ Append(w, e) \in Seq(S) /\ Len(Append(w, e)) = Len(w) + 1
         /\ \A i \in 1..Len(w) : Append(w, e)[i] = w[i]
         /\ Append(w, e)[Len(w) + 1] = e
OBVIOUS

LEMMA OneLeaves ==
  ASSUME NEW S, NEW w \in Seq(S), NEW i \in 1..Len(w), NEW v, v = Billing!Without(w, i)
  PROVE  /\ v \in Seq(S) /\ Len(v) = Len(w) - 1
         /\ \A j \in 1..Len(v) : v[j] = IF j < i THEN w[j] ELSE w[j + 1]
<1>1. PICK m \in Nat : m = Len(w)
  OBVIOUS
<1>2. PICK a : a = SubSeq(w, 1, i - 1)
  OBVIOUS
<1>3. a \in Seq(S) /\ Len(a) = i - 1 /\ \A j \in 1..(i - 1) : a[j] = w[j]
  BY <1>2, SubSeqProperties
<1>4. PICK b : b = SubSeq(w, i + 1, m)
  OBVIOUS
<1>5. b \in Seq(S) /\ Len(b) = m - i /\ \A j \in 1..(m - i) : b[j] = w[j + i]
  <2>1. CASE i = m
    BY <1>1, <1>4, <2>1, SubSeqEmpty
  <2>2. CASE i < m
    <3>1. /\ SubSeq(w, i + 1, m) \in Seq(S) /\ Len(SubSeq(w, i + 1, m)) = m - (i + 1) + 1
          /\ \A j \in 1..(m - (i + 1) + 1) : SubSeq(w, i + 1, m)[j] = w[(i + 1) + j - 1]
      BY <1>1, <2>2, SubSeqProperties
    <3> QED
      BY <1>1, <1>4, <2>2, <3>1
  <2> QED
    BY <1>1, <2>1, <2>2
<1>6. v = a \o b
  BY <1>1, <1>2, <1>4 DEF Billing!Without
<1>7. /\ v \in Seq(S) /\ Len(v) = Len(a) + Len(b)
      /\ \A j \in 1..(Len(a) + Len(b)) : v[j] = IF j <= Len(a) THEN a[j] ELSE b[j - Len(a)]
  <2>1. a \in Seq(S) /\ b \in Seq(S)
    BY <1>3, <1>5
  <2>2. /\ a \o b \in Seq(S) /\ Len(a \o b) = Len(a) + Len(b)
        /\ \A j \in 1..(Len(a) + Len(b)) : (a \o b)[j] = IF j <= Len(a) THEN a[j] ELSE b[j - Len(a)]
    BY ONLY <2>1, ConcatProperties
  <2> QED
    BY <1>6, <2>2
<1>8. Len(v) = m - 1
  BY <1>1, <1>3, <1>5, <1>7
<1>9. ASSUME NEW j \in 1..(m - 1)
      PROVE  v[j] = IF j < i THEN w[j] ELSE w[j + 1]
  <2>1. CASE j < i
    BY <1>1, <1>3, <1>5, <1>7, <2>1
  <2>2. CASE ~(j < i)
    <3>1. j - (i - 1) \in 1..(m - i) /\ (j - (i - 1)) + i = j + 1
      BY <1>1, <2>2
    <3>2. v[j] = b[j - (i - 1)]
      <4>1. j \in 1..(Len(a) + Len(b)) /\ ~(j <= Len(a))
        BY <1>1, <1>3, <1>5, <2>2
      <4> QED
        BY <1>3, <1>7, <4>1
    <3> QED
      BY <1>5, <2>2, <3>1, <3>2
  <2> QED
    BY <2>1, <2>2
<1> QED
  BY <1>1, <1>7, <1>8, <1>9

\* What the events before n say of the customer stays when one is posted.
LEMMA CustomerStays ==
  ASSUME NEW S, NEW w \in Seq(S), NEW e \in S, NEW stored, NEW c,
         NEW n \in 1..(Len(w) + 1), CustomerIs(w, stored, n, c)
  PROVE  CustomerIs(Append(w, e), stored, n, c)
<1>1. PICK v : v = Append(w, e)
  OBVIOUS
<1>2. \A i \in 1..(n - 1) : v[i] = w[i]
  BY <1>1, Posted
<1>3. ASSUME NEW i \in 1..(n - 1), Completes(v, i), \A j \in (i + 1)..(n - 1) : ~Completes(v, j)
      PROVE  v[i].cust = c
  BY <1>2, <1>3 DEF CustomerIs, Completes
<1>4. (\A i \in 1..(n - 1) : ~Completes(v, i)) => stored = c
  BY <1>2 DEF CustomerIs, Completes
<1> QED
  BY <1>1, <1>3, <1>4 DEF CustomerIs

\* ... and so it does after the new one, or that names c.
LEMMA CustomerAfter ==
  ASSUME NEW S, NEW w \in Seq(S), NEW e \in S, NEW stored, NEW c,
         \/ e.type = "completed" /\ e.cust = c
         \/ e.type # "completed" /\ CustomerIs(w, stored, Len(w) + 1, c)
  PROVE  CustomerIs(Append(w, e), stored, Len(w) + 2, c)
<1>1. PICK v : v = Append(w, e)
  OBVIOUS
<1>2. PICK m \in Nat : m = Len(w)
  OBVIOUS
<1>3. (\A i \in 1..m : v[i] = w[i]) /\ v[m + 1] = e
  BY <1>1, <1>2, Posted
<1>4. CASE e.type = "completed" /\ e.cust = c
  <2>1. Completes(v, m + 1) /\ v[m + 1].cust = c
    BY <1>3, <1>4 DEF Completes
  <2>2. ASSUME NEW i \in 1..(m + 1), \A j \in (i + 1)..(m + 1) : ~Completes(v, j)
        PROVE  i = m + 1
    BY <2>1, <2>2
  <2> QED
    BY <1>1, <1>2, <2>1, <2>2 DEF CustomerIs
<1>5. CASE e.type # "completed" /\ CustomerIs(w, stored, m + 1, c)
  <2>1. ~Completes(v, m + 1)
    BY <1>3, <1>5 DEF Completes
  <2>2. \A i \in 1..m : Completes(v, i) <=> Completes(w, i)
    BY <1>3 DEF Completes
  <2>3. ASSUME NEW i \in 1..(m + 1), Completes(v, i), \A j \in (i + 1)..(m + 1) : ~Completes(v, j)
        PROVE  v[i].cust = c
    <3>1. i \in 1..m /\ v[i] = w[i] /\ Completes(w, i)
      BY <1>3, <2>1, <2>2, <2>3
    <3>2. \A j \in (i + 1)..m : ~Completes(w, j)
      BY <2>2, <2>3
    <3> QED
      BY <1>5, <3>1, <3>2 DEF CustomerIs
  <2>4. (\A i \in 1..(m + 1) : ~Completes(v, i)) => stored = c
    BY <1>5, <2>2 DEF CustomerIs
  <2> QED
    BY <1>1, <1>2, <2>3, <2>4 DEF CustomerIs
<1> QED
  BY <1>2, <1>4, <1>5

\* The oldest event has been applied and leaves.
LEMMA CustomerShifts ==
  ASSUME NEW w, NEW v, NEW m \in Nat, \A i \in 1..(m - 1) : v[i] = w[i + 1],
         NEW c, NEW n \in 2..(m + 1), NEW old, NEW new,
         CustomerIs(w, old, n, c),
         IF Completes(w, 1) THEN new = w[1].cust ELSE new = old
  PROVE  CustomerIs(v, new, n - 1, c)
<1>1. \A i \in 1..(n - 2) : v[i] = w[i + 1] /\ (Completes(v, i) <=> Completes(w, i + 1))
  BY DEF Completes
<1>2. ASSUME NEW i \in 1..(n - 2), Completes(v, i), \A j \in (i + 1)..(n - 2) : ~Completes(v, j)
      PROVE  v[i].cust = c
  <2>1. i + 1 \in 1..(n - 1) /\ Completes(w, i + 1)
    BY <1>1, <1>2
  <2>2. ASSUME NEW j \in (i + 2)..(n - 1)
        PROVE  ~Completes(w, j)
    <3>1. j - 1 \in 1..(n - 2) /\ j - 1 \in (i + 1)..(n - 2) /\ (j - 1) + 1 = j
      OBVIOUS
    <3> QED
      BY <1>1, <1>2, <3>1
  <2>3. w[i + 1].cust = c
    BY <2>1, <2>2 DEF CustomerIs
  <2> QED
    BY <1>1, <2>3
<1>3. ASSUME \A i \in 1..(n - 2) : ~Completes(v, i)
      PROVE  new = c
  <2>1. ASSUME NEW j \in 2..(n - 1)
        PROVE  ~Completes(w, j)
    <3>1. j - 1 \in 1..(n - 2) /\ (j - 1) + 1 = j
      OBVIOUS
    <3> QED
      BY <1>1, <1>3, <3>1
  <2>2. CASE Completes(w, 1)
    BY <2>1, <2>2 DEF CustomerIs
  <2>3. CASE ~Completes(w, 1)
    BY <2>1, <2>3 DEF CustomerIs
  <2> QED
    BY <2>2, <2>3
<1>4. (n - 1) - 1 = n - 2
  OBVIOUS
<1> QED
  BY <1>2, <1>3, <1>4 DEF CustomerIs

---------------------------------------------------------------------------
(* Billing: the steps                                                      *)

LEMMA BillingStarts == Billing!Init => BillingInv
<1> SUFFICES ASSUME Billing!Init PROVE BillingInv
  OBVIOUS
<1>1. /\ wire = [u \in Users |-> <<>>] /\ subs = {} /\ checkouts = {} /\ doubled = {} /\ overtaken = {}
      /\ tier = [u \in Users |-> "free"] /\ customer = [u \in Users |-> None]
  BY DEF Billing!Init
<1>2. \A u \in Users : wire[u] = <<>> /\ Len(wire[u]) = 0 /\ wire[u] \in Seq(Billing!Event)
  BY <1>1
<1>3. Billing!TypeOK
  BY <1>1, <1>2, PlatformAssumption DEF Billing!TypeOK, Billing!Plans
<1>4. WiresTyped
  BY <1>1, <1>2 DEF WiresTyped
<1>5. CustomersOwned
  BY <1>1, <1>2 DEF CustomersOwned
<1>6. ASSUME NEW u \in Users
      PROVE  UserSettles(u)
  <2>1. tier[u] # "paid" /\ Billing!Live(u) = {}
    BY <1>1 DEF Billing!Live
  <2>2. PaidIs(wire[u], tier[u] = "paid", Billing!Live(u) # {})
    BY <1>2, <2>1 DEF PaidIs
  <2> QED
    BY <1>1, <1>2, <2>2 DEF UserSettles
<1> QED
  BY <1>1, <1>2, <1>3, <1>4, <1>5, <1>6 DEF BillingInv, CompletedPays

\* What is about somebody else changes nothing for a user.
LEMMA OthersSettle ==
  ASSUME NEW u \in Users, UserSettles(u), wire'[u] = wire[u], tier'[u] = tier[u], customer'[u] = customer[u],
         \A s : s.user = u => (s \in subs' <=> s \in subs)
  PROVE  UserSettles(u)'
<1>1. Billing!Live(u)' = Billing!Live(u)
  BY DEF Billing!Live
<1>2. \A s, t \in subs' : s.user = u /\ t.user = u /\ ~s.ended /\ ~t.ended => s = t
  BY DEF UserSettles
<1>3. PICK w, stored, paid : w = wire[u] /\ stored = customer[u] /\ paid = (tier[u] = "paid")
  OBVIOUS
<1>4. \A i \in 1..Len(w) : ~Completes(w, i) => CustomerIs(w, stored, i, w[i].cust)
  BY <1>3 DEF UserSettles
<1>5. \A s \in subs' : s.user = u /\ ~s.ended => CustomerIs(w, stored, Len(w) + 1, s.cust)
  BY <1>3 DEF UserSettles
<1>6. PaidIs(w, paid, Billing!Live(u) # {})
  BY <1>3 DEF UserSettles
<1>7. wire'[u] = w /\ customer'[u] = stored /\ (tier'[u] = "paid") = paid
  BY <1>3
<1> QED
  BY <1>1, <1>2, <1>4, <1>5, <1>6, <1>7 DEF UserSettles

\* An event about the user is posted: it says what the subscription became, and
\* the customer id it carries is the one the webhook will know.
LEMMA OwnerSettles ==
  ASSUME BillingInv, NEW u \in Users, NEW e \in Billing!Event, wire'[u] = Append(wire[u], e),
         UNCHANGED <<tier, customer>>, UserSettles(u),
         \A s, t \in subs' : s.user = u /\ t.user = u /\ ~s.ended /\ ~t.ended => s = t,
         \A s \in subs' : s.user = u /\ ~s.ended => s.cust = e.cust,
         e.type = "completed" \/ CustomerIs(wire[u], customer[u], Len(wire[u]) + 1, e.cust),
         e.active <=> (Billing!Live(u)' # {})
  PROVE  UserSettles(u)'
<1>1. PICK w, v, stored : w = wire[u] /\ v = wire'[u] /\ stored = customer[u]
  OBVIOUS
<1>2. w \in Seq(Billing!Event) /\ Len(w) \in Nat
  BY <1>1 DEF BillingInv, WiresTyped
<1>3. /\ v = Append(w, e) /\ Len(v) = Len(w) + 1
      /\ \A i \in 1..Len(w) : v[i] = w[i]
      /\ v[Len(w) + 1] = e
  BY <1>1, <1>2, Posted
<1>4. e.type = "completed" \/ CustomerIs(w, stored, Len(w) + 1, e.cust)
  BY <1>1
<1>5. ASSUME NEW i \in 1..(Len(w) + 1), ~Completes(v, i)
      PROVE  CustomerIs(v, stored, i, v[i].cust)
  <2>1. CASE i \in 1..Len(w)
    <3>1. v[i] = w[i] /\ ~Completes(w, i)
      BY <1>3, <1>5, <2>1 DEF Completes
    <3>2. CustomerIs(w, stored, i, w[i].cust)
      BY <1>1, <2>1, <3>1 DEF UserSettles
    <3> QED
      BY <1>2, <1>3, <3>1, <3>2, CustomerStays
  <2>2. CASE i = Len(w) + 1
    <3>1. v[i] = e /\ e.type # "completed"
      BY <1>3, <1>5, <2>2 DEF Completes
    <3>2. CustomerIs(w, stored, i, e.cust)
      BY <1>4, <2>2, <3>1
    <3> QED
      BY <1>2, <1>3, <3>1, <3>2, CustomerStays
  <2>3. i \in 1..Len(w) \/ i = Len(w) + 1
    BY ONLY <1>2, <1>5
  <2> QED
    BY <2>1, <2>2, <2>3
<1>6. CustomerIs(v, stored, Len(w) + 2, e.cust)
  BY <1>2, <1>3, <1>4, CustomerAfter
<1>7. PICK paid, live : paid = (tier'[u] = "paid") /\ live = (Billing!Live(u)' # {})
  OBVIOUS
<1>8. PaidIs(v, paid, live)
  <2>1. e.active <=> live
    BY <1>7
  <2>2. v[Len(v)] = e /\ Len(v) # 0
    BY <1>2, <1>3
  <2> QED
    BY <2>1, <2>2 DEF PaidIs
<1>9. Len(v) + 1 = Len(w) + 2
  BY <1>2, <1>3
<1>10. customer'[u] = stored
  BY <1>1
<1> QED
  BY <1>1, <1>3, <1>5, <1>6, <1>7, <1>8, <1>9, <1>10 DEF UserSettles

\* Owners stay what they are when an event of its owner is posted.
LEMMA OwnersStay ==
  ASSUME BillingInv, NEW e \in Billing!Event, Billing!Post(e), UNCHANGED customer,
         checkouts' \subseteq checkouts,
         \A u, c : Owns(u, c) => Owns(u, c)', Owns(e.user, e.cust)',
         \A s, t \in subs' : s.cust = t.cust => s.user = t.user
  PROVE  CustomersOwned'
<1>0. \A u, c : Owns(u, c) => \E t \in subs' : t.user = u /\ t.cust = c
  BY DEF Owns
<1>1. WiresTyped /\ CustomersOwned /\ e.user \in Users
  BY DEF BillingInv, Billing!Event
<1>2. wire' = [wire EXCEPT ![e.user] = Append(@, e)]
  BY DEF Billing!Post
<1>3. ASSUME NEW u \in Users, NEW i \in 1..Len(wire'[u])
      PROVE  wire'[u][i].user = u /\ \E t \in subs' : t.user = u /\ t.cust = wire'[u][i].cust
  <2>1. PICK w : w = wire[u]
    OBVIOUS
  <2>2. w \in Seq(Billing!Event) /\ Len(w) \in Nat
    BY <1>1, <2>1 DEF WiresTyped
  <2>3. ASSUME NEW j \in 1..Len(w)
        PROVE  w[j].user = u /\ \E t \in subs' : t.user = u /\ t.cust = w[j].cust
    BY <1>0, <1>1, <2>1 DEF CustomersOwned
  <2>4. CASE u # e.user
    BY <1>1, <1>2, <2>1, <2>3, <2>4 DEF WiresTyped
  <2>5. CASE u = e.user
    <3>0. \E t \in subs' : t.user = u /\ t.cust = e.cust
      BY <2>5 DEF Owns
    <3>1. wire'[u] = Append(w, e)
      BY <1>1, <1>2, <2>1, <2>5 DEF WiresTyped
    <3>2. /\ Len(wire'[u]) = Len(w) + 1 /\ wire'[u][Len(w) + 1] = e
          /\ \A j \in 1..Len(w) : wire'[u][j] = w[j]
      BY <2>2, <3>1, Posted
    <3>3. i \in 1..Len(w) \/ i = Len(w) + 1
      BY <2>2, <3>2
    <3>4. CASE i \in 1..Len(w)
      BY <2>3, <3>2, <3>4
    <3>5. CASE i = Len(w) + 1
      BY <1>1, <2>5, <3>0, <3>2, <3>5
    <3> QED
      BY <3>3, <3>4, <3>5
  <2> QED
    BY <2>4, <2>5
<1>4. \A s \in checkouts' : s.cust # None => \E t \in subs' : t.user = s.user /\ t.cust = s.cust
  BY <1>0, <1>1 DEF CustomersOwned
<1>5. \A u \in Users : customer'[u] # None => \E t \in subs' : t.user = u /\ t.cust = customer'[u]
  BY <1>0, <1>1 DEF CustomersOwned
<1> QED
  BY <1>3, <1>4, <1>5 DEF CustomersOwned, Owns

LEMMA CheckoutKeeps ==
  ASSUME BillingInv, NEW u \in Users, Billing!Checkout(u)
  PROVE  BillingInv'
<1>1. /\ checkouts' = checkouts \cup {[user |-> u, cust |-> customer[u]]}
      /\ UNCHANGED <<tier, customer, subs, wire, doubled, overtaken>>
  BY DEF Billing!Checkout
<1>2. Billing!TypeOK' /\ WiresTyped' /\ CompletedPays'
  BY <1>1 DEF BillingInv, Billing!TypeOK, Billing!Session, WiresTyped, CompletedPays, Completes
<1>3. CustomersOwned'
  BY <1>1 DEF BillingInv, CustomersOwned, Owns
<1>4. ASSUME NEW v \in Users \ (doubled \cup overtaken)
      PROVE  UserSettles(v)'
  <2>1. UserSettles(v)
    BY DEF BillingInv
  <2> QED
    BY <1>1, <2>1, OthersSettle
<1> QED
  BY <1>1, <1>2, <1>3, <1>4 DEF BillingInv

\* Typing of a step that posts an event about the subscription n.
LEMMA PostTyped ==
  ASSUME BillingInv, NEW e \in Billing!Event, Billing!Post(e), UNCHANGED <<tier, customer, overtaken>>,
         checkouts' \subseteq checkouts, doubled' \subseteq Users,
         NEW n \in Billing!Sub, subs' \subseteq subs \cup {n}, n.active => ~n.ended,
         e.type = "completed" => e.active
  PROVE  /\ Billing!TypeOK' /\ WiresTyped' /\ CompletedPays'
         /\ \A u \in Users : wire'[u] = IF u = e.user THEN Append(wire[u], e) ELSE wire[u]
         /\ (\A s \in subs : s.active => ~s.ended)'
<1>1. WiresTyped /\ CompletedPays /\ e.user \in Users
  BY DEF BillingInv, Billing!Event
<1>2. wire' = [wire EXCEPT ![e.user] = Append(@, e)] /\ Len(wire[e.user]) < MaxWire
  BY DEF Billing!Post
<1>3. \A u \in Users : wire'[u] = IF u = e.user THEN Append(wire[u], e) ELSE wire[u]
  BY <1>1, <1>2 DEF WiresTyped
<1>4. WiresTyped'
  BY <1>1, <1>2 DEF WiresTyped
<1>5. ASSUME NEW u \in Users
      PROVE  /\ Len(wire'[u]) <= MaxWire /\ (\A i \in DOMAIN wire'[u] : wire'[u][i] \in Billing!Event)
             /\ \A i \in 1..Len(wire'[u]) : wire'[u][i].type = "completed" => wire'[u][i].active
  <2>1. PICK w : w = wire[u]
    OBVIOUS
  <2>2. w \in Seq(Billing!Event) /\ Len(w) \in Nat /\ Len(w) <= MaxWire
    BY <1>1, <2>1 DEF WiresTyped, BillingInv, Billing!TypeOK
  <2>3. \A i \in 1..Len(w) : w[i].type = "completed" => w[i].active
    BY <1>1, <2>1 DEF CompletedPays, Completes
  <2>4. CASE u # e.user
    BY <1>3, <2>1, <2>2, <2>3, <2>4
  <2>5. CASE u = e.user
    <3>1. PICK v : v = Append(w, e)
      OBVIOUS
    <3>2. /\ v \in Seq(Billing!Event) /\ Len(v) = Len(w) + 1 /\ v[Len(w) + 1] = e
          /\ \A j \in 1..Len(w) : v[j] = w[j]
      BY <2>2, <3>1, Posted
    <3>3. Len(w) < MaxWire
      BY <1>2, <2>1, <2>5
    <3>4. Len(v) <= MaxWire
      BY <2>2, <3>2, <3>3, PlatformAssumption
    <3>5. ASSUME NEW i \in 1..Len(v), v[i].type = "completed"
          PROVE  v[i].active
      <4>1. i \in 1..Len(w) \/ i = Len(w) + 1
        BY <2>2, <3>2
      <4> QED
        BY <2>3, <3>2, <3>5, <4>1
    <3>6. wire'[u] = v
      BY <1>3, <2>1, <2>5, <3>1
    <3>7. \A i \in DOMAIN v : v[i] \in Billing!Event
      BY <3>2
    <3> QED
      BY <3>4, <3>5, <3>6, <3>7
  <2> QED
    BY <2>4, <2>5
<1>6. CompletedPays'
  BY <1>5 DEF CompletedPays, Completes
<1>7. Billing!TypeOK'
  BY <1>5 DEF BillingInv, Billing!TypeOK
<1>8. \A s \in subs' : s.active => ~s.ended
  BY DEF BillingInv
<1> QED
  BY <1>3, <1>4, <1>6, <1>7, <1>8

\* A subscription fails, is made good or ends: one step of the user's only one.
LEMMA SubscriptionTurns ==
  ASSUME BillingInv, NEW s \in subs, ~s.ended, NEW active \in BOOLEAN, NEW ended \in BOOLEAN, active => ~ended,
         NEW n, n = [s EXCEPT !.active = active, !.ended = ended],
         subs' = (subs \ {s}) \cup {n}, NEW type \in {"updated", "deleted"},
         Billing!Post([type |-> type, user |-> s.user, cust |-> s.cust, active |-> active]),
         UNCHANGED <<tier, customer, checkouts, doubled, overtaken>>
  PROVE  BillingInv'
<1>1. /\ s \in Billing!Sub /\ n \in Billing!Sub /\ n.user = s.user /\ n.cust = s.cust
      /\ n.active = active /\ n.ended = ended
  BY DEF BillingInv, Billing!TypeOK, Billing!Sub
<1>2. PICK e : e = [type |-> type, user |-> s.user, cust |-> s.cust, active |-> active]
  OBVIOUS
<1>3. /\ e \in Billing!Event /\ e.type = type /\ e.user = s.user /\ e.cust = s.cust /\ e.active = active
      /\ e.type # "completed"
  BY <1>1, <1>2 DEF Billing!Event, Billing!Sub
<1>4. doubled' \subseteq Users /\ Billing!Post(e)
  BY <1>2 DEF BillingInv, Billing!TypeOK
<1>5. /\ Billing!TypeOK' /\ WiresTyped' /\ CompletedPays'
      /\ (\A v \in Users : wire'[v] = IF v = e.user THEN Append(wire[v], e) ELSE wire[v])
      /\ (\A t \in subs : t.active => ~t.ended)'
  BY <1>1, <1>3, <1>4, PostTyped
<1>6. CustomersOwned'
  <2>1. \A u, c : Owns(u, c) => Owns(u, c)'
    BY <1>1 DEF Owns
  <2>2. Owns(e.user, e.cust)'
    BY <1>1, <1>3 DEF Owns
  <2>3. \A t \in subs' : \E v \in subs : v.user = t.user /\ v.cust = t.cust
    BY <1>1
  <2>4. \A t, v \in subs' : t.cust = v.cust => t.user = v.user
    BY <2>3 DEF BillingInv, CustomersOwned
  <2> QED
    BY <1>3, <1>4, <2>1, <2>2, <2>4, OwnersStay
<1>7. ASSUME NEW u \in Users \ (doubled \cup overtaken)
      PROVE  UserSettles(u)'
  <2>1. UserSettles(u)
    BY DEF BillingInv
  <2>2. CASE u # e.user
    <3>1. \A t : t.user = u => (t \in subs' <=> t \in subs)
      BY <1>1, <1>3, <2>2
    <3> QED
      BY <1>5, <2>1, <2>2, <3>1, OthersSettle
  <2>3. CASE u = e.user
    <3>1. \A t \in subs : t.user = u /\ ~t.ended => t = s
      BY <1>3, <2>1, <2>3 DEF UserSettles
    <3>2. \A t \in subs' : t.user = u /\ ~t.ended => t = n
      BY <3>1
    <3>3. Billing!Live(u)' = IF active THEN {n} ELSE {}
      <4>1. \A t \in subs' : t.user = u /\ t.active => t = n
        BY <1>5, <3>2
      <4> QED
        BY <1>1, <1>3, <2>3, <4>1 DEF Billing!Live
    <3>4. CustomerIs(wire[u], customer[u], Len(wire[u]) + 1, e.cust)
      BY <1>3, <2>1, <2>3 DEF UserSettles
    <3>5. \A t \in subs' : t.user = u /\ ~t.ended => t.cust = e.cust
      BY <1>1, <1>3, <3>2
    <3>6. e.active <=> (Billing!Live(u)' # {})
      BY <1>3, <3>3
    <3>7. wire'[u] = Append(wire[u], e)
      BY <1>5, <2>3
    <3>8. \A t, v \in subs' : t.user = u /\ v.user = u /\ ~t.ended /\ ~v.ended => t = v
      BY <3>2
    <3> QED
      BY <1>3, <2>1, <3>4, <3>5, <3>6, <3>7, <3>8, OwnerSettles
  <2> QED
    BY <2>2, <2>3
<1> QED
  BY <1>5, <1>6, <1>7 DEF BillingInv

LEMMA LapseKeeps ==
  ASSUME BillingInv, Billing!Lapse
  PROVE  BillingInv'
<1>1. PICK s \in subs, e \in BOOLEAN :
        /\ s.active /\ ~s.ended
        /\ subs' = (subs \ {s}) \cup {[s EXCEPT !.active = FALSE, !.ended = e]}
        /\ Billing!Post([type |-> IF e THEN "deleted" ELSE "updated",
                         user |-> s.user, cust |-> s.cust, active |-> FALSE])
        /\ UNCHANGED <<tier, customer, checkouts, doubled, overtaken>>
  BY DEF Billing!Lapse
<1>2. PICK type \in {"updated", "deleted"} : type = IF e THEN "deleted" ELSE "updated"
  OBVIOUS
<1>3. Billing!Post([type |-> type, user |-> s.user, cust |-> s.cust, active |-> FALSE])
  BY <1>1, <1>2
<1> QED
  BY <1>1, <1>3, SubscriptionTurns

LEMMA RenewKeeps ==
  ASSUME BillingInv, Billing!Renew
  PROVE  BillingInv'
<1>1. PICK s \in subs :
        /\ ~s.active /\ ~s.ended
        /\ subs' = (subs \ {s}) \cup {[s EXCEPT !.active = TRUE]}
        /\ Billing!Post([type |-> "updated", user |-> s.user, cust |-> s.cust, active |-> TRUE])
        /\ UNCHANGED <<tier, customer, checkouts, doubled, overtaken>>
  BY DEF Billing!Renew
<1>2. PICK n : n = [s EXCEPT !.active = TRUE, !.ended = FALSE]
  OBVIOUS
<1>3. n = [s EXCEPT !.active = TRUE]
  <2>1. s \in Billing!Sub
    BY DEF BillingInv, Billing!TypeOK
  <2>2. s.ended = FALSE
    BY <1>1, <2>1 DEF Billing!Sub
  <2> QED
    BY <1>2, <2>1, <2>2 DEF Billing!Sub
<1> QED
  BY <1>1, <1>2, <1>3, SubscriptionTurns

\* A second subscription at a time takes the user out of the promise; the first
\* one's event names the customer id that its later events carry.
LEMMA PayKeeps ==
  ASSUME BillingInv, Billing!Pay
  PROVE  BillingInv'
<1>1. PICK s \in checkouts, id \in 1..MaxSubs, c \in Customers :
        /\ IF s.cust = None THEN \A t \in subs : t.cust # c ELSE c = s.cust
        /\ checkouts' = checkouts \ {s}
        /\ subs' = subs \cup {[id |-> id, user |-> s.user, cust |-> c, active |-> TRUE, ended |-> FALSE]}
        /\ Billing!Post([type |-> "completed", user |-> s.user, cust |-> c, active |-> TRUE])
        /\ doubled' = IF \E t \in subs : t.user = s.user /\ ~t.ended
                      THEN doubled \cup {s.user} ELSE doubled
        /\ UNCHANGED <<tier, customer, overtaken>>
  BY DEF Billing!Pay
<1>2. PICK e, n : /\ e = [type |-> "completed", user |-> s.user, cust |-> c, active |-> TRUE]
                  /\ n = [id |-> id, user |-> s.user, cust |-> c, active |-> TRUE, ended |-> FALSE]
  OBVIOUS
<1>3. s.user \in Users
  BY DEF BillingInv, Billing!TypeOK, Billing!Session
<1>4. /\ e \in Billing!Event /\ e.type = "completed" /\ e.user = s.user /\ e.cust = c /\ e.active
      /\ n \in Billing!Sub /\ n.user = s.user /\ n.cust = c /\ n.active /\ ~n.ended
  BY <1>2, <1>3 DEF Billing!Event, Billing!Sub
<1>5. subs' = subs \cup {n} /\ Billing!Post(e)
  BY <1>1, <1>2
<1>6. doubled' \subseteq Users /\ doubled \subseteq doubled' /\ checkouts' \subseteq checkouts
  BY <1>1, <1>3 DEF BillingInv, Billing!TypeOK
<1>7. /\ Billing!TypeOK' /\ WiresTyped' /\ CompletedPays'
      /\ (\A v \in Users : wire'[v] = IF v = e.user THEN Append(wire[v], e) ELSE wire[v])
      /\ (\A t \in subs : t.active => ~t.ended)'
  BY <1>1, <1>4, <1>5, <1>6, PostTyped
<1>8. CustomersOwned'
  <2>1. \A u, d : Owns(u, d) => Owns(u, d)'
    BY <1>5 DEF Owns
  <2>2. Owns(e.user, e.cust)'
    BY <1>4, <1>5 DEF Owns
  <2>3. \A t \in subs : t.cust = c => t.user = s.user
    <3>1. CASE s.cust = None
      BY <1>1, <3>1
    <3>2. CASE s.cust # None
      <4>1. Owns(s.user, c)
        BY <1>1, <3>2 DEF BillingInv, CustomersOwned
      <4> QED
        BY <4>1 DEF BillingInv, CustomersOwned, Owns
    <3> QED
      BY <3>1, <3>2
  <2>4. \A t \in subs' : t \in subs \/ t = n
    BY <1>5
  <2>5. \A t, v \in subs' : t.cust = v.cust => t.user = v.user
    BY <1>4, <2>3, <2>4 DEF BillingInv, CustomersOwned
  <2> QED
    BY <1>1, <1>4, <1>5, <1>6, <2>1, <2>2, <2>5, OwnersStay
<1>9. ASSUME NEW u \in Users \ (doubled' \cup overtaken)
      PROVE  UserSettles(u)'
  <2>1. UserSettles(u)
    BY <1>6 DEF BillingInv
  <2>2. CASE u # e.user
    <3>1. \A t : t.user = u => (t \in subs' <=> t \in subs)
      BY <1>4, <1>5, <2>2
    <3> QED
      BY <1>1, <1>4, <1>7, <2>1, <2>2, <3>1, OthersSettle
  <2>3. CASE u = e.user
    <3>1. \A t \in subs : t.user = u => t.ended
      BY <1>1, <1>4, <1>9, <2>3
    <3>2. \A t \in subs' : t.user = u /\ ~t.ended => t = n
      BY <1>5, <3>1
    <3>3. n \in Billing!Live(u)'
      BY <1>4, <1>5, <2>3 DEF Billing!Live
    <3>4. e.active <=> (Billing!Live(u)' # {})
      BY <1>4, <3>3
    <3>5. \A t \in subs' : t.user = u /\ ~t.ended => t.cust = e.cust
      BY <1>4, <3>2
    <3>6. wire'[u] = Append(wire[u], e)
      BY <1>7, <2>3
    <3>7. \A t, v \in subs' : t.user = u /\ v.user = u /\ ~t.ended /\ ~v.ended => t = v
      BY <3>2
    <3> QED
      BY <1>1, <1>4, <2>1, <3>4, <3>5, <3>6, <3>7, OwnerSettles
  <2> QED
    BY <2>2, <2>3
<1> QED
  BY <1>1, <1>7, <1>8, <1>9 DEF BillingInv

---------------------------------------------------------------------------
(* Billing: the webhook                                                    *)

\* An event of another user never changes a user's plan or customer; the
\* user's oldest one sets what it says.
LEMMA WebhookSets ==
  ASSUME BillingInv, NEW v \in Users, NEW i \in 1..Len(wire[v]), NEW e, e = wire[v][i], Billing!Webhook(e),
         NEW u \in Users, UserSettles(u)
  PROVE  /\ v # u => tier'[u] = tier[u] /\ customer'[u] = customer[u]
         /\ v = u /\ i = 1 => /\ Completes(wire[u], 1) => customer'[u] = e.cust
                              /\ ~Completes(wire[u], 1) => customer'[u] = customer[u]
                              /\ tier'[u] = "paid" <=> e.active
<1>1. e \in Billing!Event /\ e.user = v /\ e.cust \in Customers /\ e.active \in BOOLEAN /\ Owns(v, e.cust)
  <2>1. wire[v] \in Seq(Billing!Event)
    BY DEF BillingInv, WiresTyped
  <2>2. e \in Billing!Event
    BY <2>1
  <2> QED
    BY <2>2 DEF Billing!Event, BillingInv, CustomersOwned
<1>2. tier \in [Users -> Billing!Plans] /\ customer \in [Users -> Customers \cup {None}]
  BY DEF BillingInv, Billing!TypeOK
<1>3. CASE e.type = "completed"
  <2>1. tier' = [tier EXCEPT ![v] = "paid"] /\ customer' = [customer EXCEPT ![v] = e.cust]
    BY <1>1, <1>3 DEF Billing!Webhook
  <2>2. e.active
    BY <1>3 DEF BillingInv, CompletedPays, Completes
  <2> QED
    BY <1>2, <1>3, <2>1, <2>2 DEF Completes
<1>4. CASE e.type # "completed"
  <2>1. /\ tier' = [t \in Users |-> IF customer[t] = e.cust
                                    THEN IF e.active THEN "paid" ELSE "free" ELSE tier[t]]
        /\ customer' = customer
    BY <1>4 DEF Billing!Webhook
  <2>2. v # u => customer[u] # e.cust
    <3> SUFFICES ASSUME v # u, customer[u] = e.cust PROVE FALSE
      OBVIOUS
    <3>1. e.cust # None
      BY <1>1, PlatformAssumption
    <3>2. Owns(u, e.cust) /\ Owns(v, e.cust)
      BY <1>1, <3>1 DEF BillingInv, CustomersOwned
    <3> QED
      BY <3>2 DEF Owns, BillingInv, CustomersOwned
  <2>3. v = u /\ i = 1 => customer[u] = e.cust /\ ~Completes(wire[u], 1)
    <3> SUFFICES ASSUME v = u, i = 1 PROVE customer[u] = e.cust /\ ~Completes(wire[u], 1)
      OBVIOUS
    <3>1. ~Completes(wire[u], 1)
      BY <1>4 DEF Completes
    <3>2. CustomerIs(wire[u], customer[u], 1, e.cust)
      BY <3>1 DEF UserSettles
    <3> QED
      BY <3>1, <3>2 DEF CustomerIs
  <2> QED
    BY <1>1, <2>1, <2>2, <2>3
<1> QED
  BY <1>3, <1>4

LEMMA WebhookTyped ==
  ASSUME BillingInv, NEW e \in Billing!Event, Billing!Webhook(e)
  PROVE  /\ tier' \in [Users -> Billing!Plans] /\ customer' \in [Users -> Customers \cup {None}]
         /\ \A u \in Users : customer'[u] = customer[u] \/ (u = e.user /\ customer'[u] = e.cust)
<1>1. tier \in [Users -> Billing!Plans] /\ customer \in [Users -> Customers \cup {None}]
  BY DEF BillingInv, Billing!TypeOK
<1>2. e.user \in Users /\ e.cust \in Customers /\ e.active \in BOOLEAN
  BY DEF Billing!Event
<1>3. CASE e.type = "completed"
  BY <1>1, <1>2, <1>3 DEF Billing!Webhook, Billing!Plans
<1>4. CASE e.type # "completed"
  BY <1>1, <1>2, <1>4 DEF Billing!Webhook, Billing!Plans
<1> QED
  BY <1>3, <1>4

\* An event that is delivered and comes again has said all it will say.
LEMMA DeliveredStays ==
  ASSUME BillingInv, NEW u \in Users, UserSettles(u), Len(wire[u]) >= 1, Billing!Webhook(wire[u][1]),
         UNCHANGED <<wire, subs>>
  PROVE  UserSettles(u)'
<1>1. PICK w, m, e : w = wire[u] /\ m = Len(wire[u]) /\ e = wire[u][1]
  OBVIOUS
<1>2. m \in Nat /\ m >= 1 /\ Len(w) = m /\ w[1] = e /\ 1 \in 1..m
  BY <1>1 DEF BillingInv, WiresTyped
<1>3. /\ Completes(w, 1) => customer'[u] = e.cust
      /\ ~Completes(w, 1) => customer'[u] = customer[u]
      /\ tier'[u] = "paid" <=> e.active
  BY <1>1, <1>2, WebhookSets
<1>4. ASSUME NEW n \in 1..(m + 1), NEW c, CustomerIs(w, customer[u], n, c), n > 1 \/ ~Completes(w, 1)
      PROVE  CustomerIs(w, customer'[u], n, c)
  <2>1. CASE Completes(w, 1)
    <3>1. 1 \in 1..(n - 1)
      BY <1>2, <1>4, <2>1
    <3> QED
      BY <1>4, <2>1, <3>1 DEF CustomerIs
  <2>2. CASE ~Completes(w, 1)
    BY <1>3, <1>4, <2>2
  <2> QED
    BY <2>1, <2>2
<1>5. ASSUME NEW i \in 1..m, ~Completes(w, i)
      PROVE  CustomerIs(w, customer'[u], i, w[i].cust)
  <2>1. CustomerIs(w, customer[u], i, w[i].cust)
    BY <1>1, <1>5 DEF UserSettles
  <2>2. i > 1 \/ ~Completes(w, 1)
    BY <1>2, <1>5
  <2>3. i \in 1..(m + 1)
    BY <1>2
  <2> QED
    BY <1>4, <2>1, <2>2, <2>3
<1>6. ASSUME NEW s \in subs, s.user = u, ~s.ended
      PROVE  CustomerIs(w, customer'[u], m + 1, s.cust)
  <2>1. CustomerIs(w, customer[u], m + 1, s.cust)
    BY <1>1, <1>6 DEF UserSettles
  <2>2. m + 1 \in 1..(m + 1) /\ m + 1 > 1
    BY <1>2
  <2> QED
    BY <1>4, <2>1, <2>2
<1>7. PaidIs(w, tier'[u] = "paid", Billing!Live(u) # {})
  <2>1. PICK old, new, b : /\ old = (tier[u] = "paid") /\ new = (tier'[u] = "paid")
                           /\ b = (Billing!Live(u) # {})
    OBVIOUS
  <2>2. PaidIs(w, old, b)
    BY <1>1, <2>1 DEF UserSettles
  <2>3. PaidIs(w, new, b)
    BY <1>2, <2>2 DEF PaidIs
  <2> QED
    BY <2>1, <2>3
<1>8. Billing!Live(u)' = Billing!Live(u)
  BY DEF Billing!Live
<1>9. \A s, t \in subs : s.user = u /\ t.user = u /\ ~s.ended /\ ~t.ended => s = t
  BY DEF UserSettles
<1> QED
  BY <1>1, <1>5, <1>6, <1>7, <1>8, <1>9 DEF UserSettles

\* The route answered 200.
LEMMA DeliveredLeaves ==
  ASSUME BillingInv, NEW u \in Users, UserSettles(u), Len(wire[u]) >= 1, Billing!Webhook(wire[u][1]),
         UNCHANGED subs, wire'[u] = Billing!Without(wire[u], 1)
  PROVE  UserSettles(u)'
<1>1. PICK w, v, m, e : w = wire[u] /\ v = wire'[u] /\ m = Len(wire[u]) /\ e = wire[u][1]
  OBVIOUS
<1>2. w \in Seq(Billing!Event) /\ m \in Nat \ {0} /\ Len(w) = m /\ w[1] = e /\ 1 \in 1..m
  BY <1>1 DEF BillingInv, WiresTyped
<1>3. Len(v) = m - 1 /\ \A i \in 1..(m - 1) : v[i] = w[i + 1]
  <2>1. v = Billing!Without(w, 1)
    BY <1>1
  <2>2. Len(v) = Len(w) - 1 /\ \A j \in 1..Len(v) : v[j] = IF j < 1 THEN w[j] ELSE w[j + 1]
    BY <1>2, <2>1, OneLeaves
  <2> QED
    BY <1>2, <2>2
<1>4. /\ Completes(w, 1) => customer'[u] = w[1].cust
      /\ ~Completes(w, 1) => customer'[u] = customer[u]
      /\ tier'[u] = "paid" <=> e.active
  BY <1>1, <1>2, WebhookSets
<1>5. PICK old, new : old = customer[u] /\ new = customer'[u]
  OBVIOUS
<1>6. IF Completes(w, 1) THEN new = w[1].cust ELSE new = old
  BY <1>4, <1>5
<1>7. ASSUME NEW i \in 1..(m - 1), ~Completes(v, i)
      PROVE  CustomerIs(v, new, i, v[i].cust)
  <2>1. i + 1 \in 1..m /\ i + 1 \in 2..(m + 1) /\ (i + 1) - 1 = i /\ v[i] = w[i + 1]
    BY <1>2, <1>3
  <2>2. ~Completes(w, i + 1)
    BY <1>7, <2>1 DEF Completes
  <2>3. CustomerIs(w, old, i + 1, v[i].cust)
    BY <1>1, <1>5, <2>1, <2>2 DEF UserSettles
  <2>4. CustomerIs(v, new, (i + 1) - 1, v[i].cust)
    BY <1>2, <1>3, <1>6, <2>1, <2>3, CustomerShifts
  <2> QED
    BY <2>1, <2>4
<1>8. ASSUME NEW s \in subs, s.user = u, ~s.ended
      PROVE  CustomerIs(v, new, m, s.cust)
  <2>1. CustomerIs(w, old, m + 1, s.cust)
    BY <1>1, <1>5, <1>8 DEF UserSettles
  <2>2. m + 1 \in 2..(m + 1) /\ (m + 1) - 1 = m
    BY <1>2
  <2>3. CustomerIs(v, new, (m + 1) - 1, s.cust)
    BY <1>2, <1>3, <1>6, <2>1, <2>2, CustomerShifts
  <2> QED
    BY <2>2, <2>3
<1>9. PaidIs(v, tier'[u] = "paid", Billing!Live(u) # {})
  <2>1. PICK p, q, b : /\ p = (tier[u] = "paid") /\ q = (tier'[u] = "paid")
                       /\ b = (Billing!Live(u) # {})
    OBVIOUS
  <2>2. PaidIs(w, p, b)
    BY <1>1, <2>1 DEF UserSettles
  <2>3. q <=> w[1].active
    BY <1>2, <1>4, <2>1
  <2>4. PaidIs(v, q, b)
    <3>1. CASE m = 1
      BY <1>2, <1>3, <2>2, <2>3, <3>1 DEF PaidIs
    <3>2. CASE m > 1
      <4>1. v[m - 1] = w[m]
        BY <1>2, <1>3, <3>2
      <4> QED
        BY <1>2, <1>3, <2>2, <3>2, <4>1 DEF PaidIs
    <3> QED
      BY <1>2, <3>1, <3>2
  <2> QED
    BY <2>1, <2>4
<1>10. Billing!Live(u)' = Billing!Live(u)
  BY DEF Billing!Live
<1>11. \A s, t \in subs : s.user = u /\ t.user = u /\ ~s.ended /\ ~t.ended => s = t
  BY DEF UserSettles
<1>12. Len(wire'[u]) = m - 1 /\ Len(wire'[u]) + 1 = m
  BY <1>1, <1>2, <1>3
<1> QED
  BY <1>1, <1>5, <1>7, <1>8, <1>9, <1>10, <1>11, <1>12 DEF UserSettles

LEMMA DeliverKeeps ==
  ASSUME BillingInv, Billing!Deliver
  PROVE  BillingInv'
<1>0. PICK v \in Users : \E i \in DOMAIN wire[v] :
        /\ Billing!Webhook(wire[v][i])
        /\ wire' = [wire EXCEPT ![v] = Billing!Without(@, i)] \/ UNCHANGED wire
        /\ overtaken' = IF i > 1 THEN overtaken \cup {v} ELSE overtaken
        /\ UNCHANGED <<checkouts, subs, doubled>>
  BY DEF Billing!Deliver
<1>1. PICK i \in DOMAIN wire[v] :
        /\ Billing!Webhook(wire[v][i])
        /\ wire' = [wire EXCEPT ![v] = Billing!Without(@, i)] \/ UNCHANGED wire
        /\ overtaken' = IF i > 1 THEN overtaken \cup {v} ELSE overtaken
        /\ UNCHANGED <<checkouts, subs, doubled>>
  BY <1>0
<1>2. PICK w, m, e : w = wire[v] /\ m = Len(wire[v]) /\ e = wire[v][i]
  OBVIOUS
<1>3. WiresTyped /\ CompletedPays /\ CustomersOwned
  BY DEF BillingInv
<1>4. /\ w \in Seq(Billing!Event) /\ m \in Nat /\ m <= MaxWire /\ m = Len(w) /\ e = w[i]
  BY <1>2, <1>3 DEF BillingInv, Billing!TypeOK, WiresTyped
<1>5. i \in 1..m /\ i \in 1..Len(wire[v]) /\ e \in Billing!Event
  <2>1. i \in 1..m
    BY <1>2, <1>4
  <2> QED
    BY <1>2, <1>4, <2>1
<1>6. Billing!Webhook(e)
  BY <1>1, <1>2
<1>7. \A u \in Users : u # v => wire'[u] = wire[u]
  BY <1>1, <1>3 DEF WiresTyped
<1>8. wire'[v] = w \/ wire'[v] = Billing!Without(w, i)
  BY <1>1, <1>2, <1>3 DEF WiresTyped
<1>9. PICK x : x = wire'[v]
  OBVIOUS
<1>10. /\ x \in Seq(Billing!Event) /\ Len(x) \in {m, m - 1}
       /\ \A j \in 1..Len(x) : \E k \in 1..m : x[j] = w[k]
  <2>1. CASE x = w
    BY <1>4, <2>1
  <2>2. CASE x = Billing!Without(w, i)
    <3>1. /\ x \in Seq(Billing!Event) /\ Len(x) = Len(w) - 1
          /\ \A j \in 1..Len(x) : x[j] = IF j < i THEN w[j] ELSE w[j + 1]
      BY <1>4, <1>5, <2>2, OneLeaves
    <3>2. \A j \in 1..Len(x) : j \in 1..m /\ j + 1 \in 1..m
      BY <1>4, <3>1
    <3> QED
      BY <1>4, <3>1, <3>2
  <2> QED
    BY <1>8, <1>9, <2>1, <2>2
<1>11. WiresTyped'
  <2>1. wire' = [u \in Users |-> wire'[u]]
    BY <1>1, <1>3 DEF WiresTyped
  <2>2. \A u \in Users : wire'[u] \in Seq(Billing!Event)
    BY <1>3, <1>7, <1>9, <1>10 DEF WiresTyped
  <2> QED
    BY <2>1, <2>2 DEF WiresTyped
<1>12. /\ tier' \in [Users -> Billing!Plans] /\ customer' \in [Users -> Customers \cup {None}]
       /\ \A u \in Users : customer'[u] = customer[u] \/ (u = e.user /\ customer'[u] = e.cust)
  BY <1>5, <1>6, WebhookTyped
<1>13. Billing!TypeOK'
  <2>1. ASSUME NEW u \in Users
        PROVE  Len(wire'[u]) <= MaxWire /\ \A j \in DOMAIN wire'[u] : wire'[u][j] \in Billing!Event
    <3>1. CASE u = v
      <4>1. Len(x) <= MaxWire
        BY <1>4, <1>10, PlatformAssumption
      <4>2. \A j \in DOMAIN x : x[j] \in Billing!Event
        BY <1>10
      <4> QED
        BY <1>9, <3>1, <4>1, <4>2
    <3>2. CASE u # v
      BY <1>7, <3>2 DEF BillingInv, Billing!TypeOK
    <3> QED
      BY <3>1, <3>2
  <2>2. overtaken' \subseteq Users
    BY <1>1 DEF BillingInv, Billing!TypeOK
  <2> QED
    BY <1>1, <1>12, <2>1, <2>2 DEF BillingInv, Billing!TypeOK
<1>14. \A k \in 1..m : /\ w[k].type = "completed" => w[k].active
                       /\ w[k].user = v /\ Owns(v, w[k].cust)
  BY <1>2, <1>3 DEF CompletedPays, Completes, CustomersOwned
<1>15. \A j \in 1..Len(x) : /\ x[j].type = "completed" => x[j].active
                            /\ x[j].user = v /\ Owns(v, x[j].cust)
  <2> SUFFICES ASSUME NEW j \in 1..Len(x)
               PROVE  /\ x[j].type = "completed" => x[j].active
                      /\ x[j].user = v /\ Owns(v, x[j].cust)
    OBVIOUS
  <2>1. PICK k \in 1..m : x[j] = w[k]
    BY <1>10
  <2> QED
    BY <1>14, <2>1
<1>16. CompletedPays'
  <2>1. ASSUME NEW u \in Users, NEW j \in 1..Len(wire'[u]), wire'[u][j].type = "completed"
        PROVE  wire'[u][j].active
    <3>1. CASE u = v
      BY <1>9, <1>15, <2>1, <3>1
    <3>2. CASE u # v
      BY <1>3, <1>7, <2>1, <3>2 DEF CompletedPays, Completes
    <3> QED
      BY <3>1, <3>2
  <2> QED
    BY <2>1 DEF CompletedPays, Completes
<1>17. CustomersOwned'
  <2>1. subs' = subs /\ checkouts' = checkouts
    BY <1>1
  <2>2. Owns(e.user, e.cust)
    BY <1>2, <1>4, <1>5, <1>14
  <2>3. \A u \in Users : customer'[u] # None => \E t \in subs' : t.user = u /\ t.cust = customer'[u]
    BY <1>3, <1>12, <2>1, <2>2 DEF CustomersOwned, Owns
  <2>4. ASSUME NEW u \in Users, NEW j \in 1..Len(wire'[u])
        PROVE  wire'[u][j].user = u /\ \E t \in subs' : t.user = u /\ t.cust = wire'[u][j].cust
    <3>1. CASE u = v
      BY <1>9, <1>15, <2>1, <2>4, <3>1 DEF Owns
    <3>2. CASE u # v
      BY <1>3, <1>7, <2>1, <2>4, <3>2 DEF CustomersOwned, Owns
    <3> QED
      BY <3>1, <3>2
  <2>5. \A s \in checkouts' : s.cust # None => \E t \in subs' : t.user = s.user /\ t.cust = s.cust
    BY <1>3, <2>1 DEF CustomersOwned, Owns
  <2>6. \A s, t \in subs' : s.cust = t.cust => s.user = t.user
    BY <1>1, <1>3 DEF CustomersOwned
  <2> QED
    BY <2>3, <2>4, <2>5, <2>6 DEF CustomersOwned, Owns
<1>18. ASSUME NEW u \in Users \ (doubled' \cup overtaken')
       PROVE  UserSettles(u)'
  <2>1. UserSettles(u)
    BY <1>1 DEF BillingInv
  <2>2. CASE u # v
    <3>1. tier'[u] = tier[u] /\ customer'[u] = customer[u]
      BY <1>2, <1>5, <1>6, <2>1, <2>2, WebhookSets
    <3>2. wire'[u] = wire[u]
      BY <1>7, <2>2
    <3> QED
      BY <1>1, <2>1, <3>1, <3>2, OthersSettle
  <2>3. CASE u = v
    <3>1. i = 1
      BY <1>1, <1>5, <2>3
    <3>2. Len(wire[u]) >= 1 /\ Billing!Webhook(wire[u][1])
      BY <1>1, <1>2, <1>4, <1>5, <2>3, <3>1
    <3>3. CASE UNCHANGED wire
      BY <1>1, <2>1, <3>2, <3>3, DeliveredStays
    <3>4. CASE wire' = [wire EXCEPT ![v] = Billing!Without(@, i)]
      <4>1. wire'[u] = Billing!Without(wire[u], 1)
        BY <1>3, <2>3, <3>1, <3>4 DEF WiresTyped
      <4> QED
        BY <1>1, <2>1, <3>2, <4>1, DeliveredLeaves
    <3> QED
      BY <1>1, <3>3, <3>4
  <2> QED
    BY <2>2, <2>3
<1>19. (\A s \in subs : s.active => ~s.ended)'
  BY <1>1 DEF BillingInv
<1> QED
  BY <1>11, <1>13, <1>16, <1>17, <1>18, <1>19 DEF BillingInv

LEMMA BillingKeeps ==
  ASSUME BillingInv, [Billing!Next]_(Billing!vars)
  PROVE  BillingInv'
<1>1. CASE UNCHANGED Billing!vars
  <2>1. UNCHANGED <<tier, customer, checkouts, subs, wire, doubled, overtaken>>
    BY <1>1 DEF Billing!vars
  <2>2. \A u \in Users : UserSettles(u) => UserSettles(u)'
    BY <2>1, OthersSettle
  <2> QED
    BY <2>1, <2>2 DEF BillingInv, Billing!TypeOK, CustomersOwned, Owns, WiresTyped, CompletedPays, Completes
<1> QED
  BY <1>1, CheckoutKeeps, PayKeeps, LapseKeeps, RenewKeeps, DeliverKeeps DEF Billing!Next

LEMMA BillingHolds ==
  ASSUME BillingInv
  PROVE  Billing!PlanFollowsSubscription
<1> SUFFICES ASSUME NEW u \in Users \ (doubled \cup overtaken), wire[u] = <<>>
             PROVE  tier[u] = "paid" <=> Billing!Live(u) # {}
  BY DEF Billing!PlanFollowsSubscription
<1>1. PICK paid, b : paid = (tier[u] = "paid") /\ b = (Billing!Live(u) # {})
  OBVIOUS
<1>2. PaidIs(wire[u], paid, b)
  BY <1>1 DEF BillingInv, UserSettles
<1>3. Len(wire[u]) = 0
  OBVIOUS
<1>4. paid <=> b
  BY <1>2, <1>3 DEF PaidIs
<1> QED
  BY <1>1, <1>4

---------------------------------------------------------------------------
(* RuleSets: what the two lists decide                                     *)

\* Rule k is the first of the list that looks for a word of the name.
FirstRule(rules, t, k) ==
  /\ k \in DOMAIN rules /\ rules[k].class \in t
  /\ \A j \in DOMAIN rules : rules[j].class \in t => k <= j

LEMMA FirstDecides ==
  ASSUME NEW rules, DOMAIN rules \subseteq Nat, NEW t, NEW k, FirstRule(rules, t, k)
  PROVE  Rules!Evaluate(rules, t) = rules[k].decision
<1>1. k = CHOOSE j \in DOMAIN rules :
            /\ rules[j].class \in t
            /\ \A i \in DOMAIN rules : rules[i].class \in t => j <= i
  <2>1. \A j \in DOMAIN rules : FirstRule(rules, t, j) => j = k
    BY DEF FirstRule
  <2> QED
    BY <2>1 DEF FirstRule
<1> QED
  BY <1>1 DEF FirstRule, Rules!Evaluate

LEMMA NoneDecides ==
  ASSUME NEW rules, NEW t, \A k \in DOMAIN rules : rules[k].class \notin t
  PROVE  Rules!Evaluate(rules, t) = "allow"
BY DEF Rules!Evaluate

\* The rules, one by one.
LEMMA PublicList ==
  LET R == Rules!RULES IN
  /\ DOMAIN R = 1..10
  /\ R[1].class = "destroy" /\ R[1].decision = "deny"
  /\ R[2].class = "execute" /\ R[2].decision = "deny"
  /\ R[3].class = "escalate" /\ R[3].decision = "deny"
  /\ R[4].class = "finance" /\ R[4].decision = "human_review"
  /\ R[5].class = "outbound" /\ R[5].decision = "human_review"
  /\ R[6].class = "config" /\ R[6].decision = "human_review"
  /\ R[7].class = "file" /\ R[7].decision = "compute"
  /\ R[8].class = "deploy" /\ R[8].decision = "compute"
  /\ R[9].class = "read" /\ R[9].decision = "allow"
  /\ R[10].class = "write" /\ R[10].decision = "allow"
BY DEF Rules!RULES, Rules!Rule

\* The fallback has one more rule in the ninth place.
LEMMA FallbackList ==
  LET R == Rules!RULES  S == Rules!SANDBOX_RULES IN
  /\ DOMAIN S = 1..11
  /\ \A k \in 1..8 : S[k] = R[k]
  /\ S[9].class = "export" /\ S[9].decision = "human_review"
  /\ S[10] = R[9] /\ S[11] = R[10]
<1> DEFINE R == Rules!RULES
           A == SubSeq(R, 1, 8)
           B == <<Rules!Rule("export", "human_review")>>
           C == SubSeq(R, 9, 10)
           AllRules == {R[k] : k \in 1..10} \cup {Rules!Rule("export", "human_review")}
<1>1. R \in Seq(AllRules) /\ Len(R) = 10
  BY DEF Rules!RULES
<1>2. A \in Seq(AllRules) /\ Len(A) = 8 /\ \A k \in 1..8 : A[k] = R[k]
  BY <1>1, SubSeqProperties
<1>3. C \in Seq(AllRules) /\ Len(C) = 2 /\ C[1] = R[9] /\ C[2] = R[10]
  BY <1>1, SubSeqProperties
<1>4. B \in Seq(AllRules) /\ Len(B) = 1 /\ B[1].class = "export" /\ B[1].decision = "human_review"
  BY DEF Rules!Rule
<1>5. PICK D : D = A \o B
  OBVIOUS
<1>6. D \in Seq(AllRules) /\ Len(D) = 9 /\ (\A k \in 1..8 : D[k] = R[k]) /\ D[9] = B[1]
  BY <1>2, <1>4, <1>5, ConcatProperties
<1>7. PICK E : E = D \o C
  OBVIOUS
<1>8. E \in Seq(AllRules) /\ Len(E) = 11 /\ (\A k \in 1..9 : E[k] = D[k]) /\ E[10] = C[1] /\ E[11] = C[2]
  <2>1. /\ E \in Seq(AllRules) /\ Len(E) = 9 + 2
        /\ \A k \in 1..(9 + 2) : E[k] = IF k <= 9 THEN D[k] ELSE C[k - 9]
    <3>1. ASSUME NEW T, NEW v \in Seq(T), NEW w \in Seq(T), Len(v) = 9, Len(w) = 2
          PROVE  /\ v \o w \in Seq(T) /\ Len(v \o w) = 9 + 2
                 /\ \A k \in 1..(9 + 2) : (v \o w)[k] = IF k <= 9 THEN v[k] ELSE w[k - 9]
      <4>1. /\ v \o w \in Seq(T) /\ Len(v \o w) = Len(v) + Len(w)
            /\ \A k \in 1..(Len(v) + Len(w)) : (v \o w)[k] = IF k <= Len(v) THEN v[k] ELSE w[k - Len(v)]
        BY ConcatProperties
      <4> QED
        BY <3>1, <4>1
    <3> HIDE DEF AllRules, C
    <3> QED
      BY ONLY <1>3, <1>6, <1>7, <3>1, SMTT(20)
  <2>2. E[10] = C[10 - 9] /\ E[11] = C[11 - 9]
    BY <2>1
  <2> QED
    BY <2>1, <2>2
<1>9. Rules!SANDBOX_RULES = E
  BY <1>5, <1>7 DEF Rules!SANDBOX_RULES
<1>10. DOMAIN E = 1..11
  BY <1>8
<1> QED
  BY <1>3, <1>4, <1>6, <1>8, <1>9, <1>10

LEMMA FirstRuleExists ==
  ASSUME NEW rules, DOMAIN rules \subseteq Nat, NEW t, \E k \in DOMAIN rules : rules[k].class \in t
  PROVE  \E k \in DOMAIN rules : FirstRule(rules, t, k)
<1> DEFINE S == {k \in DOMAIN rules : rules[k].class \in t}
<1>1. S \subseteq Nat /\ S # {}
  OBVIOUS
<1> HIDE DEF S
<1>2. PICK k \in S : \A j \in S : ~(<<j, k>> \in OpToRel(<, Nat))
  BY <1>1, NatLessThanWellFounded, WFMin
<1>3. \A j \in S : ~(j < k)
  BY <1>1, <1>2 DEF OpToRel
<1>4. \A j \in S : k <= j
  BY <1>1, <1>3
<1> QED
  BY <1>2, <1>4 DEF FirstRule, S

\* The strictest kind of rule that looks for a word of the name decides: the
\* lists have the deny rules first, then those for a review, and so on.
LEMMA PublicDecides ==
  ASSUME NEW t
  PROVE  Rules!Evaluate(Rules!RULES, t) =
           IF {"destroy", "execute", "escalate"} \cap t # {} THEN "deny"
           ELSE IF {"finance", "outbound", "config"} \cap t # {} THEN "human_review"
           ELSE IF {"file", "deploy"} \cap t # {} THEN "compute" ELSE "allow"
<1> DEFINE R == Rules!RULES
<1>1. DOMAIN R = 1..10 /\ DOMAIN R \subseteq Nat
  BY PublicList
<1>2. CASE \A k \in DOMAIN R : R[k].class \notin t
  <2>1. Rules!Evaluate(R, t) = "allow"
    BY <1>2, NoneDecides
  <2>2. \A k \in 1..10 : R[k].class \notin t
    BY <1>1, <1>2
  <2>3. /\ "destroy" \notin t /\ "execute" \notin t /\ "escalate" \notin t /\ "finance" \notin t
        /\ "outbound" \notin t /\ "config" \notin t /\ "file" \notin t /\ "deploy" \notin t
    BY <2>2, PublicList
  <2> QED
    BY <2>1, <2>3
<1>3. CASE \E k \in DOMAIN R : R[k].class \in t
  <2>1. PICK k \in 1..10 : FirstRule(R, t, k)
    BY <1>1, <1>3, FirstRuleExists
  <2>2. Rules!Evaluate(R, t) = R[k].decision
    BY <1>1, <2>1, FirstDecides
  <2>3. R[k].class \in t /\ \A j \in 1..10 : j < k => R[j].class \notin t
    BY <1>1, <2>1 DEF FirstRule
  <2> HIDE DEF R
  <2>4. k \in {1, 2, 3, 4, 5, 6, 7, 8, 9, 10}
    OBVIOUS
  <2>5. CASE k \in {1, 2, 3}
    <3>1. R[k].class \in {"destroy", "execute", "escalate"} /\ R[k].decision = "deny"
      BY <2>5, PublicList DEF R
    <3> QED
      BY <2>2, <2>3, <3>1 DEF R
  <2>6. k > 3 => "destroy" \notin t /\ "execute" \notin t /\ "escalate" \notin t
    <3>1. k > 3 => R[1].class \notin t /\ R[2].class \notin t /\ R[3].class \notin t
      BY <2>3
    <3> QED
      BY <3>1, PublicList DEF R
  <2>7. CASE k \in {4, 5, 6}
    <3>1. R[k].class \in {"finance", "outbound", "config"} /\ R[k].decision = "human_review"
      BY <2>7, PublicList DEF R
    <3> QED
      BY <2>2, <2>3, <2>6, <2>7, <3>1 DEF R
  <2>8. k > 6 => "finance" \notin t /\ "outbound" \notin t /\ "config" \notin t
    <3>1. k > 6 => R[4].class \notin t /\ R[5].class \notin t /\ R[6].class \notin t
      BY <2>3
    <3> QED
      BY <3>1, PublicList DEF R
  <2>9. CASE k \in {7, 8}
    <3>1. R[k].class \in {"file", "deploy"} /\ R[k].decision = "compute"
      BY <2>9, PublicList DEF R
    <3> QED
      BY <2>2, <2>3, <2>6, <2>8, <2>9, <3>1 DEF R
  <2>10. CASE k \in {9, 10}
    <3>1. R[k].decision = "allow"
      BY <2>10, PublicList DEF R
    <3>2. R[7].class \notin t /\ R[8].class \notin t
      BY <2>3, <2>10
    <3>3. "file" \notin t /\ "deploy" \notin t
      BY <3>2, PublicList DEF R
    <3> QED
      BY <2>2, <2>6, <2>8, <2>10, <3>1, <3>3 DEF R
  <2> QED
    BY <2>4, <2>5, <2>7, <2>9, <2>10
<1> QED
  BY <1>2, <1>3

LEMMA FallbackDecides ==
  ASSUME NEW t
  PROVE  Rules!Evaluate(Rules!SANDBOX_RULES, t) =
           LET d == Rules!Evaluate(Rules!RULES, t)
           IN  IF "export" \in t /\ d = "allow" THEN "human_review" ELSE d
<1> DEFINE R == Rules!RULES
           S == Rules!SANDBOX_RULES
<1>1. /\ DOMAIN R = 1..10 /\ DOMAIN S = 1..11 /\ DOMAIN R \subseteq Nat /\ DOMAIN S \subseteq Nat
      /\ \A k \in 1..8 : S[k] = R[k]
      /\ S[9].class = "export" /\ S[9].decision = "human_review" /\ S[10] = R[9] /\ S[11] = R[10]
  BY PublicList, FallbackList
<1>2. /\ R[9].decision = "allow" /\ R[10].decision = "allow"
      /\ \A k \in 1..8 : R[k].decision # "allow"
  BY PublicList
<1> HIDE DEF R, S
<1>3. CASE \A k \in 1..8 : R[k].class \notin t
  <2>1. Rules!Evaluate(R, t) = "allow"
    <3>1. CASE \A k \in DOMAIN R : R[k].class \notin t
      BY <3>1, NoneDecides
    <3>2. CASE \E k \in DOMAIN R : R[k].class \in t
      <4>1. PICK k \in DOMAIN R : FirstRule(R, t, k)
        BY <1>1, <3>2, FirstRuleExists
      <4>2. Rules!Evaluate(R, t) = R[k].decision
        BY <1>1, <4>1, FirstDecides
      <4>3. k = 9 \/ k = 10
        BY <1>1, <1>3, <4>1 DEF FirstRule
      <4> QED
        BY <1>2, <4>2, <4>3
    <3> QED
      BY <3>1, <3>2
  <2>2. CASE "export" \in t
    <3>1. FirstRule(S, t, 9)
      BY <1>1, <1>3, <2>2 DEF FirstRule
    <3> QED
      BY <1>1, <2>1, <2>2, <3>1, FirstDecides DEF R, S
  <2>3. CASE "export" \notin t
    <3>1. Rules!Evaluate(S, t) = "allow"
      <4>1. CASE \A k \in DOMAIN S : S[k].class \notin t
        BY <4>1, NoneDecides
      <4>2. CASE \E k \in DOMAIN S : S[k].class \in t
        <5>1. PICK k \in DOMAIN S : FirstRule(S, t, k)
          BY <1>1, <4>2, FirstRuleExists
        <5>2. Rules!Evaluate(S, t) = S[k].decision
          BY <1>1, <5>1, FirstDecides
        <5>3. k = 10 \/ k = 11
          BY <1>1, <1>3, <2>3, <5>1 DEF FirstRule
        <5> QED
          BY <1>1, <1>2, <5>2, <5>3
      <4> QED
        BY <4>1, <4>2
    <3> QED
      BY <2>1, <2>3, <3>1 DEF R, S
  <2> QED
    BY <2>2, <2>3
<1>4. CASE \E k \in 1..8 : R[k].class \in t
  <2>1. PICK k \in DOMAIN R : FirstRule(R, t, k)
    BY <1>1, <1>4, FirstRuleExists
  <2>2. k \in 1..8
    BY <1>1, <1>4, <2>1 DEF FirstRule
  <2>3. FirstRule(S, t, k)
    BY <1>1, <2>1, <2>2 DEF FirstRule
  <2>4. Rules!Evaluate(R, t) = R[k].decision /\ Rules!Evaluate(S, t) = S[k].decision
    BY <1>1, <2>1, <2>3, FirstDecides
  <2> QED
    BY <1>1, <1>2, <2>2, <2>4 DEF R, S
<1> QED
  BY <1>3, <1>4

LEMMA RulesHold == Rules!StrictestWins /\ Rules!StrictestButExports /\ Rules!FallbackDiffers
<1>1. Rules!FallbackDiffers
  BY FallbackDecides DEF Rules!FallbackDiffers
<1>2. ASSUME NEW d \in Rules!Decisions, tool \cap Rules!Of(Rules!RULES, d) # {}
      PROVE  Rules!Strictness[Rules!Evaluate(Rules!RULES, tool)] >= Rules!Strictness[d]
  <2> DEFINE R == Rules!RULES
  <2>1. PICK k \in 1..10 : R[k].class \in tool /\ R[k].decision = d
    BY <1>2, PublicList DEF Rules!Of
  <2>2. PICK e : e = Rules!Evaluate(R, tool)
    OBVIOUS
  <2>3. /\ d = "deny" => R[k].class \in {"destroy", "execute", "escalate"}
        /\ d = "human_review" => R[k].class \in {"finance", "outbound", "config"}
        /\ d = "compute" => R[k].class \in {"file", "deploy"}
    <3>1. k \in {1, 2, 3, 4, 5, 6, 7, 8, 9, 10}
      OBVIOUS
    <3> QED
      BY <2>1, <3>1, PublicList
  <2> HIDE DEF R
  <2>4. \/ d = "deny" /\ e = "deny"
        \/ d = "human_review" /\ e \in {"deny", "human_review"}
        \/ d = "compute" /\ e \in {"deny", "human_review", "compute"}
        \/ d = "allow" /\ e \in {"deny", "human_review", "compute", "allow"}
    <3>1. e = IF {"destroy", "execute", "escalate"} \cap tool # {} THEN "deny"
              ELSE IF {"finance", "outbound", "config"} \cap tool # {} THEN "human_review"
              ELSE IF {"file", "deploy"} \cap tool # {} THEN "compute" ELSE "allow"
      BY <2>2, PublicDecides DEF R
    <3> QED
      BY <2>1, <2>3, <3>1 DEF Rules!Decisions
  <2> QED
    BY <2>2, <2>4 DEF Rules!Strictness, R
<1>3. ASSUME NEW d \in Rules!Decisions, tool \cap Rules!Of(Rules!SANDBOX_RULES, d) # {}
      PROVE  \/ Rules!Strictness[Rules!Evaluate(Rules!SANDBOX_RULES, tool)] >= Rules!Strictness[d]
             \/ /\ d = "human_review" /\ "export" \in tool /\ tool \cap {"file", "deploy"} # {}
                /\ Rules!Evaluate(Rules!SANDBOX_RULES, tool) = "compute"
  <2> DEFINE S == Rules!SANDBOX_RULES
  <2>1. PICK k \in 1..11 : S[k].class \in tool /\ S[k].decision = d
    BY <1>3, FallbackList DEF Rules!Of
  <2>2. PICK e : e = Rules!Evaluate(S, tool)
    OBVIOUS
  <2>3. /\ d = "deny" => S[k].class \in {"destroy", "execute", "escalate"}
        /\ d = "human_review" => S[k].class \in {"finance", "outbound", "config", "export"}
        /\ d = "compute" => S[k].class \in {"file", "deploy"}
    <3>1. k \in {1, 2, 3, 4, 5, 6, 7, 8, 9, 10, 11}
      OBVIOUS
    <3>2. /\ k \in 1..3 => S[k].decision = "deny" /\ S[k].class \in {"destroy", "execute", "escalate"}
          /\ k \in 4..6 => S[k].decision = "human_review" /\ S[k].class \in {"finance", "outbound", "config"}
          /\ k \in 7..8 => S[k].decision = "compute" /\ S[k].class \in {"file", "deploy"}
          /\ k = 9 => S[k].decision = "human_review" /\ S[k].class = "export"
          /\ k \in 10..11 => S[k].decision = "allow"
      BY <3>1, PublicList, FallbackList
    <3> QED
      BY <2>1, <3>1, <3>2
  <2> HIDE DEF S
  <2>4. \/ d = "deny" /\ e = "deny"
        \/ d = "human_review" /\ e \in {"deny", "human_review"}
        \/ d = "human_review" /\ e = "compute" /\ "export" \in tool /\ tool \cap {"file", "deploy"} # {}
        \/ d = "compute" /\ e \in {"deny", "human_review", "compute"}
        \/ d = "allow" /\ e \in {"deny", "human_review", "compute", "allow"}
    <3>1. PICK c : c = Rules!Evaluate(Rules!RULES, tool)
      OBVIOUS
    <3>2. c = IF {"destroy", "execute", "escalate"} \cap tool # {} THEN "deny"
              ELSE IF {"finance", "outbound", "config"} \cap tool # {} THEN "human_review"
              ELSE IF {"file", "deploy"} \cap tool # {} THEN "compute" ELSE "allow"
      BY <3>1, PublicDecides
    <3>3. e = IF "export" \in tool /\ c = "allow" THEN "human_review" ELSE c
      BY <2>2, <3>1, FallbackDecides DEF S
    <3> QED
      BY <2>1, <2>3, <3>2, <3>3 DEF Rules!Decisions
  <2> QED
    BY <2>2, <2>4 DEF Rules!Strictness, S
<1> QED
  BY <1>1, <1>2, <1>3 DEF Rules!StrictestWins, Rules!StrictestButExports

---------------------------------------------------------------------------
(* PolicySafety: the simulator                                             *)

\* An agent's trace is decided by the deny list and the thresholds, in the
\* order of the engine's passes.
LEMMA SimulatorDecides ==
  ASSUME NEW p \in PolicyDrafts, NEW tr, tr.kind = "agent", p.explicit, tr.action \in p.allow
  PROVE  Safety!After(p, tr) = Safety!EngineOutcome(p, tr)
<1>1. PICK sc : sc = Safety!EngineScope(p)
  OBVIOUS
<1>2. PICK pol : pol = [rules |-> <<>>, scopes |-> [a \in {"agent"} |-> sc], roles |-> [r \in {"role"} |-> p.allow]]
  OBVIOUS
<1>3. PICK d : d = Safety!PE!EvaluateAgent(pol, "agent", tr.action, tr.conf)
  OBVIOUS
<1>4. Safety!EngineOutcome(p, tr) = IF d.review THEN "review" ELSE IF d.allowed THEN "allow" ELSE "deny"
  BY <1>1, <1>2, <1>3 DEF Safety!EngineOutcome
<1>5. /\ sc # None /\ sc.inherits = "role" /\ sc.deny = p.deny /\ sc.compute = {}
      /\ sc.hardDeny = {p.hard} /\ sc.downgrade = {p.readOnly} /\ sc.human = {p.human}
  <2>1. sc # None
    BY <1>1, PlatformAssumption
  <2>2. sc = [inherits |-> "role", deny |-> p.deny, compute |-> {}, hardDeny |-> {p.hard},
              downgrade |-> {p.readOnly}, human |-> {p.human}]
    BY <1>1 DEF Safety!EngineScope
  <2> QED
    BY <2>1, <2>2
<1>6. d = Safety!PE!ScopeDecision(pol, sc, tr.action, tr.conf)
  <2>1. pol.rules = <<>> /\ pol.scopes["agent"] = sc
    BY <1>2
  <2>2. Safety!PE!Matching(pol, "agent", tr.action) = {}
    BY <2>1 DEF Safety!PE!Matching
  <2> QED
    BY <1>3, <1>5, <2>1, <2>2 DEF Safety!PE!EvaluateAgent
<1>7. Safety!PE!Permitted(pol, sc, tr.action)
  BY <1>2, <1>5 DEF Safety!PE!Permitted, Safety!PE!matchAction
<1>8. d = IF tr.action \in p.deny THEN Safety!PE!Deny
          ELSE IF tr.conf < p.hard THEN Safety!PE!Deny
          ELSE IF tr.conf < p.readOnly THEN Safety!PE!DowngradeToReadOnly
          ELSE IF tr.conf < p.human THEN Safety!PE!AllowWithReview ELSE Safety!PE!Allow
  BY <1>5, <1>6, <1>7 DEF Safety!PE!ScopeDecision, Safety!PE!Below, Safety!PE!matchAction
<1>9. /\ ~Safety!PE!Deny.review /\ ~Safety!PE!Deny.allowed
      /\ ~Safety!PE!DowngradeToReadOnly.review /\ ~Safety!PE!DowngradeToReadOnly.allowed
      /\ Safety!PE!AllowWithReview.review /\ ~Safety!PE!Allow.review /\ Safety!PE!Allow.allowed
  BY DEF Safety!PE!Deny, Safety!PE!DowngradeToReadOnly, Safety!PE!AllowWithReview, Safety!PE!Allow,
         Safety!PE!Decision
<1>10. Safety!After(p, tr) = IF tr.action \in p.deny THEN "deny"
                             ELSE IF tr.conf < p.hard \/ tr.conf < p.readOnly THEN "deny"
                             ELSE IF tr.conf < p.human THEN "review" ELSE "allow"
  <2>1. /\ Safety!Threshold(p).hard = p.hard /\ Safety!Threshold(p).readOnly = p.readOnly
        /\ Safety!Threshold(p).human = p.human
    BY DEF Safety!Threshold
  <2> QED
    BY <2>1 DEF Safety!After
<1> QED
  BY <1>4, <1>8, <1>9, <1>10

---------------------------------------------------------------------------
(* PolicySafety: the counters                                              *)

\* The simulator counts with the same operator.
LEMMA SafetyCounts == \A S : Safety!Cardinality(S) = Cardinality(S)
BY DEF Safety!Cardinality, Cardinality

LEMMA CountApart ==
  ASSUME NEW S, IsFiniteSet(S), NEW T
  PROVE  /\ IsFiniteSet(S \ T) /\ IsFiniteSet(S \cap T)
         /\ Cardinality(S) = Cardinality(S \cap T) + Cardinality(S \ T)
         /\ Cardinality(S) \in Nat /\ Cardinality(S \ T) \in Nat /\ Cardinality(S \cap T) \in Nat
<1>1. IsFiniteSet(S \ T) /\ IsFiniteSet(S \cap T)
  <2>1. S \ T \subseteq S /\ S \cap T \subseteq S
    OBVIOUS
  <2> QED
    BY <2>1, FS_Subset
<1>2. Cardinality(S) = Cardinality(S \cap T) + Cardinality(S \ T)
  <2>1. S = (S \cap T) \cup (S \ T) /\ (S \cap T) \cap (S \ T) = {}
    OBVIOUS
  <2>2. Cardinality((S \cap T) \cup (S \ T)) =
          Cardinality(S \cap T) + Cardinality(S \ T) - Cardinality((S \cap T) \cap (S \ T))
    BY <1>1, FS_Union
  <2>3. Cardinality((S \cap T) \cap (S \ T)) = 0
    BY <2>1, FS_EmptySet
  <2>4. Cardinality(S \cap T) \in Nat /\ Cardinality(S \ T) \in Nat
    BY <1>1, FS_CardinalityType
  <2>5. Cardinality(S) = Cardinality(S \cap T) + Cardinality(S \ T) - 0
    BY <2>1, <2>2, <2>3
  <2> QED
    BY <2>4, <2>5
<1> QED
  BY <1>1, <1>2, FS_CardinalityType

\* Those of the kinds M are those of one kind m and the others.
Kinds(S, f, M) == {x \in S : f[x] \in M}

LEMMA KindApart ==
  ASSUME NEW S, IsFiniteSet(S), NEW f, NEW M, NEW m, m \notin M
  PROVE  /\ Cardinality(Kinds(S, f, M \cup {m})) = Cardinality(Kinds(S, f, {m})) + Cardinality(Kinds(S, f, M))
         /\ Cardinality(Kinds(S, f, {m})) \in Nat /\ Cardinality(Kinds(S, f, M)) \in Nat
<1>1. PICK K : K = Kinds(S, f, M \cup {m})
  OBVIOUS
<1>2. K \subseteq S
  BY <1>1 DEF Kinds
<1>3. IsFiniteSet(K)
  BY <1>2, FS_Subset
<1>4. /\ Cardinality(K) = Cardinality(K \cap Kinds(S, f, {m})) + Cardinality(K \ Kinds(S, f, {m}))
      /\ Cardinality(K \cap Kinds(S, f, {m})) \in Nat /\ Cardinality(K \ Kinds(S, f, {m})) \in Nat
  BY <1>3, CountApart
<1>5. K \cap Kinds(S, f, {m}) = Kinds(S, f, {m}) /\ K \ Kinds(S, f, {m}) = Kinds(S, f, M)
  BY <1>1 DEF Kinds
<1> QED
  BY <1>1, <1>4, <1>5

\* f tells six kinds apart.
Sorted(S, f, a, b, c, d, e, g) ==
  /\ a \notin {b, c, d, e, g} /\ b \notin {c, d, e, g} /\ c \notin {d, e, g} /\ d \notin {e, g} /\ e # g
  /\ \A x \in S : f[x] \in {a, b, c, d, e, g}

LEMMA SixKinds ==
  ASSUME NEW S, IsFiniteSet(S), NEW f, NEW a, NEW b, NEW c, NEW d, NEW e, NEW g, Sorted(S, f, a, b, c, d, e, g)
  PROVE  /\ Cardinality(S) = Cardinality(Kinds(S, f, {a})) + Cardinality(Kinds(S, f, {b}))
                             + Cardinality(Kinds(S, f, {c})) + Cardinality(Kinds(S, f, {d}))
                             + Cardinality(Kinds(S, f, {e})) + Cardinality(Kinds(S, f, {g}))
<1>0. /\ a \notin {b, c, d, e, g} /\ b \notin {c, d, e, g} /\ c \notin {d, e, g} /\ d \notin {e, g} /\ e \notin {g}
      /\ \A x \in S : f[x] \in {a, b, c, d, e, g}
  BY DEF Sorted
<1>1. /\ Cardinality(Kinds(S, f, {b, c, d, e, g} \cup {a})) =
           Cardinality(Kinds(S, f, {a})) + Cardinality(Kinds(S, f, {b, c, d, e, g}))
      /\ Cardinality(Kinds(S, f, {a})) \in Nat
  BY <1>0, KindApart
<1>2. /\ Cardinality(Kinds(S, f, {c, d, e, g} \cup {b})) =
           Cardinality(Kinds(S, f, {b})) + Cardinality(Kinds(S, f, {c, d, e, g}))
      /\ Cardinality(Kinds(S, f, {b})) \in Nat
  BY <1>0, KindApart
<1>3. /\ Cardinality(Kinds(S, f, {d, e, g} \cup {c})) =
           Cardinality(Kinds(S, f, {c})) + Cardinality(Kinds(S, f, {d, e, g}))
      /\ Cardinality(Kinds(S, f, {c})) \in Nat
  BY <1>0, KindApart
<1>4. /\ Cardinality(Kinds(S, f, {e, g} \cup {d})) =
           Cardinality(Kinds(S, f, {d})) + Cardinality(Kinds(S, f, {e, g}))
      /\ Cardinality(Kinds(S, f, {d})) \in Nat
  BY <1>0, KindApart
<1>5. /\ Cardinality(Kinds(S, f, {g} \cup {e})) =
           Cardinality(Kinds(S, f, {e})) + Cardinality(Kinds(S, f, {g}))
      /\ Cardinality(Kinds(S, f, {e})) \in Nat /\ Cardinality(Kinds(S, f, {g})) \in Nat
  BY <1>0, KindApart
<1>6. /\ {b, c, d, e, g} \cup {a} = {a, b, c, d, e, g} /\ {c, d, e, g} \cup {b} = {b, c, d, e, g}
      /\ {d, e, g} \cup {c} = {c, d, e, g} /\ {e, g} \cup {d} = {d, e, g} /\ {g} \cup {e} = {e, g}
  OBVIOUS
<1>7. Kinds(S, f, {a, b, c, d, e, g}) = S
  BY <1>0 DEF Kinds
<1>8. Cardinality(S) = Cardinality(Kinds(S, f, {a})) + Cardinality(Kinds(S, f, {b, c, d, e, g}))
  BY <1>1, <1>6, <1>7
<1>9. Cardinality(Kinds(S, f, {b, c, d, e, g})) = Cardinality(Kinds(S, f, {b})) + Cardinality(Kinds(S, f, {c, d, e, g}))
  BY <1>2, <1>6
<1>10. Cardinality(Kinds(S, f, {c, d, e, g})) = Cardinality(Kinds(S, f, {c})) + Cardinality(Kinds(S, f, {d, e, g}))
  BY <1>3, <1>6
<1>11. Cardinality(Kinds(S, f, {d, e, g})) = Cardinality(Kinds(S, f, {d})) + Cardinality(Kinds(S, f, {e, g}))
  BY <1>4, <1>6
<1>12. Cardinality(Kinds(S, f, {e, g})) = Cardinality(Kinds(S, f, {e})) + Cardinality(Kinds(S, f, {g}))
  BY <1>5, <1>6
<1> QED
  BY <1>1, <1>2, <1>3, <1>4, <1>5, <1>8, <1>9, <1>10, <1>11, <1>12

\* Every changed trace makes one of six transitions.
LEMMA SimulationCounts ==
  ASSUME NEW p, NEW ts, IsFiniteSet(ts), NEW r, r = Safety!simulatePolicyChange(p, ts)
  PROVE  /\ r.total = r.changed + r.unchanged
         /\ r.changed = LET m == r.moved IN
              m[<<"allow", "deny">>] + m[<<"allow", "review">>] + m[<<"deny", "allow">>]
                + m[<<"review", "allow">>] + m[<<"review", "deny">>] + m[<<"deny", "review">>]
<1>1. PICK C : C = Safety!Changed(p, ts)
  OBVIOUS
<1>2. C \subseteq ts /\ \A tr \in C : Safety!Before(tr) # Safety!After(p, tr)
  BY <1>1 DEF Safety!Changed
<1>3. IsFiniteSet(C)
  BY <1>2, FS_Subset
<1>4. /\ r.total = Cardinality(ts) /\ r.changed = Cardinality(C) /\ r.unchanged = Cardinality(ts \ C)
      /\ r.moved = [m \in Safety!Transitions |-> Safety!Moved(p, ts, m[1], m[2])]
  BY <1>1, SafetyCounts DEF Safety!simulatePolicyChange
<1>5. r.total = r.changed + r.unchanged
  <2>1. Cardinality(ts) = Cardinality(ts \cap C) + Cardinality(ts \ C) /\ ts \cap C = C
    BY <1>2, CountApart
  <2> QED
    BY <1>4, <2>1
<1>6. PICK f : f = [tr \in C |-> <<Safety!Before(tr), Safety!After(p, tr)>>]
  OBVIOUS
<1>7. \A tr : Safety!Before(tr) \in {"allow", "deny", "review"} /\ Safety!After(p, tr) \in {"allow", "deny", "review"}
  BY DEF Safety!Before, Safety!After
<1>8. ASSUME NEW tr \in C
      PROVE  f[tr] \in {<<"allow", "deny">>, <<"allow", "review">>, <<"deny", "allow">>,
                        <<"review", "allow">>, <<"review", "deny">>, <<"deny", "review">>}
  <2>1. PICK x, y : x = Safety!Before(tr) /\ y = Safety!After(p, tr)
    OBVIOUS
  <2>2. x \in {"allow", "deny", "review"} /\ y \in {"allow", "deny", "review"} /\ x # y /\ f[tr] = <<x, y>>
    BY <1>2, <1>6, <1>7, <2>1
  <2> QED
    BY <2>2
<1>9. ASSUME NEW x \in {"allow", "deny", "review"}, NEW y \in {"allow", "deny", "review"}, x # y
      PROVE  r.moved[<<x, y>>] = Cardinality(Kinds(C, f, {<<x, y>>}))
  <2>1. <<x, y>> \in Safety!Transitions
    BY <1>9 DEF Safety!Transitions
  <2>2. r.moved[<<x, y>>] = Safety!Moved(p, ts, x, y)
    BY <1>4, <2>1
  <2>3. {tr \in C : Safety!Before(tr) = x /\ Safety!After(p, tr) = y} = Kinds(C, f, {<<x, y>>})
    BY <1>6 DEF Kinds
  <2> QED
    BY <1>1, <2>2, <2>3, SafetyCounts DEF Safety!Moved
<1>10. Cardinality(C) =
         Cardinality(Kinds(C, f, {<<"allow", "deny">>})) + Cardinality(Kinds(C, f, {<<"allow", "review">>}))
         + Cardinality(Kinds(C, f, {<<"deny", "allow">>})) + Cardinality(Kinds(C, f, {<<"review", "allow">>}))
         + Cardinality(Kinds(C, f, {<<"review", "deny">>})) + Cardinality(Kinds(C, f, {<<"deny", "review">>}))
  <2>1. PICK a, b, c, d, e, g :
          /\ a = <<"allow", "deny">> /\ b = <<"allow", "review">> /\ c = <<"deny", "allow">>
          /\ d = <<"review", "allow">> /\ e = <<"review", "deny">> /\ g = <<"deny", "review">>
    OBVIOUS
  <2>2. /\ a \notin {b, c, d, e, g} /\ b \notin {c, d, e, g} /\ c \notin {d, e, g} /\ d \notin {e, g} /\ e # g
    BY <2>1
  <2>3. \A tr \in C : f[tr] \in {a, b, c, d, e, g}
    BY <1>8, <2>1
  <2>4. Cardinality(C) = Cardinality(Kinds(C, f, {a})) + Cardinality(Kinds(C, f, {b}))
                         + Cardinality(Kinds(C, f, {c})) + Cardinality(Kinds(C, f, {d}))
                         + Cardinality(Kinds(C, f, {e})) + Cardinality(Kinds(C, f, {g}))
    <3>1. Sorted(C, f, a, b, c, d, e, g)
      BY <2>2, <2>3 DEF Sorted
    <3> QED
      BY <1>3, <3>1, SixKinds
  <2> QED
    BY <2>1, <2>4
<1> QED
  BY <1>4, <1>5, <1>9, <1>10

---------------------------------------------------------------------------
(* PolicySafety: the page                                                  *)

\* While the review is on screen no simulation is under way, and the draft is
\* the one that was simulated unless it was edited meanwhile.
SafetyInv ==
  /\ step \in {"draft", "simulate", "review", "apply"} /\ edited \in BOOLEAN
  /\ draft \in PolicyDrafts /\ traces \in TraceSets \cup {None}
  /\ sim # Safety!NoSim => /\ sim.draft \in PolicyDrafts /\ sim.traces \in TraceSets
                           /\ ~edited => sim.draft = draft
  /\ result # None =>
       \E p \in PolicyDrafts, ts \in TraceSets : result = Safety!simulatePolicyChange(p, ts)
  /\ step \in {"review", "apply"} =>
       sim = Safety!NoSim /\ (result # None /\ ~edited => result.draft = draft)
  /\ step = "apply" => applied = draft

LEMMA StepsInOrder ==
  /\ Safety!Steps[1] = "draft" /\ Safety!Steps[2] = "simulate" /\ Safety!Steps[3] = "review"
  /\ Safety!Steps[4] = "apply"
  /\ Safety!Index("draft") = 1 /\ Safety!Index("simulate") = 2 /\ Safety!Index("review") = 3
  /\ Safety!Index("apply") = 4
<1>1. /\ Safety!Steps[1] = "draft" /\ Safety!Steps[2] = "simulate" /\ Safety!Steps[3] = "review"
      /\ Safety!Steps[4] = "apply"
  BY DEF Safety!Steps
<1>2. \A k \in 1..4 : k \in {1, 2, 3, 4}
  OBVIOUS
<1>3. ASSUME NEW k \in 1..4
      PROVE  Safety!Index(Safety!Steps[k]) = k
  <2>1. \A j \in 1..4 : Safety!Steps[j] = Safety!Steps[k] => j = k
    BY <1>1, <1>2
  <2> QED
    BY <2>1 DEF Safety!Index
<1> QED
  BY <1>1, <1>3

LEMMA SafetyStarts == Safety!Init => SafetyInv
<1> SUFFICES ASSUME Safety!Init PROVE SafetyInv
  OBVIOUS
<1> QED
  BY DEF Safety!Init, SafetyInv

\* The stepper reaches the review from the last step only.
LEMMA StepperBack ==
  ASSUME SafetyInv, NEW k \in 1..4, Safety!Stepper(Safety!Steps[k])
  PROVE  \/ step' \in {"draft", "simulate"}
         \/ step' = "review" /\ step = "apply"
<1>1. k \in {1, 2, 3, 4} /\ step' = Safety!Steps[k] /\ Safety!Index(Safety!Steps[k]) < Safety!Index(step)
  BY DEF Safety!Stepper, Safety!GoTo
<1>2. Safety!Index(step) \in {1, 2, 3, 4} /\ (Safety!Index(step) = 4 => step = "apply")
  BY StepsInOrder DEF SafetyInv
<1> QED
  BY <1>1, <1>2, StepsInOrder

LEMMA SafetyKeeps ==
  ASSUME SafetyInv, [Safety!Next]_(Safety!vars)
  PROVE  SafetyInv'
<1>1. CASE \E p \in PolicyDrafts : Safety!EditPolicy(p)
  BY <1>1 DEF Safety!EditPolicy, SafetyInv
<1>2. CASE \E ts \in TraceSets \cup {None} : Safety!EditTraces(ts)
  BY <1>2 DEF Safety!EditTraces, SafetyInv
<1>3. CASE \/ Safety!GoTo("draft", "simulate") \/ Safety!GoTo("simulate", "draft")
           \/ Safety!GoTo("review", "draft")
           \/ \E k \in 1..4 : Safety!Stepper(Safety!Steps[k])
  <2>1. UNCHANGED <<draft, traces, sim, result, error, applied, edited>>
    BY <1>3 DEF Safety!GoTo, Safety!Stepper
  <2>2. \/ step' \in {"draft", "simulate"}
        \/ step' = "review" /\ step = "apply"
    BY <1>3, StepperBack DEF Safety!GoTo
  <2> QED
    BY <2>1, <2>2 DEF SafetyInv
<1>4. CASE Safety!RunSimulation
  <2>1. CASE traces = None
    BY <1>4, <2>1 DEF Safety!RunSimulation, SafetyInv
  <2>2. CASE traces # None
    <3>1. sim'.draft = draft /\ sim'.traces = traces /\ edited' = FALSE
      BY <1>4, <2>2 DEF Safety!RunSimulation
    <3> QED
      BY <1>4, <2>2, <3>1 DEF Safety!RunSimulation, SafetyInv
  <2> QED
    BY <2>1, <2>2
<1>5. CASE Safety!Simulated
  <2>1. /\ result' = Safety!simulatePolicyChange(sim.draft, sim.traces)
        /\ sim.draft \in PolicyDrafts /\ sim.traces \in TraceSets /\ (~edited => sim.draft = draft)
        /\ step' = "review" /\ sim' = Safety!NoSim /\ UNCHANGED <<draft, traces, error, applied, edited>>
    BY <1>5 DEF Safety!Simulated, SafetyInv
  <2>2. result'.draft = sim.draft
    BY <2>1 DEF Safety!simulatePolicyChange
  <2> QED
    BY <2>1, <2>2 DEF SafetyInv
<1>6. CASE Safety!SimulationFails
  BY <1>6 DEF Safety!SimulationFails, SafetyInv
<1>7. CASE Safety!HandleApply
  BY <1>7 DEF Safety!HandleApply, SafetyInv
<1>8. CASE Safety!StartNew
  BY <1>8 DEF Safety!StartNew, SafetyInv
<1>9. CASE UNCHANGED Safety!vars
  BY <1>9 DEF Safety!vars, SafetyInv
<1> QED
  BY <1>1, <1>2, <1>3, <1>4, <1>5, <1>6, <1>7, <1>8, <1>9 DEF Safety!Next

LEMMA SafetyHolds ==
  ASSUME SafetyInv
  PROVE  Safety!SimulationAgrees /\ Safety!BlastCounts /\ Safety!AppliedAsReviewed
<1>1. Safety!SimulationAgrees
  BY SimulatorDecides DEF Safety!SimulationAgrees, SafetyInv
<1>2. Safety!AppliedAsReviewed
  BY DEF Safety!AppliedAsReviewed, SafetyInv
<1>3. Safety!BlastCounts
  <2> SUFFICES ASSUME result # None
               PROVE  /\ result.total = result.changed + result.unchanged
                      /\ result.changed = LET m == result.moved IN
                           m[<<"allow", "deny">>] + m[<<"allow", "review">>] + m[<<"deny", "allow">>]
                             + m[<<"review", "allow">>] + m[<<"review", "deny">>] + m[<<"deny", "review">>]
    BY DEF Safety!BlastCounts
  <2>1. PICK p \in PolicyDrafts, ts \in TraceSets : result = Safety!simulatePolicyChange(p, ts)
    BY DEF SafetyInv
  <2>2. IsFiniteSet(ts)
    BY PlatformAssumption
  <2> QED
    BY <2>1, <2>2, SimulationCounts
<1> QED
  BY <1>1, <1>2, <1>3

---------------------------------------------------------------------------
(* The inventory of non-human identities                                   *)

LEMMA InventoryCounts == \A S : Inventory!Cardinality(S) = Cardinality(S)
BY DEF Inventory!Cardinality, Cardinality

LEMMA GreatestIs ==
  ASSUME NEW S, S \subseteq Nat, NEW m \in S, \A y \in S : y <= m
  PROVE  Inventory!Max(S) = m
<1>1. \A x \in S : (\A y \in S : x >= y) => x = m
  <2> SUFFICES ASSUME NEW x \in S, \A y \in S : x >= y
               PROVE  x = m
    OBVIOUS
  <2>1. x \in Nat /\ m \in Nat /\ x >= m /\ x <= m
    OBVIOUS
  <2> QED
    BY <2>1
<1>2. m >= m /\ \A y \in S : m >= y
  OBVIOUS
<1> QED
  BY <1>1, <1>2 DEF Inventory!Max

LEMMA LesserIs ==
  ASSUME NEW a \in Nat, NEW b \in Nat
  PROVE  Inventory!Min({a, b}) = IF a <= b THEN a ELSE b
<1>1. PICK l \in {a, b} : l = (IF a <= b THEN a ELSE b)
  OBVIOUS
<1>2. l \in Nat /\ \A y \in {a, b} : l <= y
  BY <1>1
<1>3. \A x \in {a, b} : (\A y \in {a, b} : x =< y) => x = l
  BY <1>1
<1> QED
  BY <1>1, <1>2, <1>3 DEF Inventory!Min

LEMMA FewAre ==
  /\ \A a, b : IsFiniteSet({a, b}) /\ Cardinality({a, b}) <= 2
  /\ \A a, b, c : IsFiniteSet({a, b, c}) /\ Cardinality({a, b, c}) <= 3
<1>1. \A a, b : IsFiniteSet({a, b}) /\ Cardinality({a, b}) <= 2 /\ Cardinality({a, b}) \in Nat
  <2> SUFFICES ASSUME NEW a, NEW b
               PROVE  IsFiniteSet({a, b}) /\ Cardinality({a, b}) <= 2 /\ Cardinality({a, b}) \in Nat
    OBVIOUS
  <2>1. IsFiniteSet({a}) /\ Cardinality({a}) = 1
    BY FS_Singleton
  <2>2. /\ IsFiniteSet({a} \cup {b})
        /\ Cardinality({a} \cup {b}) = IF b \in {a} THEN Cardinality({a}) ELSE Cardinality({a}) + 1
    BY <2>1, FS_AddElement
  <2>3. {a} \cup {b} = {a, b}
    OBVIOUS
  <2> QED
    BY <2>1, <2>2, <2>3
<1>2. \A a, b, c : IsFiniteSet({a, b, c}) /\ Cardinality({a, b, c}) <= 3
  <2> SUFFICES ASSUME NEW a, NEW b, NEW c
               PROVE  IsFiniteSet({a, b, c}) /\ Cardinality({a, b, c}) <= 3
    OBVIOUS
  <2>1. /\ IsFiniteSet({a, b} \cup {c})
        /\ Cardinality({a, b} \cup {c}) =
             IF c \in {a, b} THEN Cardinality({a, b}) ELSE Cardinality({a, b}) + 1
    BY <1>1, FS_AddElement
  <2>2. {a, b} \cup {c} = {a, b, c}
    OBVIOUS
  <2>3. Cardinality({a, b}) <= 2 /\ Cardinality({a, b}) \in Nat
    BY ONLY <1>1
  <2>4. PICK n \in Nat : n = Cardinality({a, b})
    BY <2>3
  <2>5. n <= 2 /\ (Cardinality({a, b, c}) = n \/ Cardinality({a, b, c}) = n + 1)
    BY ONLY <2>1, <2>2, <2>3, <2>4
  <2>6. Cardinality({a, b, c}) <= 3
    BY ONLY <2>5, n \in Nat
  <2> QED
    BY ONLY <2>1, <2>2, <2>6
<1> QED
  BY ONLY <1>1, <1>2

\* What a check can find, and its severity.
Critical == {<<"offboarding", "critical">>, <<"wildcard", "critical">>}
High == {<<"admin", "high">>, <<"expiry", "high">>}
Medium == {<<"stale", "medium">>, <<"sprawl", "medium">>, <<"owner", "medium">>}

LEMMA FoundAre ==
  ASSUME NEW e \in Inventory!Entry
  PROVE  /\ Inventory!Findings(e) \subseteq Critical \cup High \cup Medium
         /\ <<"stale", "medium">> \in Inventory!Findings(e) <=> e.stale /\ e.status = "active"
<1>1. PICK A : A = {<<"offboarding", "critical">>, <<"stale", "medium">>, <<"wildcard", "critical">>,
          <<"admin", "high">>, <<"sprawl", "medium">>, <<"expiry", "high">>, <<"owner", "medium">>}
  OBVIOUS
<1>2. Inventory!Findings(e) =
        {f \in A : CASE f[1] = "offboarding" -> e.status # "active"
                     [] f[1] = "stale" -> e.stale /\ e.status = "active"
                     [] f[1] = "wildcard" -> e.wildcard
                     [] f[1] = "admin" -> e.admin
                     [] f[1] = "sprawl" -> e.sprawl
                     [] f[1] = "expiry" -> e.type = "api_key" /\ ~e.answered
                     [] f[1] = "owner" -> e.type = "registered_agent" /\ ~e.answered}
  BY <1>1 DEF Inventory!Findings
<1>3. A \subseteq Critical \cup High \cup Medium
  BY <1>1 DEF Critical, High, Medium
<1>4. PICK f : f = <<"stale", "medium">>
  OBVIOUS
<1>5. f \in A /\ f[1] = "stale"
  BY <1>1, <1>4
<1>6. f \in Inventory!Findings(e) <=> e.stale /\ e.status = "active"
  BY <1>2, <1>5
<1> QED
  BY <1>2, <1>3, <1>4, <1>6

LEMMA BySeverity ==
  \A f \in Critical \cup High \cup Medium :
    /\ f[2] \in {"critical", "high", "medium"}
    /\ (f[2] = "critical" <=> f \in Critical) /\ (f[2] = "medium" <=> f \in Medium)
    /\ (f[2] = "high" <=> f \in High)
<1>1. (\A f \in Critical : f[2] = "critical") /\ (\A f \in High : f[2] = "high")
      /\ (\A f \in Medium : f[2] = "medium")
  BY DEF Critical, High, Medium
<1> QED
  BY <1>1

\* An entry by the numbers of its findings of each severity.
Counted(e, c, h, m) ==
  LET F == Inventory!Findings(e) IN
  /\ c \in Nat /\ h \in Nat /\ m \in Nat
  /\ c = Inventory!HowMany(F, "critical") /\ h = Inventory!HowMany(F, "high")
  /\ m = Inventory!HowMany(F, "medium") /\ Inventory!Cardinality(F) = c + h + m
  /\ c = 0 <=> \A f \in F : f[2] # "critical"
  /\ h = 0 <=> \A f \in F : f[2] # "high"
  /\ m = 0 <=> \A f \in F : f[2] # "medium"
  /\ m <= 3
  /\ m = 3 => e.stale /\ e.status = "active"
  /\ e.stale /\ e.status = "active" => m > 0

LEMMA EntryCounted ==
  ASSUME NEW e \in Inventory!Entry
  PROVE  \E c, h, m : Counted(e, c, h, m)
<1>1. PICK F : F = Inventory!Findings(e)
  OBVIOUS
<1>2. /\ F \subseteq Critical \cup High \cup Medium
      /\ \A f \in F : f[2] \in {"critical", "high", "medium"}
      /\ \A f \in F : (f[2] = "critical" <=> f \in Critical) /\ (f[2] = "medium" <=> f \in Medium)
                      /\ (f[2] = "high" <=> f \in High)
      /\ <<"stale", "medium">> \in F <=> e.stale /\ e.status = "active"
  BY <1>1, FoundAre, BySeverity
<1>3. IsFiniteSet(Critical \cup High \cup Medium)
  <2>1. IsFiniteSet(Critical) /\ IsFiniteSet(High) /\ IsFiniteSet(Medium)
    BY FewAre DEF Critical, High, Medium
  <2>2. IsFiniteSet(Critical \cup High)
    BY <2>1, FS_Union
  <2> QED
    BY <2>1, <2>2, FS_Union
<1>4. IsFiniteSet(F)
  BY <1>2, <1>3, FS_Subset
<1>5. PICK C, H, M : /\ C = {f \in F : f[2] = "critical"} /\ H = {f \in F : f[2] = "high"}
                     /\ M = {f \in F : f[2] = "medium"}
  OBVIOUS
<1>6. /\ IsFiniteSet(C) /\ IsFiniteSet(H) /\ IsFiniteSet(M)
      /\ Cardinality(C) \in Nat /\ Cardinality(H) \in Nat /\ Cardinality(M) \in Nat
  <2>1. C \subseteq F /\ H \subseteq F /\ M \subseteq F
    BY <1>5
  <2>2. IsFiniteSet(C) /\ IsFiniteSet(H) /\ IsFiniteSet(M)
    BY <1>4, <2>1, FS_Subset
  <2> QED
    BY <2>2, FS_CardinalityType
<1>7. Cardinality(F) = Cardinality(C) + Cardinality(H) + Cardinality(M)
  <2>1. PICK R : R = F \ C
    OBVIOUS
  <2>2. F \cap C = C /\ R \cap H = H /\ R \ H = M
    BY <1>2, <1>5, <2>1
  <2>3. IsFiniteSet(R) /\ Cardinality(F) = Cardinality(C) + Cardinality(R)
    BY <1>4, <2>1, <2>2, CountApart
  <2>4. Cardinality(R) = Cardinality(H) + Cardinality(M)
    BY <2>2, <2>3, CountApart
  <2> QED
    BY <1>6, <2>3, <2>4
<1>8. /\ Cardinality(C) = 0 <=> \A f \in F : f[2] # "critical"
      /\ Cardinality(H) = 0 <=> \A f \in F : f[2] # "high"
      /\ Cardinality(M) = 0 <=> \A f \in F : f[2] # "medium"
  <2>1. /\ Cardinality(C) = 0 <=> C = {}
        /\ Cardinality(H) = 0 <=> H = {}
        /\ Cardinality(M) = 0 <=> M = {}
    BY <1>6, FS_EmptySet
  <2> QED
    BY <1>5, <2>1
<1>9. Cardinality(M) <= 3 /\ (Cardinality(M) = 3 => <<"stale", "medium">> \in F)
  <2>1. M \subseteq Medium
    BY <1>2, <1>5
  <2>2. Cardinality(Medium) <= 3 /\ IsFiniteSet(Medium) /\ Cardinality(Medium) \in Nat
    BY FewAre, FS_CardinalityType DEF Medium
  <2>3. Cardinality(M) <= Cardinality(Medium)
    BY <2>1, <2>2, FS_Subset
  <2>4. ASSUME <<"stale", "medium">> \notin F
        PROVE  Cardinality(M) <= 2
    <3>1. PICK L : L = {<<"sprawl", "medium">>, <<"owner", "medium">>}
      OBVIOUS
    <3>2. M \subseteq L
      BY <1>5, <2>1, <2>4, <3>1 DEF Medium
    <3>3. IsFiniteSet(L) /\ Cardinality(L) <= 2 /\ Cardinality(L) \in Nat
      BY <3>1, FewAre, FS_CardinalityType
    <3>4. Cardinality(M) <= Cardinality(L)
      BY <3>2, <3>3, FS_Subset
    <3> QED
      BY <1>6, <3>3, <3>4
  <2> QED
    BY <1>6, <2>2, <2>3, <2>4
<1>10. <<"stale", "medium">> \in F => Cardinality(M) > 0
  <2>1. <<"stale", "medium">>[2] = "medium"
    OBVIOUS
  <2> QED
    BY <1>6, <1>8, <2>1
<1>11. /\ Inventory!HowMany(F, "critical") = Cardinality(C) /\ Inventory!HowMany(F, "high") = Cardinality(H)
       /\ Inventory!HowMany(F, "medium") = Cardinality(M) /\ Inventory!Cardinality(F) = Cardinality(F)
  BY <1>5, InventoryCounts DEF Inventory!HowMany
<1>12. Counted(e, Cardinality(C), Cardinality(H), Cardinality(M))
  BY <1>1, <1>2, <1>6, <1>7, <1>8, <1>9, <1>10, <1>11 DEF Counted
<1> QED
  BY <1>12

\* The worst severity of some findings, and its weight.
Worst(c, h) == IF c > 0 THEN "critical" ELSE IF h > 0 THEN "high" ELSE "medium"
WorstWeight(c, h) == IF c > 0 THEN 100 ELSE IF h > 0 THEN 70 ELSE 40

LEMMA WorstIs ==
  ASSUME NEW e \in Inventory!Entry, NEW c, NEW h, NEW m, Counted(e, c, h, m), c + h + m > 0
  PROVE  /\ Inventory!Findings(e) # {}
         /\ Inventory!Max({Inventory!Weight[f[2]] : f \in Inventory!Findings(e)}) = WorstWeight(c, h)
         /\ Inventory!Max({Inventory!Levels[f[2]] : f \in Inventory!Findings(e)}) = Inventory!Levels[Worst(c, h)]
<1>1. PICK F : F = Inventory!Findings(e)
  OBVIOUS
<1>2. /\ c \in Nat /\ h \in Nat /\ m \in Nat
      /\ c = 0 <=> \A f \in F : f[2] # "critical"
      /\ h = 0 <=> \A f \in F : f[2] # "high"
      /\ m = 0 <=> \A f \in F : f[2] # "medium"
  BY <1>1 DEF Counted
<1>3. \A f \in F : f[2] \in {"critical", "high", "medium"}
  BY <1>1, FoundAre, BySeverity
<1>4. PICK s : s = Worst(c, h)
  OBVIOUS
<1>5. s \in {"critical", "high", "medium"} /\ \E f \in F : f[2] = s
  <2>1. CASE c > 0
    BY <1>2, <1>4, <2>1 DEF Worst
  <2>2. CASE c = 0 /\ h > 0
    BY <1>2, <1>4, <2>2 DEF Worst
  <2>3. CASE c = 0 /\ h = 0
    BY <1>2, <1>4, <2>3 DEF Worst
  <2> QED
    BY <1>2, <2>1, <2>2, <2>3
<1>6. PICK g \in F : g[2] = s
  BY <1>5
<1>7. /\ Inventory!Weight["critical"] = 100 /\ Inventory!Weight["high"] = 70 /\ Inventory!Weight["medium"] = 40
      /\ Inventory!Levels["critical"] = 4 /\ Inventory!Levels["high"] = 3 /\ Inventory!Levels["medium"] = 2
  BY DEF Inventory!Weight, Inventory!Levels
<1>8. /\ Inventory!Weight[s] = WorstWeight(c, h)
      /\ \A f \in F : Inventory!Weight[f[2]] \in Nat /\ Inventory!Weight[f[2]] <= Inventory!Weight[s]
      /\ \A f \in F : Inventory!Levels[f[2]] \in Nat /\ Inventory!Levels[f[2]] <= Inventory!Levels[s]
  <2>1. CASE c > 0
    BY <1>3, <1>4, <1>7, <2>1 DEF Worst, WorstWeight
  <2>2. CASE c = 0 /\ h > 0
    BY <1>2, <1>3, <1>4, <1>7, <2>2 DEF Worst, WorstWeight
  <2>3. CASE c = 0 /\ h = 0
    BY <1>2, <1>3, <1>4, <1>7, <2>3 DEF Worst, WorstWeight
  <2> QED
    BY <1>2, <2>1, <2>2, <2>3
<1>9. Inventory!Max({Inventory!Weight[f[2]] : f \in F}) = Inventory!Weight[s]
  <2>1. PICK S : S = {Inventory!Weight[f[2]] : f \in F}
    OBVIOUS
  <2>2. S \subseteq Nat /\ Inventory!Weight[s] \in S /\ \A y \in S : y <= Inventory!Weight[s]
    BY <1>6, <1>8, <2>1
  <2> QED
    BY <2>1, <2>2, GreatestIs
<1>10. Inventory!Max({Inventory!Levels[f[2]] : f \in F}) = Inventory!Levels[s]
  <2>1. PICK S : S = {Inventory!Levels[f[2]] : f \in F}
    OBVIOUS
  <2>2. S \subseteq Nat /\ Inventory!Levels[s] \in S /\ \A y \in S : y <= Inventory!Levels[s]
    BY <1>6, <1>8, <2>1
  <2> QED
    BY <2>1, <2>2, GreatestIs
<1> QED
  BY <1>1, <1>4, <1>6, <1>8, <1>9, <1>10

\* The score of an entry with findings; without any it is 0 of 0.
Sum(e, c, h, m) == 100 * c + 70 * h + 40 * m + (c + h + m) * WorstWeight(c, h)
                   + (IF e.status = "active" /\ e.stale THEN 20 * (c + h + m) ELSE 0)

LEMMA ScoreIs ==
  ASSUME NEW e \in Inventory!Entry, NEW c, NEW h, NEW m, Counted(e, c, h, m), c + h + m > 0
  PROVE  /\ Sum(e, c, h, m) \in Nat
         /\ Inventory!Score(e) = <<IF Sum(e, c, h, m) <= 200 * (c + h + m) THEN Sum(e, c, h, m)
                                   ELSE 200 * (c + h + m), c + h + m>>
<1>1. PICK F : F = Inventory!Findings(e)
  OBVIOUS
<1>2. /\ c \in Nat /\ h \in Nat /\ m \in Nat /\ Inventory!Cardinality(F) = c + h + m
      /\ c = Inventory!HowMany(F, "critical") /\ h = Inventory!HowMany(F, "high")
      /\ m = Inventory!HowMany(F, "medium")
  BY <1>1 DEF Counted
<1>3. Inventory!Total(F) = 100 * c + 70 * h + 40 * m
  BY <1>2 DEF Inventory!Total, Inventory!Weight
<1>4. PICK w : w = WorstWeight(c, h)
  OBVIOUS
<1>5. F # {} /\ Inventory!Max({Inventory!Weight[f[2]] : f \in F}) = w /\ w \in Nat
  BY <1>1, <1>4, WorstIs DEF WorstWeight
<1>6. PICK n \in Nat : n = c + h + m
  BY <1>2
<1>7. PICK late \in Nat : late = (IF e.status = "active" /\ e.stale THEN 20 * n ELSE 0)
  OBVIOUS
<1>8. PICK t : t = Inventory!Total(F) + n * w + late
  OBVIOUS
<1>9. n * w \in Nat
  BY <1>5
<1>10. t \in Nat /\ 200 * n \in Nat
  BY <1>2, <1>3, <1>8, <1>9
<1>11. t = Sum(e, c, h, m)
  BY <1>3, <1>4, <1>6, <1>7, <1>8 DEF Sum
<1>12. Inventory!Score(e) = <<Inventory!Min({t, 200 * n}), n>>
  <2>1. Inventory!Cardinality(F) = n
    BY <1>2, <1>6
  <2>2. Inventory!Score(e) = <<Inventory!Min({Inventory!Total(F) + n * w + late, 200 * n}), n>>
    BY <1>1, <1>5, <1>7, <2>1, Zenon DEF Inventory!Score
  <2> QED
    BY <1>8, <2>2
<1>13. Inventory!Min({t, 200 * n}) = IF t <= 200 * n THEN t ELSE 200 * n
  BY <1>10, LesserIs
<1> QED
  BY <1>6, <1>10, <1>11, <1>12, <1>13

LEMMA ScoreNone ==
  ASSUME NEW e \in Inventory!Entry, NEW c, NEW h, NEW m, Counted(e, c, h, m), c + h + m = 0
  PROVE  Inventory!Findings(e) = {} /\ Inventory!Score(e) = <<0, 0>> /\ Inventory!Level(e) = "none"
<1>1. PICK F : F = Inventory!Findings(e)
  OBVIOUS
<1>2. c = 0 /\ h = 0 /\ m = 0 /\ Inventory!Cardinality(F) = 0
  <2>1. c \in Nat /\ h \in Nat /\ m \in Nat /\ Inventory!Cardinality(F) = c + h + m
    BY <1>1 DEF Counted
  <2> QED
    BY ONLY c + h + m = 0, <2>1
<1>3. F = {}
  BY <1>1, <1>2, FoundAre, BySeverity DEF Counted
<1>4. Inventory!Total(F) = 0
  BY <1>1, <1>2 DEF Inventory!Total, Inventory!Weight, Counted
<1>5. Inventory!Score(e) = <<Inventory!Min({0 + 0 * 0 + 0, 200 * 0}), 0>>
  BY <1>1, <1>2, <1>3, <1>4 DEF Inventory!Score
<1>6. Inventory!Min({0, 0}) = 0
  BY LesserIs
<1>7. Inventory!Score(e) = <<0, 0>>
  BY <1>5, <1>6
<1>8. Inventory!Level(e) = "none"
  BY <1>7 DEF Inventory!Level
<1> QED
  BY <1>1, <1>3, <1>7, <1>8

\* The level of a score.
LevelIs(x, n) == IF n = 0 THEN "none" ELSE IF x >= 160 * n THEN "critical"
                 ELSE IF x >= 110 * n THEN "high" ELSE IF x >= 60 * n THEN "medium" ELSE "low"

LEMMA LevelOfScore ==
  ASSUME NEW e, NEW x \in Nat, NEW n \in Nat, Inventory!Score(e) = <<x, n>>
  PROVE  Inventory!Level(e) = LevelIs(x, n)
<1>1. Inventory!Level(e) =
        CASE n = 0 -> "none"
          [] n > 0 /\ x >= 160 * n -> "critical"
          [] n > 0 /\ x >= 110 * n /\ x < 160 * n -> "high"
          [] n > 0 /\ x >= 60 * n /\ x < 110 * n -> "medium"
          [] OTHER -> "low"
  BY DEF Inventory!Level
<1>2. CASE n = 0
  BY <1>1, <1>2 DEF LevelIs
<1>3. CASE n > 0 /\ x >= 160 * n
  BY <1>1, <1>3 DEF LevelIs
<1>4. CASE n > 0 /\ x < 160 * n /\ x >= 110 * n
  BY <1>1, <1>4 DEF LevelIs
<1>5. CASE n > 0 /\ x < 110 * n /\ x >= 60 * n
  BY <1>1, <1>5 DEF LevelIs
<1>6. CASE n > 0 /\ x < 60 * n
  BY <1>1, <1>6 DEF LevelIs
<1> QED
  BY <1>2, <1>3, <1>4, <1>5, <1>6

LEMMA LevelWorst ==
  ASSUME NEW e \in Inventory!Entry
  PROVE  IF Inventory!Findings(e) = {} THEN Inventory!Level(e) = "none"
         ELSE Inventory!Levels[Inventory!Level(e)]
                = Inventory!Max({Inventory!Levels[f[2]] : f \in Inventory!Findings(e)})
<1>1. PICK c, h, m : Counted(e, c, h, m)
  BY EntryCounted
<1>2. /\ c \in Nat /\ h \in Nat /\ m \in Nat /\ m <= 3
      /\ m = 3 => e.stale /\ e.status = "active"
      /\ e.stale /\ e.status = "active" => m > 0
  BY <1>1 DEF Counted
<1>3. CASE c + h + m = 0
  BY <1>1, <1>3, ScoreNone
<1>4. CASE c + h + m > 0
  <2>1. PICK n \in Nat : n = c + h + m
    BY <1>2
  <2>2. PICK t \in Nat : t = Sum(e, c, h, m)
    BY <1>1, <1>4, ScoreIs
  <2>3. PICK x \in Nat : x = IF t <= 200 * n THEN t ELSE 200 * n
    BY <2>1
  <2>4. Inventory!Score(e) = <<x, n>>
    BY <1>1, <1>4, <2>1, <2>2, <2>3, ScoreIs
  <2>5. Inventory!Level(e) = LevelIs(x, n)
    BY <2>4, LevelOfScore
  <2>6. PICK late \in Nat : late = (IF e.status = "active" /\ e.stale THEN 20 * n ELSE 0)
    OBVIOUS
  <2>7. (m = 3 => late = 20 * n) /\ (late = 0 \/ (late = 20 * n /\ m > 0))
    BY <1>2, <2>6
  <2>0. /\ Inventory!Findings(e) # {}
        /\ Inventory!Max({Inventory!Levels[f[2]] : f \in Inventory!Findings(e)}) = Inventory!Levels[Worst(c, h)]
    BY <1>1, <1>4, WorstIs
  <2>8. CASE c > 0
    <3>1. t = 100 * c + 70 * h + 40 * m + 100 * n + late
      BY <1>2, <2>1, <2>2, <2>6, <2>8 DEF Sum, WorstWeight
    <3>2. x >= 160 * n
      BY <1>2, <2>1, <2>3, <2>7, <2>8, <3>1
    <3>3. Inventory!Level(e) = "critical"
      BY <1>4, <2>1, <2>5, <3>2 DEF LevelIs
    <3> QED
      BY <2>0, <2>8, <3>3 DEF Worst
  <2>9. CASE c = 0 /\ h > 0
    <3>1. t = 70 * h + 40 * m + 70 * n + late
      BY <1>2, <2>1, <2>2, <2>6, <2>9 DEF Sum, WorstWeight
    <3>2. x >= 110 * n /\ x < 160 * n
      BY <1>2, <2>1, <2>3, <2>7, <2>9, <3>1
    <3>3. Inventory!Level(e) = "high"
      BY <1>4, <2>1, <2>5, <3>2 DEF LevelIs
    <3> QED
      <4>1. Worst(c, h) = "high"
        BY <2>9 DEF Worst
      <4> QED
        BY <2>0, <3>3, <4>1
  <2>10. CASE c = 0 /\ h = 0
    <3>1. t = 40 * m + 40 * n + late
      BY <1>2, <2>1, <2>2, <2>6, <2>10 DEF Sum, WorstWeight
    <3>2. x >= 60 * n /\ x < 110 * n
      BY <1>2, <1>4, <2>1, <2>3, <2>7, <2>10, <3>1
    <3>3. Inventory!Level(e) = "medium"
      BY <1>4, <2>1, <2>5, <3>2 DEF LevelIs
    <3> QED
      <4>1. Worst(c, h) = "medium"
        BY <2>10 DEF Worst
      <4> QED
        BY <2>0, <3>3, <4>1
  <2> QED
    BY <1>2, <2>8, <2>9, <2>10
<1> QED
  BY <1>2, <1>3, <1>4

\* An answer to one of the two requests: rows of the kind it asks for, each
\* identity once.
Answer == [st : {"idle", "sent", "read", "rejected"}, rows : SUBSET (Identities \X Inventory!Entry)]
RowsSound(rs, kind, w) ==
  /\ IsFiniteSet(rs)
  /\ \A r \in rs : r[2].type = kind /\ w[r[1]].type = kind
  /\ \A r, o \in rs : r[1] = o[1] => r = o
Fetches(f, w) ==
  /\ f \in [agents : Answer, keys : Answer]
  /\ RowsSound(f.agents.rows, "registered_agent", w)
  /\ RowsSound(f.keys.rows, "api_key", w)

\* The page: the level of every entry, the riskiest first, no identity twice.
Ranks(l) ==
  /\ \A k \in DOMAIN l : l[k].entry \in Inventory!Entry /\ l[k].level = Inventory!Level(l[k].entry)
  /\ \A j, k \in DOMAIN l : j < k =>
       ~Inventory!Below(Inventory!Score(l[j].entry), Inventory!Score(l[k].entry))
  /\ \A j, k \in DOMAIN l : l[j].id = l[k].id => j = k

InventoryInv ==
  /\ world \in [Identities -> Inventory!Entry]
  /\ nhisLoading \in BOOLEAN /\ scanning \in BOOLEAN
  /\ Fetches(fetched, world)
  /\ nhisLoading => fetched.agents.st # "idle"
  /\ Ranks(nhis)

LEMMA NoRows == ASSUME NEW kind, NEW w PROVE RowsSound({}, kind, w)
BY FS_EmptySet DEF RowsSound

LEMMA Answers3 ==
  /\ \A st \in {"idle", "sent", "read", "rejected"} : [st |-> st, rows |-> {}] \in Answer
  /\ \A w : Fetches(Inventory!Ask, w) /\ Fetches(Inventory!Done, w)
  /\ Inventory!Ask.agents.st = "sent" /\ Inventory!Done.agents.st = "idle"
<1>1. \A st \in {"idle", "sent", "read", "rejected"} : [st |-> st, rows |-> {}] \in Answer
  BY DEF Answer
<1>2. /\ Inventory!Ask \in [agents : Answer, keys : Answer] /\ Inventory!Done \in [agents : Answer, keys : Answer]
      /\ Inventory!Ask.agents.rows = {} /\ Inventory!Ask.keys.rows = {} /\ Inventory!Ask.agents.st = "sent"
      /\ Inventory!Done.agents.rows = {} /\ Inventory!Done.keys.rows = {} /\ Inventory!Done.agents.st = "idle"
  BY <1>1 DEF Inventory!Ask, Inventory!Done
<1> QED
  BY <1>1, <1>2, NoRows DEF Fetches

LEMMA InventoryStarts ==
  ASSUME Inventory!Init
  PROVE  InventoryInv
<1>1. /\ world \in [Identities -> Inventory!Entry] /\ nhis = <<>> /\ fetched = Inventory!Ask
      /\ nhisLoading = TRUE /\ scanning = FALSE
  BY PlatformAssumption DEF Inventory!Init
<1>2. DOMAIN nhis = {}
  BY <1>1
<1>3. Ranks(nhis)
  BY <1>2 DEF Ranks
<1> QED
  BY <1>1, <1>3, Answers3 DEF InventoryInv

\* What a request reads of the table.
LEMMA RowsRead ==
  ASSUME world \in [Identities -> Inventory!Entry], NEW kind, NEW rs,
         rs = {<<i, world[i]>> : i \in {j \in Identities : world[j].type = kind}}
  PROVE  rs \subseteq Identities \X Inventory!Entry /\ RowsSound(rs, kind, world)
<1>1. PICK I : I = {j \in Identities : world[j].type = kind}
  OBVIOUS
<1>2. IsFiniteSet(I)
  BY <1>1, PlatformAssumption, FS_Subset
<1>3. IsFiniteSet({<<i, world[i]>> : i \in I})
  <2>1. PICK T : T = {<<i, world[i]>> : i \in I}
    OBVIOUS
  <2>2. PICK f : f = [i \in I |-> <<i, world[i]>>]
    OBVIOUS
  <2>3. f \in Surjection(I, T)
    BY <2>1, <2>2 DEF Surjection
  <2> QED
    BY <1>2, <2>1, <2>3, FS_Surjection
<1>4. \A r \in rs : \E i \in I : r = <<i, world[i]>> /\ r[1] = i /\ r[2] = world[i] /\ i \in Identities
  BY <1>1
<1>5. rs \subseteq Identities \X Inventory!Entry
  BY <1>4
<1>6. /\ \A r \in rs : r[2].type = kind /\ world[r[1]].type = kind
      /\ \A r, o \in rs : r[1] = o[1] => r = o
  BY <1>1, <1>4
<1> QED
  BY <1>1, <1>3, <1>5, <1>6 DEF RowsSound

LEMMA ServeKeeps ==
  ASSUME InventoryInv, NEW which \in {"agents", "keys"}, Inventory!Serve(which)
  PROVE  InventoryInv'
<1>1. UNCHANGED <<world, nhis, nhisLoading, scanning>>
  BY DEF Inventory!Serve
<1>2. PICK kind : kind = Inventory!Kind(which)
  OBVIOUS
<1>3. PICK a : /\ fetched' = [fetched EXCEPT ![which] = a]
               /\ a \in Answer /\ a.st # "idle" /\ RowsSound(a.rows, kind, world)
  <2>1. PICK rs : rs = {<<i, world[i]>> : i \in {j \in Identities : world[j].type = kind}}
    OBVIOUS
  <2>2. rs \subseteq Identities \X Inventory!Entry /\ RowsSound(rs, kind, world)
    BY <2>1, RowsRead DEF InventoryInv
  <2>3. CASE fetched' = [fetched EXCEPT ![which] = [st |-> "read", rows |-> rs]]
    <3>1. PICK a : a = [st |-> "read", rows |-> rs]
      OBVIOUS
    <3>2. a \in Answer /\ a.st # "idle" /\ a.rows = rs
      BY <2>2, <3>1 DEF Answer
    <3> QED
      BY <2>2, <2>3, <3>1, <3>2
  <2>4. CASE \E st \in {"read", "rejected"} : fetched' = [fetched EXCEPT ![which] = [st |-> st, rows |-> {}]]
    <3>1. PICK st \in {"read", "rejected"} : fetched' = [fetched EXCEPT ![which] = [st |-> st, rows |-> {}]]
      BY <2>4
    <3>2. PICK a : a = [st |-> st, rows |-> {}]
      OBVIOUS
    <3>3. a \in Answer /\ a.st # "idle" /\ a.rows = {}
      BY <3>2 DEF Answer
    <3> QED
      BY <3>1, <3>2, <3>3, NoRows
  <2> QED
    BY <1>2, <2>1, <2>3, <2>4 DEF Inventory!Serve
<1>4. PICK f : f = fetched'
  OBVIOUS
<1>5. fetched \in [agents : Answer, keys : Answer]
  BY DEF InventoryInv, Fetches
<1>6. CASE which = "agents"
  <2>1. /\ f \in [agents : Answer, keys : Answer] /\ f.agents = a /\ f.keys = fetched.keys
    BY <1>3, <1>4, <1>5, <1>6
  <2>2. kind = "registered_agent"
    BY <1>2, <1>6 DEF Inventory!Kind
  <2>3. Fetches(f, world) /\ f.agents.st # "idle"
    BY <1>3, <2>1, <2>2 DEF InventoryInv, Fetches
  <2> QED
    BY <1>1, <1>4, <2>3 DEF InventoryInv
<1>7. CASE which = "keys"
  <2>1. /\ f \in [agents : Answer, keys : Answer] /\ f.keys = a /\ f.agents = fetched.agents
    BY <1>3, <1>4, <1>5, <1>7
  <2>2. kind = "api_key"
    BY <1>2, <1>7 DEF Inventory!Kind
  <2>3. Fetches(f, world) /\ (nhisLoading => f.agents.st # "idle")
    BY <1>3, <2>1, <2>2 DEF InventoryInv, Fetches
  <2> QED
    BY <1>1, <1>4, <2>3 DEF InventoryInv
<1> QED
  BY <1>6, <1>7

LEMMA ShowKeeps ==
  ASSUME InventoryInv, Inventory!Show
  PROVE  InventoryInv'
<1>1. /\ fetched' = Inventory!Done /\ nhisLoading' = FALSE /\ scanning' = FALSE /\ world' = world
  BY DEF Inventory!Show
<1>2. PICK L : L = Inventory!Listed
  OBVIOUS
<1>3. PICK q \in Inventory!Ranked(L) :
        nhis' = [k \in DOMAIN q |-> [id |-> q[k][1], entry |-> q[k][2], level |-> Inventory!Level(q[k][2])]]
  BY <1>2 DEF Inventory!Show
<1>4. PICK A, K : A = fetched.agents.rows /\ K = fetched.keys.rows
  OBVIOUS
<1>5. /\ A \subseteq Identities \X Inventory!Entry /\ K \subseteq Identities \X Inventory!Entry
      /\ RowsSound(A, "registered_agent", world) /\ RowsSound(K, "api_key", world)
  BY <1>4 DEF InventoryInv, Fetches, Answer
<1>6. L \subseteq A \cup K
  BY <1>2, <1>4 DEF Inventory!Listed
<1>7. IsFiniteSet(L) /\ Cardinality(L) \in Nat
  <2>1. IsFiniteSet(A) /\ IsFiniteSet(K)
    BY <1>5 DEF RowsSound
  <2>2. IsFiniteSet(A \cup K)
    BY <2>1, FS_Union
  <2> QED
    BY <1>6, <2>2, FS_Subset, FS_CardinalityType
<1>8. PICK n \in Nat : n = Cardinality(L)
  BY <1>7
<1>9. /\ q \in [1..n -> L]
      /\ \A j, k \in 1..n : j < k => q[j] # q[k] /\ ~Inventory!Below(Inventory!Score(q[j][2]), Inventory!Score(q[k][2]))
  BY <1>3, <1>8, InventoryCounts DEF Inventory!Ranked, Inventory!Orders
<1>10. PICK l : l = nhis'
  OBVIOUS
<1>11. DOMAIN l = 1..n /\ \A k \in 1..n : l[k].id = q[k][1] /\ l[k].entry = q[k][2] /\ l[k].level = Inventory!Level(q[k][2])
  BY <1>3, <1>9, <1>10
<1>12. \A r \in L : r[2] \in Inventory!Entry
  BY <1>5, <1>6
<1>13. \A r, o \in L : r[1] = o[1] => r = o
  <2> SUFFICES ASSUME NEW r \in L, NEW o \in L, r[1] = o[1]
               PROVE  r = o
    OBVIOUS
  <2>1. (r \in A /\ o \in A) \/ (r \in K /\ o \in K) => r = o
    BY <1>5 DEF RowsSound
  <2>2. ~(r \in A /\ o \in K) /\ ~(r \in K /\ o \in A)
    BY <1>5 DEF RowsSound
  <2> QED
    BY <1>6, <2>1, <2>2
<1>14. \A j, k \in 1..n : l[j].id = l[k].id => j = k
  <2> SUFFICES ASSUME NEW j \in 1..n, NEW k \in 1..n, l[j].id = l[k].id
               PROVE  j = k
    OBVIOUS
  <2>1. q[j] = q[k]
    BY <1>9, <1>11, <1>13
  <2>2. j < k \/ k < j \/ j = k
    OBVIOUS
  <2> QED
    BY <1>9, <2>1, <2>2
<1>15. Ranks(l)
  BY <1>9, <1>11, <1>12, <1>14 DEF Ranks
<1> QED
  BY <1>1, <1>10, <1>15, Answers3 DEF InventoryInv

LEMMA RetireKeeps ==
  ASSUME InventoryInv, NEW i \in Identities, NEW status \in {"suspended", "revoked"}, Inventory!Retire(i, status)
  PROVE  InventoryInv'
<1>1. world' = [world EXCEPT ![i].status = status] /\ UNCHANGED <<nhis, fetched, nhisLoading, scanning>>
  BY DEF Inventory!Retire
<1>2. PICK w : w = world'
  OBVIOUS
<1>3. w \in [Identities -> Inventory!Entry] /\ \A o \in Identities : w[o].type = world[o].type
  BY <1>1, <1>2 DEF InventoryInv, Inventory!Entry
<1>4. \A rs, kind : rs \subseteq Identities \X Inventory!Entry /\ RowsSound(rs, kind, world) => RowsSound(rs, kind, w)
  BY <1>3 DEF RowsSound
<1>5. Fetches(fetched, w)
  BY <1>4 DEF InventoryInv, Fetches, Answer
<1> QED
  BY <1>1, <1>2, <1>3, <1>5 DEF InventoryInv

LEMMA InventoryKeeps ==
  ASSUME InventoryInv, [Inventory!Next]_(Inventory!vars)
  PROVE  InventoryInv'
<1>1. ASSUME Inventory!Reject PROVE InventoryInv'
  BY <1>1, Answers3 DEF Inventory!Reject, InventoryInv
<1>2. ASSUME Inventory!HandleScan PROVE InventoryInv'
  BY <1>2, Answers3 DEF Inventory!HandleScan, InventoryInv
<1>3. ASSUME UNCHANGED Inventory!vars PROVE InventoryInv'
  BY <1>3 DEF Inventory!vars, InventoryInv
<1> QED
  BY <1>1, <1>2, <1>3, ServeKeeps, ShowKeeps, RetireKeeps DEF Inventory!Next

\* A score that is no lower has no lower level.
LEMMA Cross ==
  ASSUME NEW a \in Nat, NEW b \in Nat, NEW c \in Nat, c > 0, a < b
  PROVE  a * c < b * c
OBVIOUS

LEMMA LevelsDescend ==
  ASSUME NEW x \in Nat, NEW n \in Nat, NEW y \in Nat, NEW p \in Nat, ~Inventory!Below(<<x, n>>, <<y, p>>)
  PROVE  Inventory!Levels[LevelIs(x, n)] >= Inventory!Levels[LevelIs(y, p)]
<1>1. IF n = 0 THEN p = 0 ELSE p = 0 \/ ~(x * p < y * n)
  BY DEF Inventory!Below
<1>2. ASSUME NEW t \in Nat, p > 0, n > 0, y >= t * p
      PROVE  x >= t * n
  <2> SUFFICES ASSUME x < t * n
               PROVE  FALSE
    BY t * n \in Nat
  <2>1. x * p < (t * n) * p
    BY <1>2, t * n \in Nat, Cross
  <2>2. (t * p) * n <= y * n
    <3>1. t * p \in Nat
      OBVIOUS
    <3>2. CASE t * p = y
      BY <3>2
    <3>3. CASE t * p < y
      BY <1>2, <3>1, <3>3, Cross
    <3> QED
      BY <1>2, <3>1, <3>2, <3>3
  <2>3. (t * p) * n = (t * n) * p
    OBVIOUS
  <2>4. ~(x * p < y * n)
    BY <1>1, <1>2
  <2> QED
    BY <2>1, <2>2, <2>3, <2>4
<1>3. /\ Inventory!Levels["critical"] = 4 /\ Inventory!Levels["high"] = 3 /\ Inventory!Levels["medium"] = 2
      /\ Inventory!Levels["low"] = 1 /\ Inventory!Levels["none"] = 0
  BY DEF Inventory!Levels
<1>4. CASE p = 0
  BY <1>3, <1>4 DEF LevelIs
<1>5. CASE p > 0
  <2>1. n > 0
    BY <1>1, <1>5
  <2>2. /\ y >= 160 * p => x >= 160 * n
        /\ y >= 110 * p => x >= 110 * n
        /\ y >= 60 * p => x >= 60 * n
    BY <1>2, <1>5, <2>1
  <2> QED
    BY <1>3, <1>5, <2>1, <2>2 DEF LevelIs
<1> QED
  BY <1>4, <1>5

LEMMA Scored ==
  ASSUME NEW e \in Inventory!Entry
  PROVE  \E x, n \in Nat : Inventory!Score(e) = <<x, n>> /\ Inventory!Level(e) = LevelIs(x, n)
<1>1. PICK c, h, m : Counted(e, c, h, m)
  BY EntryCounted
<1>2. c \in Nat /\ h \in Nat /\ m \in Nat
  BY <1>1 DEF Counted
<1>3. CASE c + h + m = 0
  <2>1. Inventory!Score(e) = <<0, 0>> /\ 0 \in Nat
    BY <1>1, <1>3, ScoreNone
  <2> QED
    BY <2>1, LevelOfScore
<1>4. CASE c + h + m > 0
  <2>1. PICK n \in Nat : n = c + h + m
    BY <1>2
  <2>2. PICK t \in Nat : t = Sum(e, c, h, m)
    BY <1>1, <1>4, ScoreIs
  <2>3. PICK x \in Nat : x = IF t <= 200 * n THEN t ELSE 200 * n
    BY <2>1
  <2>4. Inventory!Score(e) = <<x, n>>
    BY <1>1, <1>4, <2>1, <2>2, <2>3, ScoreIs
  <2> QED
    BY <2>4, LevelOfScore
<1> QED
  BY <1>2, <1>3, <1>4

LEMMA InventoryHolds ==
  ASSUME InventoryInv
  PROVE  Inventory!LevelIsWorst /\ Inventory!RiskiestFirst
<1>1. Inventory!LevelIsWorst
  BY LevelWorst DEF InventoryInv, Ranks, Inventory!LevelIsWorst
<1>2. ASSUME NEW j \in DOMAIN nhis, NEW k \in DOMAIN nhis, j < k
      PROVE  Inventory!Levels[nhis[j].level] >= Inventory!Levels[nhis[k].level]
  <2>1. PICK a, b : a = nhis[j].entry /\ b = nhis[k].entry
    OBVIOUS
  <2>2. /\ a \in Inventory!Entry /\ b \in Inventory!Entry
        /\ nhis[j].level = Inventory!Level(a) /\ nhis[k].level = Inventory!Level(b)
        /\ ~Inventory!Below(Inventory!Score(a), Inventory!Score(b))
    BY <1>2, <2>1 DEF InventoryInv, Ranks
  <2>3. PICK x \in Nat, n \in Nat : Inventory!Score(a) = <<x, n>> /\ Inventory!Level(a) = LevelIs(x, n)
    BY <2>2, Scored
  <2>4. PICK y \in Nat, p \in Nat : Inventory!Score(b) = <<y, p>> /\ Inventory!Level(b) = LevelIs(y, p)
    BY <2>2, Scored
  <2> QED
    BY <2>2, <2>3, <2>4, LevelsDescend
<1> QED
  BY <1>1, <1>2 DEF Inventory!RiskiestFirst

---------------------------------------------------------------------------
(* The theorems about the platform                                       *)

\* Which part is there never changes, and only that part moves.
LEMMA PartMoves ==
  ASSUME [PlatformNext]_platformVars
  PROVE  /\ part' = part
         /\ part = "gateway" => [Gateway!Next]_(Gateway!vars)
         /\ part = "accounts" => [Accounts!Next]_(Accounts!vars)
         /\ part = "billing" => [Billing!Next]_(Billing!vars)
         /\ part = "safety" => [Safety!Next]_(Safety!vars)
         /\ part = "rules" => [Rules!Next]_(Rules!vars)
         /\ part = "inventory" => [Inventory!Next]_(Inventory!vars)
<1>1. CASE PlatformNext
  BY <1>1 DEF PlatformNext, GatewayStep, AccountsStep, BillingStep, ResourcesStep, PlaygroundStep,
              SafetyStep, RulesStep, EditorStep, InventoryStep
<1>2. CASE UNCHANGED platformVars
  BY <1>2 DEF platformVars, gatewayVars, accountsVars, billingVars, safetyVars, inventoryVars, Gateway!vars,
              Accounts!vars, Billing!vars, Safety!vars, Rules!vars, Inventory!vars
<1> QED
  BY <1>1, <1>2

LEMMA GatewayRuns == PlatformSpec => [](part = "gateway" => GatewayInv)
<1>1. PlatformInit => (part = "gateway" => GatewayInv)
  BY GatewayStarts DEF PlatformInit
<1>2. (part = "gateway" => GatewayInv) /\ [PlatformNext]_platformVars => (part = "gateway" => GatewayInv)'
  BY GatewayKeeps, PartMoves
<1> QED
  BY <1>1, <1>2, PTL DEF PlatformSpec

\* The calls of a month exceed the plan by fewer than were checked and without
\* a row at one time, and every call sent to the engine is in flight, queued,
\* recorded or known lost (checkQuota, logAuditEvent): for any numbers of users,
\* keys and handlers, and for any limits, the paid one being no smaller.
THEOREM UsageIsMetered == PlatformSpec => []UsageMetered
<1>1. (part = "gateway" => GatewayInv) => UsageMetered
  BY GatewayHolds DEF UsageMetered
<1> QED
  BY <1>1, GatewayRuns, PTL

LEMMA AccountsRun == PlatformSpec => [](part = "accounts" => AccountsInv)
<1>1. PlatformInit => (part = "accounts" => AccountsInv)
  BY AccountsStarts DEF PlatformInit
<1>2. (part = "accounts" => AccountsInv) /\ [PlatformNext]_platformVars => (part = "accounts" => AccountsInv)'
  BY AccountsKeeps, PartMoves
<1> QED
  BY <1>1, <1>2, PTL DEF PlatformSpec

\* An address is verified for a reason, a password sign-in is of a verified
\* one, two live links are of requests that overlapped, an account at a provider
\* signs in as one user, and racing registrations have one winner (lib/auth.ts
\* and its routes): for any numbers of users, accounts, tokens and handlers.
THEOREM AccountsAreSound == PlatformSpec => []AccountsHold
<1>1. (part = "accounts" => AccountsInv) => AccountsHold
  BY AccountsHoldAlways DEF AccountsHold
<1> QED
  BY <1>1, AccountsRun, PTL

LEMMA BillingRuns == PlatformSpec => [](part = "billing" => BillingInv)
<1>1. PlatformInit => (part = "billing" => BillingInv)
  BY BillingStarts DEF PlatformInit
<1>2. (part = "billing" => BillingInv) /\ [PlatformNext]_platformVars => (part = "billing" => BillingInv)'
  BY BillingKeeps, PartMoves
<1> QED
  BY <1>1, <1>2, PTL DEF PlatformSpec

\* Once a user's events are all in, the plan is paid exactly while the
\* subscription is active (billing/webhook), for a user who never held two
\* subscriptions at a time and of whom no event came in ahead of an older one:
\* whatever comes repeatedly, in whatever order the events of the others come,
\* and for any number of users, customers and subscriptions.
THEOREM PlanFollows == PlatformSpec => []PlanFollowsSubscription
<1>1. (part = "billing" => BillingInv) => PlanFollowsSubscription
  BY BillingHolds DEF PlanFollowsSubscription
<1> QED
  BY <1>1, BillingRuns, PTL

LEMMA SafetyRuns == PlatformSpec => [](part = "safety" => SafetyInv)
<1>1. PlatformInit => (part = "safety" => SafetyInv)
  BY SafetyStarts DEF PlatformInit
<1>2. (part = "safety" => SafetyInv) /\ [PlatformNext]_platformVars => (part = "safety" => SafetyInv)'
  BY SafetyKeeps, PartMoves
<1> QED
  BY <1>1, <1>2, PTL DEF PlatformSpec

\* The simulator decides scoped agents as the engine does, its counters add up,
\* and what is applied was reviewed (simulator/route.ts, safety/page.tsx).  The
\* public rule list takes the strictest rule that applies to a name; the list
\* of the sandbox does but for bulk exports that write files or deploy, and
\* differs from the public one only on exports that one allows.  This holds
\* for any drafts, any finite sets of traces and any tool name.
THEOREM SimulatorsSound == PlatformSpec => []SimulatorsAgree
<1>1. (part = "safety" => SafetyInv) => SimulatorsAgree
  BY SafetyHolds, RulesHold DEF SimulatorsAgree
<1> QED
  BY <1>1, SafetyRuns, PTL

LEMMA InventoryRuns == PlatformSpec => [](part = "inventory" => InventoryInv)
<1>1. PlatformInit => (part = "inventory" => InventoryInv)
  BY InventoryStarts DEF PlatformInit
<1>2. (part = "inventory" => InventoryInv) /\ [PlatformNext]_platformVars => (part = "inventory" => InventoryInv)'
  BY InventoryKeeps, PartMoves
<1> QED
  BY <1>1, <1>2, PTL DEF PlatformSpec

\* The level that the identities page shows is that of the worst finding, and a
\* riskier identity is never listed below a less risky one (scoreNHI, buildNHIs),
\* whenever the two lists were read and whatever was retired since: for any
\* finite set of identities.
THEOREM WorstComesFirst == PlatformSpec => []WorstFirst
<1>1. (part = "inventory" => InventoryInv) => WorstFirst
  BY InventoryHolds DEF WorstFirst
<1> QED
  BY <1>1, InventoryRuns, PTL
=============================================================================
