----------------------- MODULE AgentDecisionProofs -----------------------
(***************************************************************************)
(* Proofs about the decision pipeline (AgentDecision) and the two caches   *)
(* it feeds (ActorStats, AnomalyTracker), for any agents, actions,         *)
(* policies, concurrent requests and capacities.                           *)
(***************************************************************************)
EXTENDS AgentDecision, SequenceTheorems, FiniteSetTheorems, NaturalsInduction,
        WellFoundedInduction, TLAPS

---------------------------------------------------------------------------
(* ActorStats: the inductive invariant                                     *)
(*                                                                         *)
(* DenialSticks is not inductive.  Whether an evicted agent can look       *)
(* unblemished depends on where it is: the invariant says that a denied    *)
(* agent is cached with a denial on record, or it is in neither list and   *)
(* the cache is full, and CachesAgree keeps the two lists apart.           *)

\* Where an agent that was ever denied can be.
DeniedPlaced ==
  \A a \in everDenied :
    IF Cached(a) THEN stats[a].denies > 0
    ELSE ~ Trusted(a) /\ UnderPressure

StatsInv == StatsTypeOK /\ CachesAgree /\ DeniedPlaced

---------------------------------------------------------------------------
(* The lists *)

\* Putting an element in front of a list without it.
LEMMA ConsFacts ==
  ASSUME NEW S, NEW s \in Seq(S), NEW a \in S
  PROVE  /\ Cons(a, s) \in Seq(S)
         /\ Len(Cons(a, s)) = Len(s) + 1
         /\ ToSet(Cons(a, s)) = ToSet(s) \cup {a}
         /\ NoRepeats(s) /\ a \notin ToSet(s) => NoRepeats(Cons(a, s))
<1> DEFINE t == Cons(a, s)
<1>1. t \in Seq(S) /\ Len(t) = Len(s) + 1 /\ DOMAIN t = 1 .. Len(s) + 1 /\ DOMAIN s = 1 .. Len(s)
  BY DEF Cons
<1>2. t[1] = a /\ \A i \in DOMAIN s : t[i + 1] = s[i]
  BY DEF Cons
<1>3. \A i \in DOMAIN t : i # 1 => i - 1 \in DOMAIN s /\ t[i] = s[i - 1]
  BY <1>1, <1>2
<1>4. ToSet(t) = ToSet(s) \cup {a}
  <2>1. \A x \in ToSet(t) : x \in ToSet(s) \cup {a}
    BY <1>2, <1>3 DEF ToSet
  <2>2. \A x \in ToSet(s) : x \in ToSet(t)
    <3> SUFFICES ASSUME NEW i \in DOMAIN s PROVE s[i] \in ToSet(t)
      BY DEF ToSet
    <3>1. i + 1 \in DOMAIN t /\ t[i + 1] = s[i]
      BY <1>1, <1>2
    <3> QED
      BY <3>1 DEF ToSet
  <2>3. a \in ToSet(t)
    BY <1>1, <1>2 DEF ToSet
  <2> QED
    BY <2>1, <2>2, <2>3
<1>5. ASSUME NoRepeats(s), a \notin ToSet(s) PROVE NoRepeats(t)
  <2> SUFFICES ASSUME NEW i \in DOMAIN t, NEW j \in DOMAIN t, t[i] = t[j] PROVE i = j
    BY DEF NoRepeats
  <2>1. \A k \in DOMAIN s : s[k] # a
    BY <1>5 DEF ToSet
  <2>2. CASE i = 1 \/ j = 1
    BY <2>1, <2>2, <1>2, <1>3
  <2>3. CASE i # 1 /\ j # 1
    <3>1. i - 1 \in DOMAIN s /\ j - 1 \in DOMAIN s /\ s[i - 1] = s[j - 1]
      BY <2>3, <1>3
    <3>2. i - 1 = j - 1
      BY <3>1, <1>5 DEF NoRepeats
    <3> QED
      BY <3>2, <1>1
  <2> QED
    BY <2>2, <2>3
<1> QED
  BY <1>1, <1>4, <1>5

\* Removing a position from a list without repeats removes its element.
LEMMA RemoveAtFacts ==
  ASSUME NEW S, NEW s \in Seq(S), NEW k \in DOMAIN s, NoRepeats(s)
  PROVE  /\ RemoveAt(s, k) \in Seq(S)
         /\ Len(RemoveAt(s, k)) = Len(s) - 1
         /\ ToSet(RemoveAt(s, k)) = ToSet(s) \ {s[k]}
         /\ NoRepeats(RemoveAt(s, k))
<1> DEFINE t == RemoveAt(s, k)
<1>1. Len(s) \in Nat /\ DOMAIN s = 1 .. Len(s) /\ k \in 1 .. Len(s)
  OBVIOUS
<1>2. /\ SubSeq(s, 1, k - 1) \in Seq(S) /\ Len(SubSeq(s, 1, k - 1)) = k - 1
      /\ SubSeq(s, k + 1, Len(s)) \in Seq(S) /\ Len(SubSeq(s, k + 1, Len(s))) = Len(s) - k
      /\ \A i \in 1 .. k - 1 : SubSeq(s, 1, k - 1)[i] = s[i]
      /\ \A i \in 1 .. Len(s) - k : SubSeq(s, k + 1, Len(s))[i] = s[i + k]
  <2>1. /\ SubSeq(s, 1, k - 1) \in Seq(S) /\ Len(SubSeq(s, 1, k - 1)) = k - 1
        /\ \A i \in 1 .. k - 1 : SubSeq(s, 1, k - 1)[i] = s[i]
    BY <1>1
  <2>2. /\ SubSeq(s, k + 1, Len(s)) \in Seq(S) /\ Len(SubSeq(s, k + 1, Len(s))) = Len(s) - k
        /\ \A i \in 1 .. Len(s) - k : SubSeq(s, k + 1, Len(s))[i] = s[i + k]
    BY <1>1
  <2> QED
    BY <2>1, <2>2
<1> DEFINE u == SubSeq(s, 1, k - 1)
           v == SubSeq(s, k + 1, Len(s))
<1>a. /\ t \in Seq(S) /\ Len(t) = Len(u) + Len(v)
      /\ \A i \in 1 .. Len(u) : t[i] = u[i]
      /\ \A i \in 1 .. Len(v) : t[Len(u) + i] = v[i]
  <2>1. u \in Seq(S) /\ v \in Seq(S) /\ t = u \o v
    BY <1>2 DEF RemoveAt
  <2> HIDE DEF t, u, v
  <2> QED
    BY <2>1
<1>3. t \in Seq(S) /\ Len(t) = Len(s) - 1 /\ DOMAIN t = 1 .. Len(s) - 1
  <2> HIDE DEF t, u, v
  <2>1. Len(u) = k - 1 /\ Len(v) = Len(s) - k
    BY <1>2 DEF u, v
  <2>2. Len(t) = Len(s) - 1
    BY <2>1, <1>1, <1>a
  <2> QED
    BY <2>2, <1>a
<1>4. \A i \in 1 .. Len(s) - 1 : t[i] = s[IF i < k THEN i ELSE i + 1]
  <2> SUFFICES ASSUME NEW i \in 1 .. Len(s) - 1 PROVE t[i] = s[IF i < k THEN i ELSE i + 1]
    OBVIOUS
  <2> HIDE DEF t, u, v
  <2>1. Len(u) = k - 1 /\ Len(v) = Len(s) - k
    BY <1>2 DEF u, v
  <2>2. CASE i < k
    <3>1. i \in 1 .. k - 1
      BY <2>2, <1>1
    <3>2. t[i] = u[i] /\ u[i] = s[i]
      BY <3>1, <2>1, <1>a, <1>2 DEF u
    <3> QED
      BY <3>2, <2>2
  <2>3. CASE ~ (i < k)
    <3> DEFINE j == i - k + 1
    <3>1. j \in 1 .. Len(s) - k /\ Len(u) + j = i /\ j + k = i + 1
      BY <2>3, <2>1, <1>1
    <3>2. t[i] = v[j] /\ v[j] = s[j + k]
      BY <3>1, <2>1, <1>a, <1>2 DEF v
    <3> QED
      BY <3>1, <3>2, <2>3
  <2> QED
    BY <2>2, <2>3
<1>5. ToSet(t) = ToSet(s) \ {s[k]}
  <2>1. \A i \in DOMAIN t : t[i] \in ToSet(s) /\ t[i] # s[k]
    BY <1>1, <1>3, <1>4 DEF ToSet, NoRepeats
  <2>2. ASSUME NEW j \in DOMAIN s, s[j] # s[k] PROVE s[j] \in ToSet(t)
    <3>1. j # k
      BY <2>2
    <3>2. CASE j < k
      <4>1. j \in DOMAIN t /\ t[j] = s[j]
        BY <3>2, <1>1, <1>3, <1>4
      <4> QED
        BY <4>1 DEF ToSet
    <3>3. CASE j > k
      <4>1. j - 1 \in DOMAIN t /\ t[j - 1] = s[j]
        BY <3>3, <1>1, <1>3, <1>4
      <4> QED
        BY <4>1 DEF ToSet
    <3> QED
      BY <3>1, <3>2, <3>3, <1>1
  <2> QED
    BY <2>1, <2>2 DEF ToSet
<1>6. NoRepeats(t)
  <2> HIDE DEF t
  <2> SUFFICES ASSUME NEW i \in DOMAIN t, NEW j \in DOMAIN t, t[i] = t[j] PROVE i = j
    BY DEF NoRepeats
  <2> DEFINE m(x) == IF x < k THEN x ELSE x + 1
  <2>1. m(i) \in DOMAIN s /\ m(j) \in DOMAIN s
    BY <1>1, <1>3
  <2>2. s[m(i)] = s[m(j)]
    BY <1>3, <1>4
  <2>3. m(i) = m(j)
    BY <2>1, <2>2 DEF NoRepeats
  <2> QED
    BY <2>3, <1>1, <1>3
<1> QED
  BY <1>3, <1>5, <1>6

\* Dropping the last element.
LEMMA FrontFacts ==
  ASSUME NEW S, NEW s \in Seq(S), NoRepeats(s), Len(s) > 0
  PROVE  /\ Front(s) \in Seq(S)
         /\ Len(Front(s)) = Len(s) - 1
         /\ ToSet(Front(s)) \subseteq ToSet(s)
         /\ NoRepeats(Front(s))
<1> DEFINE t == Front(s)
<1>1. Len(s) \in Nat /\ DOMAIN s = 1 .. Len(s)
  OBVIOUS
<1>2. /\ t \in Seq(S) /\ Len(t) = Len(s) - 1 /\ DOMAIN t = 1 .. Len(s) - 1
      /\ \A i \in 1 .. Len(s) - 1 : t[i] = s[i]
  BY <1>1 DEF Front
<1> HIDE DEF t
<1>3. ToSet(t) \subseteq ToSet(s)
  BY <1>1, <1>2 DEF ToSet
<1>4. NoRepeats(t)
  BY <1>1, <1>2 DEF NoRepeats
<1> QED
  BY <1>2, <1>3, <1>4 DEF t

\* Taking an element out.
LEMMA WithoutFacts ==
  ASSUME NEW S, NEW s \in Seq(S), NEW a, NoRepeats(s)
  PROVE  /\ Without(s, a) \in Seq(S)
         /\ Len(Without(s, a)) = IF a \in ToSet(s) THEN Len(s) - 1 ELSE Len(s)
         /\ ToSet(Without(s, a)) = ToSet(s) \ {a}
         /\ NoRepeats(Without(s, a))
<1>1. CASE a \in ToSet(s)
  <2>1. IndexOf(s, a) \in DOMAIN s /\ s[IndexOf(s, a)] = a
    BY <1>1 DEF IndexOf, ToSet
  <2>2. Without(s, a) = RemoveAt(s, IndexOf(s, a))
    BY <1>1 DEF Without
  <2> QED
    BY <1>1, <2>1, <2>2, RemoveAtFacts
<1>2. CASE a \notin ToSet(s)
  BY <1>2 DEF Without
<1> QED
  BY <1>1, <1>2

\* Moving an element to the front, or adding it there.
LEMMA MoveToFrontFacts ==
  ASSUME NEW S, NEW s \in Seq(S), NEW a \in S, NoRepeats(s)
  PROVE  /\ MoveToFront(s, a) \in Seq(S)
         /\ Len(MoveToFront(s, a)) = IF a \in ToSet(s) THEN Len(s) ELSE Len(s) + 1
         /\ ToSet(MoveToFront(s, a)) = ToSet(s) \cup {a}
         /\ NoRepeats(MoveToFront(s, a))
<1> DEFINE w == Without(s, a)
<1>1. /\ w \in Seq(S) /\ ToSet(w) = ToSet(s) \ {a} /\ NoRepeats(w)
      /\ Len(w) = IF a \in ToSet(s) THEN Len(s) - 1 ELSE Len(s)
  BY WithoutFacts
<1> HIDE DEF w
<1>2. /\ Cons(a, w) \in Seq(S) /\ Len(Cons(a, w)) = Len(w) + 1
      /\ ToSet(Cons(a, w)) = ToSet(w) \cup {a} /\ NoRepeats(Cons(a, w))
  <2>1. w \in Seq(S) /\ NoRepeats(w) /\ a \notin ToSet(w)
    BY <1>1
  <2> QED
    BY <2>1, ConsFacts
<1>3. MoveToFront(s, a) = Cons(a, w)
  BY DEF MoveToFront, w
<1>4. Len(s) \in Nat
  OBVIOUS
<1> QED
  BY <1>1, <1>2, <1>3, <1>4

\* The trusted list stays within its capacity and gains only the new agent.
LEMMA AddTrustedFacts ==
  ASSUME NEW S, NEW s \in Seq(S), NEW a \in S, NoRepeats(s), Len(s) <= TrustedCapacity
  PROVE  /\ addTrusted(s, a) \in Seq(S)
         /\ Len(addTrusted(s, a)) <= TrustedCapacity
         /\ ToSet(addTrusted(s, a)) \subseteq ToSet(s) \cup {a}
         /\ NoRepeats(addTrusted(s, a))
<1>0. Len(s) \in Nat /\ TrustedCapacity \in Nat \ {0}
  BY StatsAssumption
<1>1. CASE a \in ToSet(s) \/ Len(s) < TrustedCapacity
  <2>1. addTrusted(s, a) = MoveToFront(s, a)
    BY <1>1 DEF addTrusted
  <2>2. /\ addTrusted(s, a) \in Seq(S)
        /\ Len(addTrusted(s, a)) = IF a \in ToSet(s) THEN Len(s) ELSE Len(s) + 1
        /\ ToSet(addTrusted(s, a)) = ToSet(s) \cup {a} /\ NoRepeats(addTrusted(s, a))
    BY <2>1, MoveToFrontFacts
  <2> QED
    BY <1>0, <1>1, <2>2
<1>2. CASE ~ (a \in ToSet(s) \/ Len(s) < TrustedCapacity)
  <2>1. addTrusted(s, a) = Cons(a, Front(s)) /\ Len(s) > 0 /\ a \notin ToSet(s)
    BY <1>0, <1>2 DEF addTrusted
  <2>2. /\ Front(s) \in Seq(S) /\ Len(Front(s)) = Len(s) - 1
        /\ ToSet(Front(s)) \subseteq ToSet(s) /\ NoRepeats(Front(s))
    BY <2>1, FrontFacts
  <2>3. a \notin ToSet(Front(s))
    BY <2>1, <2>2
  <2>4. /\ Cons(a, Front(s)) \in Seq(S) /\ Len(Cons(a, Front(s))) = Len(Front(s)) + 1
        /\ ToSet(Cons(a, Front(s))) = ToSet(Front(s)) \cup {a}
        /\ NoRepeats(Cons(a, Front(s)))
    <3>1. PICK f \in Seq(S) : f = Front(s) /\ NoRepeats(f) /\ a \notin ToSet(f)
      BY <2>2, <2>3
    <3>2. /\ Cons(a, f) \in Seq(S) /\ Len(Cons(a, f)) = Len(f) + 1
          /\ ToSet(Cons(a, f)) = ToSet(f) \cup {a}
      BY ConsFacts
    <3>3. NoRepeats(Cons(a, f))
      BY <3>1, ConsFacts
    <3> QED
      BY <3>1, <3>2, <3>3
  <2> QED
    BY <1>0, <2>1, <2>2, <2>4
<1> QED
  BY <1>1, <1>2

---------------------------------------------------------------------------
(* The invariant *)

\* What counting one more decision does to a record.
LEMMA TallyFacts ==
  ASSUME NEW r \in actorStatEntry, NEW denied \in BOOLEAN
  PROVE  /\ Tally(r, denied) \in actorStatEntry
         /\ Tally(r, denied).total > 0
         /\ denied \/ r.denies > 0 => Tally(r, denied).denies > 0
         /\ r.denies <= r.total => Tally(r, denied).denies <= Tally(r, denied).total
BY DEF Tally, Counts, actorStatEntry

LEMMA ConstantFacts ==
  /\ NoStats \in actorStatEntry /\ NoStats.denies = 0 /\ NoStats.total = 0
  /\ conservativePrior \in actorStatEntry
  /\ conservativePrior.denies = 1 /\ conservativePrior.total = 2
BY DEF NoStats, conservativePrior, Counts, actorStatEntry

LEMMA InitInvariant == StatsInit => StatsInv
<1> SUFFICES ASSUME StatsInit PROVE StatsInv
  OBVIOUS
<1>1. StatsTypeOK
  BY ConstantFacts DEF StatsInit, StatsTypeOK
<1>2. ToSet(lru) = {} /\ ToSet(trustedLRU) = {} /\ NoRepeats(lru) /\ NoRepeats(trustedLRU)
  BY DEF StatsInit, ToSet, NoRepeats
<1>3. Len(lru) = 0 /\ Len(trustedLRU) = 0
  BY DEF StatsInit
<1>4. CachesAgree
  BY <1>2, <1>3, StatsAssumption DEF StatsInit, CachesAgree, Cached
<1>5. DeniedPlaced
  BY DEF StatsInit, DeniedPlaced
<1> QED
  BY <1>1, <1>4, <1>5 DEF StatsInv

\* A lookup only reorders the trusted list.
LEMMA LookupInvariant ==
  ASSUME StatsInv, NEW a \in Actors, reliability(a)
  PROVE  StatsInv'
<1> USE DEF StatsInv
<1>1. lru' = lru /\ stats' = stats /\ everDenied' = everDenied
  BY DEF reliability
<1>2. /\ trustedLRU' \in Seq(Actors) /\ ToSet(trustedLRU') = ToSet(trustedLRU)
      /\ NoRepeats(trustedLRU') /\ Len(trustedLRU') = Len(trustedLRU)
  <2>1. CASE ~ Cached(a) /\ Trusted(a)
    <3>1. trustedLRU' = MoveToFront(trustedLRU, a) /\ a \in ToSet(trustedLRU)
      BY <2>1 DEF reliability, Trusted
    <3>2. trustedLRU \in Seq(Actors) /\ NoRepeats(trustedLRU)
      BY DEF StatsTypeOK, CachesAgree
    <3>3. /\ MoveToFront(trustedLRU, a) \in Seq(Actors)
          /\ Len(MoveToFront(trustedLRU, a)) = Len(trustedLRU)
          /\ ToSet(MoveToFront(trustedLRU, a)) = ToSet(trustedLRU) \cup {a}
          /\ NoRepeats(MoveToFront(trustedLRU, a))
      BY <3>1, <3>2, MoveToFrontFacts
    <3> QED
      BY <3>1, <3>3
  <2>2. CASE ~ (~ Cached(a) /\ Trusted(a))
    BY <2>2 DEF reliability, StatsTypeOK, CachesAgree
  <2> QED
    BY <2>1, <2>2
<1>3. StatsTypeOK'
  BY <1>1, <1>2 DEF StatsTypeOK
<1>4. CachesAgree'
  BY <1>1, <1>2 DEF CachesAgree, Cached, Trusted
<1>5. DeniedPlaced'
  BY <1>1, <1>2 DEF DeniedPlaced, Cached, Trusted, UnderPressure
<1> QED
  BY <1>3, <1>4, <1>5

\* A decision on a cached agent.
LEMMA HitInvariant ==
  ASSUME StatsInv, NEW a \in Actors, NEW denied \in BOOLEAN, recordHit(a, denied)
  PROVE  StatsInv'
<1> USE DEF StatsInv
<1> DEFINE r == stats[a]
<1>1. /\ lru \in Seq(Actors) /\ NoRepeats(lru) /\ a \in ToSet(lru)
      /\ stats \in [Actors -> actorStatEntry] /\ r \in actorStatEntry
      /\ r.denies <= r.total /\ trustedLRU' = trustedLRU
      /\ stats' = [stats EXCEPT ![a] = Tally(r, denied)]
  BY DEF StatsTypeOK, CachesAgree, recordHit, Cached
<1>2. /\ lru' \in Seq(Actors) /\ Len(lru') = Len(lru)
      /\ ToSet(lru') = ToSet(lru) /\ NoRepeats(lru')
  <2>1. /\ MoveToFront(lru, a) \in Seq(Actors)
        /\ Len(MoveToFront(lru, a)) = Len(lru)
        /\ ToSet(MoveToFront(lru, a)) = ToSet(lru) \cup {a}
        /\ NoRepeats(MoveToFront(lru, a))
    BY <1>1, MoveToFrontFacts
  <2> QED
    BY <1>1, <2>1 DEF recordHit
<1>3. /\ stats' \in [Actors -> actorStatEntry]
      /\ stats'[a] = Tally(r, denied)
      /\ \A b \in Actors : b # a => stats'[b] = stats[b]
  BY <1>1, TallyFacts
<1>4. /\ stats'[a].total > 0 /\ stats'[a].denies <= stats'[a].total
      /\ denied \/ r.denies > 0 => stats'[a].denies > 0
  BY <1>1, <1>3, TallyFacts
<1>5. everDenied' \subseteq everDenied \cup {a} /\ (a \in everDenied' => denied \/ a \in everDenied)
  BY DEF recordHit, Note
<1>6. StatsTypeOK'
  BY <1>1, <1>2, <1>3, <1>5 DEF StatsTypeOK
<1>7. CachesAgree'
  BY <1>1, <1>2, <1>3, <1>4 DEF CachesAgree, Cached, Trusted
<1>8. DeniedPlaced'
  <2> SUFFICES ASSUME NEW b \in everDenied'
               PROVE  IF Cached(b)' THEN stats'[b].denies > 0 ELSE ~ Trusted(b)' /\ UnderPressure'
    BY DEF DeniedPlaced
  <2>1. CASE b = a
    BY <2>1, <1>1, <1>2, <1>4, <1>5 DEF DeniedPlaced, Cached
  <2>2. CASE b # a
    BY <2>2, <1>1, <1>2, <1>3, <1>5 DEF DeniedPlaced, Cached, Trusted, UnderPressure, StatsTypeOK
  <2> QED
    BY <2>1, <2>2
<1> QED
  BY <1>6, <1>7, <1>8

\* A newcomer while there is room: nobody who was denied is missing then.
LEMMA NewInvariant ==
  ASSUME StatsInv, NEW a \in Actors, NEW denied \in BOOLEAN, recordNew(a, denied)
  PROVE  StatsInv'
<1> USE DEF StatsInv
<1>1. /\ lru \in Seq(Actors) /\ NoRepeats(lru) /\ a \notin ToSet(lru)
      /\ trustedLRU \in Seq(Actors) /\ NoRepeats(trustedLRU)
      /\ stats \in [Actors -> actorStatEntry]
      /\ Len(lru) \in Nat /\ Capacity \in Nat /\ Len(lru) < Capacity
      /\ stats' = [stats EXCEPT ![a] = Tally(NoStats, denied)]
  BY StatsAssumption DEF StatsTypeOK, CachesAgree, recordNew, Cached, UnderPressure
<1>2. /\ lru' \in Seq(Actors) /\ Len(lru') = Len(lru) + 1
      /\ ToSet(lru') = ToSet(lru) \cup {a} /\ NoRepeats(lru')
  <2>1. lru \in Seq(Actors) /\ NoRepeats(lru) /\ a \notin ToSet(lru) /\ a \in Actors
    BY <1>1
  <2> HIDE DEF StatsInv
  <2>2. /\ Cons(a, lru) \in Seq(Actors) /\ Len(Cons(a, lru)) = Len(lru) + 1
        /\ ToSet(Cons(a, lru)) = ToSet(lru) \cup {a} /\ NoRepeats(Cons(a, lru))
    BY <2>1, ConsFacts
  <2>3. lru' = Cons(a, lru)
    BY DEF recordNew
  <2> QED
    BY <2>2, <2>3
<1>3. /\ trustedLRU' \in Seq(Actors) /\ NoRepeats(trustedLRU')
      /\ ToSet(trustedLRU') = ToSet(trustedLRU) \ {a}
      /\ Len(trustedLRU') <= TrustedCapacity
  <2>1. /\ Without(trustedLRU, a) \in Seq(Actors)
        /\ Len(Without(trustedLRU, a)) = IF a \in ToSet(trustedLRU) THEN Len(trustedLRU) - 1
                                         ELSE Len(trustedLRU)
        /\ ToSet(Without(trustedLRU, a)) = ToSet(trustedLRU) \ {a}
        /\ NoRepeats(Without(trustedLRU, a))
    BY <1>1, WithoutFacts
  <2>2. Len(trustedLRU) \in Nat /\ Len(trustedLRU) <= TrustedCapacity /\ TrustedCapacity \in Nat
    BY <1>1, StatsAssumption DEF CachesAgree
  <2> QED
    BY <2>1, <2>2 DEF recordNew
<1>4. /\ stats' \in [Actors -> actorStatEntry]
      /\ stats'[a].total > 0 /\ stats'[a].denies <= stats'[a].total
      /\ denied => stats'[a].denies > 0
      /\ \A b \in Actors : b # a => stats'[b] = stats[b]
  <2>1. /\ Tally(NoStats, denied) \in actorStatEntry /\ Tally(NoStats, denied).total > 0
        /\ denied => Tally(NoStats, denied).denies > 0
        /\ Tally(NoStats, denied).denies <= Tally(NoStats, denied).total
    BY TallyFacts, ConstantFacts
  <2> QED
    BY <1>1, <2>1
<1>5. /\ everDenied' \subseteq everDenied \cup {a}
      /\ a \in everDenied' => denied \/ a \in everDenied
  BY DEF recordNew, Note
<1>6. \A b \in everDenied : b \in Actors /\ b \in ToSet(lru) /\ stats[b].denies > 0
  BY <1>1 DEF DeniedPlaced, Cached, UnderPressure, StatsTypeOK
<1>7. StatsTypeOK'
  BY <1>2, <1>3, <1>4, <1>5 DEF StatsTypeOK
<1>8. CachesAgree'
  BY <1>1, <1>2, <1>3, <1>4 DEF CachesAgree, Cached, Trusted
<1>9. DeniedPlaced'
  BY <1>1, <1>2, <1>4, <1>5, <1>6 DEF DeniedPlaced, Cached
<1> QED
  BY <1>7, <1>8, <1>9

\* A newcomer to a full cache: the victim keeps a clean name only if it has
\* one, and the newcomer starts clean only if it was known to be.
LEMMA EvictInvariant ==
  ASSUME StatsInv, NEW a \in Actors, NEW denied \in BOOLEAN, recordEvict(a, denied)
  PROVE  StatsInv'
<1> USE DEF StatsInv
<1>0. PICK k \in DOMAIN lru :
        /\ stats' = [stats EXCEPT ![lru[k]] = NoStats,
                       ![a] = Tally(IF Trusted(a) THEN NoStats ELSE conservativePrior, denied)]
        /\ lru' = Cons(a, RemoveAt(lru, k))
        /\ trustedLRU' = IF stats[lru[k]].denies = 0
                           THEN addTrusted(Without(trustedLRU, a), lru[k])
                           ELSE Without(trustedLRU, a)
  BY DEF recordEvict
<1> DEFINE v == lru[k]
           r == IF Trusted(a) THEN NoStats ELSE conservativePrior
           w == Without(trustedLRU, a)
           q == RemoveAt(lru, k)
<1>1. /\ lru \in Seq(Actors) /\ NoRepeats(lru) /\ a \notin ToSet(lru)
      /\ trustedLRU \in Seq(Actors) /\ NoRepeats(trustedLRU)
      /\ stats \in [Actors -> actorStatEntry]
      /\ v \in Actors /\ v \in ToSet(lru) /\ v # a /\ v \notin ToSet(trustedLRU)
      /\ Len(lru) \in Nat /\ Capacity \in Nat /\ Len(lru) = Capacity
  <2>1. /\ lru \in Seq(Actors) /\ NoRepeats(lru) /\ a \notin ToSet(lru)
        /\ trustedLRU \in Seq(Actors) /\ NoRepeats(trustedLRU)
        /\ stats \in [Actors -> actorStatEntry]
        /\ Len(lru) \in Nat /\ Capacity \in Nat /\ Len(lru) = Capacity
    BY StatsAssumption DEF StatsTypeOK, CachesAgree, recordEvict, Cached, UnderPressure
  <2>2. v \in Actors /\ v \in ToSet(lru)
    BY <2>1 DEF ToSet
  <2>3. v \notin ToSet(trustedLRU)
    BY <2>2 DEF CachesAgree, Cached, Trusted
  <2> QED
    BY <2>1, <2>2, <2>3
<1>2. /\ lru' \in Seq(Actors) /\ Len(lru') = Len(lru)
      /\ ToSet(lru') = (ToSet(lru) \ {v}) \cup {a} /\ NoRepeats(lru')
  <2>1. /\ q \in Seq(Actors) /\ Len(q) = Len(lru) - 1
        /\ ToSet(q) = ToSet(lru) \ {v} /\ NoRepeats(q)
    BY <1>1, RemoveAtFacts
  <2>2. lru' = Cons(a, q)
    BY <1>0
  <2> HIDE DEF q, v
  <2>3. a \notin ToSet(q)
    BY <1>1, <2>1
  <2>4. /\ Cons(a, q) \in Seq(Actors) /\ Len(Cons(a, q)) = Len(q) + 1
        /\ ToSet(Cons(a, q)) = ToSet(q) \cup {a} /\ NoRepeats(Cons(a, q))
    <3>1. q \in Seq(Actors) /\ NoRepeats(q) /\ a \notin ToSet(q) /\ a \in Actors
      BY <2>1, <2>3
    <3> HIDE DEF StatsInv
    <3> QED
      BY <3>1, ConsFacts
  <2> QED
    BY <1>1, <2>1, <2>2, <2>4
<1>3. /\ w \in Seq(Actors) /\ NoRepeats(w) /\ ToSet(w) = ToSet(trustedLRU) \ {a}
      /\ Len(w) <= TrustedCapacity
  <2>1. /\ w \in Seq(Actors) /\ NoRepeats(w) /\ ToSet(w) = ToSet(trustedLRU) \ {a}
        /\ Len(w) = IF a \in ToSet(trustedLRU) THEN Len(trustedLRU) - 1 ELSE Len(trustedLRU)
    BY <1>1, WithoutFacts
  <2>2. Len(trustedLRU) \in Nat /\ Len(trustedLRU) <= TrustedCapacity /\ TrustedCapacity \in Nat
    BY <1>1, StatsAssumption DEF CachesAgree
  <2> HIDE DEF w
  <2> QED
    BY <2>1, <2>2
<1>4. /\ trustedLRU' \in Seq(Actors) /\ NoRepeats(trustedLRU')
      /\ Len(trustedLRU') <= TrustedCapacity
      /\ ToSet(trustedLRU') \subseteq (ToSet(trustedLRU) \ {a}) \cup {v}
      /\ stats[v].denies # 0 => v \notin ToSet(trustedLRU')
  <2>1. CASE stats[v].denies = 0
    <3>1. trustedLRU' = addTrusted(w, v)
      BY <1>0, <2>1
    <3> HIDE DEF w, v
    <3>2. /\ addTrusted(w, v) \in Seq(Actors) /\ Len(addTrusted(w, v)) <= TrustedCapacity
          /\ ToSet(addTrusted(w, v)) \subseteq ToSet(w) \cup {v} /\ NoRepeats(addTrusted(w, v))
      BY <1>1, <1>3, AddTrustedFacts
    <3> QED
      BY <2>1, <3>1, <3>2, <1>3
  <2>2. CASE stats[v].denies # 0
    <3>1. trustedLRU' = w
      BY <1>0, <2>2
    <3> HIDE DEF w, v
    <3> QED
      BY <3>1, <1>1, <1>3
  <2> QED
    BY <2>1, <2>2
<1>5. /\ stats' \in [Actors -> actorStatEntry]
      /\ stats'[a].total > 0 /\ stats'[a].denies <= stats'[a].total
      /\ denied \/ ~ Trusted(a) => stats'[a].denies > 0
      /\ stats'[v] = NoStats
      /\ \A b \in Actors : b # a /\ b # v => stats'[b] = stats[b]
  <2>1. /\ r \in actorStatEntry /\ r.denies <= r.total
        /\ ~ Trusted(a) => r.denies > 0
    BY ConstantFacts
  <2>2. stats' = [stats EXCEPT ![v] = NoStats, ![a] = Tally(r, denied)]
    BY <1>0
  <2> HIDE DEF r, v
  <2>3. /\ Tally(r, denied) \in actorStatEntry /\ Tally(r, denied).total > 0
        /\ denied \/ r.denies > 0 => Tally(r, denied).denies > 0
        /\ Tally(r, denied).denies <= Tally(r, denied).total
    BY <2>1, TallyFacts
  <2> QED
    BY <1>1, <2>1, <2>2, <2>3, ConstantFacts
<1>6. /\ everDenied' \subseteq everDenied \cup {a}
      /\ a \in everDenied' => denied \/ a \in everDenied
  BY DEF recordEvict, Note
<1> HIDE DEF v, r, w, q
<1>7. StatsTypeOK'
  BY <1>2, <1>4, <1>5, <1>6 DEF StatsTypeOK
<1>8. CachesAgree'
  <2> SUFFICES ASSUME NEW b \in Actors
               PROVE  IF Cached(b)'
                        THEN ~ Trusted(b)' /\ stats'[b].total > 0 /\ stats'[b].denies <= stats'[b].total
                        ELSE stats'[b] = NoStats
    BY <1>1, <1>2, <1>4 DEF CachesAgree
  <2>1. CASE b = a
    BY <2>1, <1>1, <1>2, <1>4, <1>5 DEF Cached, Trusted
  <2>2. CASE b = v
    BY <2>2, <1>1, <1>2, <1>5 DEF Cached
  <2>3. CASE b # a /\ b # v
    BY <2>3, <1>2, <1>4, <1>5 DEF CachesAgree, Cached, Trusted
  <2> QED
    BY <2>1, <2>2, <2>3
<1>9. DeniedPlaced'
  <2>0. UnderPressure'
    BY <1>1, <1>2 DEF UnderPressure
  <2> SUFFICES ASSUME NEW b \in everDenied'
               PROVE  IF Cached(b)' THEN stats'[b].denies > 0 ELSE ~ Trusted(b)'
    BY <2>0 DEF DeniedPlaced
  <2>1. CASE b = a
    <3>1. denied \/ ~ Trusted(a)
      BY <2>1, <1>1, <1>6 DEF DeniedPlaced, Cached
    <3> QED
      BY <2>1, <3>1, <1>2, <1>5 DEF Cached
  <2>2. CASE b = v
    <3>1. stats[v].denies # 0
      BY <2>2, <1>1, <1>6 DEF DeniedPlaced, Cached
    <3> QED
      BY <2>2, <3>1, <1>1, <1>2, <1>4 DEF Cached, Trusted
  <2>3. CASE b # a /\ b # v
    BY <2>3, <1>2, <1>4, <1>5, <1>6 DEF DeniedPlaced, Cached, Trusted, StatsTypeOK
  <2> QED
    BY <2>1, <2>2, <2>3
<1> QED
  BY <1>7, <1>8, <1>9

---------------------------------------------------------------------------
\* Every operation of the cache preserves the invariant.
THEOREM StatsInvariance == StatsSpec => []StatsInv
<1>1. ASSUME StatsInv, [StatsNext]_statsVars PROVE StatsInv'
  <2>1. ASSUME NEW a \in Actors, reliability(a) PROVE StatsInv'
    BY <1>1, <2>1, LookupInvariant
  <2>2. ASSUME NEW a \in Actors, NEW denied \in BOOLEAN, record(a, denied) PROVE StatsInv'
    BY <1>1, <2>2, HitInvariant, NewInvariant, EvictInvariant DEF record
  <2>3. CASE UNCHANGED statsVars
    BY <1>1, <2>3 DEF statsVars, StatsInv, StatsTypeOK, CachesAgree, DeniedPlaced, Cached, Trusted,
                      UnderPressure
  <2> QED
    BY <1>1, <2>1, <2>2, <2>3 DEF StatsNext
<1> QED
  BY <1>1, InitInvariant, PTL DEF StatsSpec

\* The reputation cache is well typed in every reachable state.
THEOREM StatsTypeCorrect == StatsSpec => []StatsTypeOK
<1>1. StatsInv => StatsTypeOK
  BY DEF StatsInv
<1> QED
  BY <1>1, StatsInvariance, PTL

\* The two lists and the counts never drift apart, at any capacity.
THEOREM StatsConsistent == StatsSpec => []CachesAgree
<1>1. StatsInv => CachesAgree
  BY DEF StatsInv
<1> QED
  BY <1>1, StatsInvariance, PTL

LEMMA PlacedSticks == StatsInv => DenialSticks
<1> SUFFICES ASSUME StatsInv, NEW a \in everDenied PROVE Reputation(a).denies > 0
  BY DEF DenialSticks
<1>1. CASE Cached(a)
  BY <1>1 DEF StatsInv, DeniedPlaced, Reputation
<1>2. CASE ~ Cached(a)
  <2>1. Reputation(a) = conservativePrior
    BY <1>2 DEF StatsInv, DeniedPlaced, Reputation
  <2> QED
    BY <2>1, ConstantFacts
<1> QED
  BY <1>1, <1>2

\* An agent that was ever denied never looks unblemished again, for any number
\* of agents and any capacities: churn cannot wash a reputation clean.
THEOREM DenialsStick == StatsSpec => []DenialSticks
  BY PlacedSticks, StatsInvariance, PTL

---------------------------------------------------------------------------
(* AnomalyTracker: pruneAnomalyTimes and LastOf                            *)

\* Induction over the naturals, as a property of sets.
LEMMA LeastElement ==
  \A T \in SUBSET Nat : T # {} => \E x \in T : \A y \in T : x <= y
<1>1. IsWellFoundedOn(OpToRel(<, Nat), Nat)
  BY NatLessThanWellFounded
<1> SUFFICES ASSUME NEW T \in SUBSET Nat, T # {} PROVE \E x \in T : \A y \in T : x <= y
  OBVIOUS
<1>2. PICK x \in T : \A y \in T : ~ (<<y, x>> \in OpToRel(<, Nat))
  BY <1>1, WFMin
<1>3. \A y \in T : ~ (y < x)
  BY <1>2 DEF OpToRel
<1> QED
  BY <1>3

\* The loop of pruneAnomalyTimes: what is kept of the first k times.
KeptStep(times, f, k) ==
  IF k = 0 THEN <<>>
  ELSE IF times[k] + Window > now THEN Append(f[k - 1], times[k])
  ELSE f[k - 1]
KeptUpTo(times, f, n) == f = [k \in 0..n |-> KeptStep(times, f, k)]

\* The loop has a result for every number of times.
LEMMA KeptExists ==
  ASSUME NEW times, NEW n \in Nat
  PROVE  \E f : KeptUpTo(times, f, n)
<1> DEFINE Bad == {m \in 0..n : ~ \E f : KeptUpTo(times, f, m)}
<1>1. SUFFICES ASSUME Bad # {} PROVE FALSE
  OBVIOUS
<1>2. Bad \in SUBSET Nat
  OBVIOUS
<1>3. PICK m \in Bad : \A y \in Bad : m <= y
  BY <1>1, <1>2, LeastElement
<1>4. m \in Nat /\ m \in 0..n /\ ~ \E f : KeptUpTo(times, f, m)
  OBVIOUS
<1>5. CASE m = 0
  <2>1. KeptUpTo(times, [k \in 0..0 |-> <<>>], 0)
    BY DEF KeptUpTo, KeptStep
  <2> QED
    BY <1>4, <1>5, <2>1
<1>6. CASE m # 0
  <2>1. m - 1 \in 0..n /\ ~ (m <= m - 1)
    BY <1>4, <1>6
  <2>2. PICK f : KeptUpTo(times, f, m - 1)
    BY <1>3, <2>1
  <2>3. PICK g : g = [k \in 0..m |-> IF k = m THEN KeptStep(times, f, m) ELSE f[k]]
    OBVIOUS
  <2>4. \A k \in 0..m : g[k] = KeptStep(times, g, k)
    <3> SUFFICES ASSUME NEW k \in 0..m PROVE g[k] = KeptStep(times, g, k)
      OBVIOUS
    <3>1. k # 0 => k - 1 \in 0..m /\ k - 1 # m
      BY <1>4
    <3>2. k # 0 => g[k - 1] = f[k - 1]
      BY <2>3, <3>1
    <3>3. g[k] = KeptStep(times, f, k)
      <4>1. CASE k = m
        BY <2>3, <4>1
      <4>2. CASE k # m
        <5>1. k \in 0..m - 1
          BY <1>4, <4>2
        <5>2. f[k] = KeptStep(times, f, k)
          BY <2>2, <5>1 DEF KeptUpTo
        <5> QED
          BY <2>3, <4>2, <5>2
      <4> QED
        BY <4>1, <4>2
    <3> QED
      BY <3>2, <3>3 DEF KeptStep
  <2>5. KeptUpTo(times, g, m)
    BY <2>3, <2>4 DEF KeptUpTo
  <2> QED
    BY <1>4, <2>5
<1> QED
  BY <1>5, <1>6

\* What an item more at the end is.
LEMMA AppendItem ==
  ASSUME NEW s \in Seq(Nat), NEW e
  PROVE  /\ Len(s) \in Nat /\ Len(Append(s, e)) = Len(s) + 1
         /\ Append(s, e)[Len(s) + 1] = e /\ Append(s, e) # <<>>
OBVIOUS

\* What is kept is a part of the times, in their order, with the last one if
\* that is still within the window.
LEMMA PruneFacts ==
  ASSUME now \in Nat, NEW times \in Seq(Nat)
  PROVE  LET r == pruneAnomalyTimes(times)
         IN  /\ r \in Seq(Nat) /\ Len(r) <= Len(times)
             /\ \A i \in DOMAIN r : \E j \in DOMAIN times : r[i] = times[j]
             /\ InOrder(times) => InOrder(r)
             /\ times # <<>> /\ Last(times) + Window > now => r # <<>> /\ Last(r) = Last(times)
<1> DEFINE n == Len(times)
<1>0. n \in Nat /\ DOMAIN times = 1..n /\ \A j \in 1..n : times[j] \in Nat
  OBVIOUS
<1>1. PICK f : /\ f = [k \in 0..n |-> IF k = 0 THEN <<>>
                                      ELSE IF times[k] + Window > now THEN Append(f[k - 1], times[k])
                                      ELSE f[k - 1]]
               /\ pruneAnomalyTimes(times) = f[n]
  <2>0. PICK f : KeptUpTo(times, f, n)
    BY <1>0, KeptExists
  <2>1. \E h : h = [k \in 0..n |-> IF k = 0 THEN <<>>
                                   ELSE IF times[k] + Window > now THEN Append(h[k - 1], times[k])
                                   ELSE h[k - 1]]
    BY <2>0 DEF KeptUpTo, KeptStep
  <2> QED
    BY <2>1 DEF pruneAnomalyTimes
<1> HIDE DEF n
<1>2. f[0] = <<>>
  <2>1. 0 \in 0..n
    BY <1>0
  <2> QED
    BY <1>1, <2>1
<1>3. \A k \in 1..n : f[k] = IF times[k] + Window > now THEN Append(f[k - 1], times[k]) ELSE f[k - 1]
  <2> SUFFICES ASSUME NEW k \in 1..n
               PROVE  f[k] = IF times[k] + Window > now THEN Append(f[k - 1], times[k]) ELSE f[k - 1]
    OBVIOUS
  <2>1. k \in 0..n /\ k # 0
    BY <1>0
  <2> QED
    BY <1>1, <2>1
<1> DEFINE Good(k) == /\ f[k] \in Seq(Nat) /\ Len(f[k]) <= k
                      /\ \A i \in 1..Len(f[k]) : \E j \in 1..k : f[k][i] = times[j]
                      /\ InOrder(times) => InOrder(f[k])
<1>4. ASSUME NEW k \in 1..n, Good(k - 1) PROVE Good(k)
  <2>1. CASE ~ (times[k] + Window > now)
    <3>1. f[k] = f[k - 1]
      BY <1>3, <2>1
    <3>2. 1..k - 1 \subseteq 1..k /\ k \in Nat
      BY <1>0
    <3>3. Len(f[k]) <= k
      BY <1>4, <3>1, <3>2
    <3>4. \A i \in 1..Len(f[k]) : \E j \in 1..k : f[k][i] = times[j]
      BY <1>4, <3>1, <3>2
    <3> QED
      BY <1>4, <3>1, <3>3, <3>4
  <2>2. CASE times[k] + Window > now
    <3> DEFINE s == f[k - 1]
    <3>1. f[k] = Append(s, times[k]) /\ s \in Seq(Nat) /\ times[k] \in Nat
      BY <1>0, <1>3, <1>4, <2>2
    <3> HIDE DEF s
    <3>2. /\ f[k] \in Seq(Nat) /\ Len(s) \in Nat /\ Len(f[k]) = Len(s) + 1
          /\ f[k][Len(s) + 1] = times[k] /\ \A i \in 1..Len(s) : f[k][i] = s[i]
      BY <3>1
    <3>3. Len(f[k]) <= k
      BY <1>0, <1>4, <3>2 DEF s
    <3>4. \A i \in 1..Len(s) : \E j \in 1..k - 1 : s[i] = times[j]
      BY <1>4 DEF s
    <3>5. ASSUME NEW i \in 1..Len(f[k]) PROVE \E j \in 1..k : f[k][i] = times[j]
      <4>1. CASE i = Len(s) + 1
        BY <1>0, <3>2, <4>1
      <4>2. CASE i # Len(s) + 1
        <5>1. i \in 1..Len(s) /\ 1..k - 1 \subseteq 1..k
          BY <1>0, <3>2, <4>2
        <5> QED
          BY <3>2, <3>4, <5>1
      <4> QED
        BY <4>1, <4>2
    <3>6. ASSUME InOrder(times) PROVE InOrder(f[k])
      <4>0. DOMAIN f[k] = 1..Len(f[k])
        BY <3>2
      <4> SUFFICES ASSUME NEW i \in 1..Len(f[k]), NEW j \in 1..Len(f[k]), i < j
                   PROVE  f[k][i] <= f[k][j]
        BY <4>0 DEF InOrder
      <4>1. i \in 1..Len(s) /\ f[k][i] = s[i]
        <5>1. i \in 1..Len(s)
          BY <3>2
        <5> QED
          BY <3>2, <5>1
      <4>2. CASE j = Len(s) + 1
        <5>1. PICK l \in 1..k - 1 : s[i] = times[l]
          BY <3>4, <4>1
        <5>2. l \in DOMAIN times /\ k \in DOMAIN times /\ l < k
          BY <1>0
        <5>3. times[l] <= times[k]
          BY <3>6, <5>2 DEF InOrder
        <5>4. f[k][i] = times[l] /\ f[k][j] = times[k]
          BY <3>2, <4>1, <4>2, <5>1
        <5> QED
          BY <5>3, <5>4
      <4>3. CASE j # Len(s) + 1
        <5>1. j \in 1..Len(s) /\ f[k][j] = s[j]
          <6>1. j \in 1..Len(s)
            BY <3>2, <4>3
          <6> QED
            BY <3>2, <6>1
        <5>2. InOrder(s) /\ DOMAIN s = 1..Len(s)
          BY <1>4, <3>1, <3>6 DEF s
        <5> QED
          BY <4>1, <5>1, <5>2 DEF InOrder
      <4> QED
        BY <4>2, <4>3
    <3> QED
      BY <3>2, <3>3, <3>5, <3>6
  <2> QED
    BY <2>1, <2>2
<1>5. Good(0)
  BY <1>2 DEF InOrder
<1>6. \A k \in 0..n : Good(k)
  <2> DEFINE Bad == {k \in 0..n : ~ Good(k)}
  <2> HIDE DEF Good
  <2>1. SUFFICES ASSUME Bad # {} PROVE FALSE
    OBVIOUS
  <2>2. PICK k \in Bad : \A y \in Bad : k <= y
    <3>1. Bad \in SUBSET Nat
      BY <1>0
    <3> QED
      BY <2>1, <3>1, LeastElement
  <2>3. k \in 1..n /\ ~ Good(k)
    BY <1>0, <1>5
  <2>4. k - 1 \in 0..n /\ ~ (k <= k - 1)
    BY <1>0, <2>3
  <2>5. Good(k - 1)
    BY <2>2, <2>4
  <2> QED
    BY <1>4, <2>3, <2>5
<1>7. ASSUME times # <<>>, Last(times) + Window > now PROVE f[n] # <<>> /\ Last(f[n]) = Last(times)
  <2>1. n \in 1..n /\ n - 1 \in 0..n /\ Last(times) = times[n]
    BY <1>0, <1>7 DEF Last, n
  <2>2. f[n] = Append(f[n - 1], times[n])
    BY <1>3, <1>7, <2>1
  <2>3. f[n - 1] \in Seq(Nat) /\ times[n] \in Nat
    BY <1>0, <1>6, <2>1
  <2>4. /\ Len(f[n]) = Len(f[n - 1]) + 1 /\ Len(f[n - 1]) \in Nat
        /\ f[n][Len(f[n - 1]) + 1] = times[n] /\ f[n] # <<>>
    <3>1. PICK p \in Seq(Nat) : p = f[n - 1]
      BY <2>3
    <3>2. f[n] = Append(p, times[n])
      BY <2>2, <3>1
    <3>3. Len(Append(p, times[n])) = Len(p) + 1 /\ Len(p) \in Nat
      BY AppendItem
    <3>4. Append(p, times[n])[Len(p) + 1] = times[n] /\ Append(p, times[n]) # <<>>
      BY AppendItem
    <3> QED
      BY <3>1, <3>2, <3>3, <3>4
  <2> QED
    BY <2>1, <2>4 DEF Last
<1>8. Good(n)
  BY <1>0, <1>6
<1>9. DOMAIN f[n] = 1..Len(f[n])
  BY <1>8
<1> QED
  BY <1>0, <1>1, <1>7, <1>8, <1>9 DEF n

\* The last n times, or all of them if there are fewer.
LEMMA LastOfFacts ==
  ASSUME NEW s \in Seq(Nat), NEW n \in Nat \ {0}
  PROVE  LET r == LastOf(s, n)
         IN  /\ r \in Seq(Nat) /\ Len(r) <= n
             /\ \A i \in DOMAIN r : \E j \in DOMAIN s : r[i] = s[j]
             /\ InOrder(s) => InOrder(r)
             /\ s # <<>> => r # <<>> /\ Last(r) = Last(s)
<1>0. Len(s) \in Nat /\ DOMAIN s = 1..Len(s)
  OBVIOUS
<1>1. CASE ~ (Len(s) > n)
  <2>1. LastOf(s, n) = s
    BY <1>1 DEF LastOf
  <2> QED
    BY <1>0, <1>1, <2>1
<1>2. CASE Len(s) > n
  <2> DEFINE m == Len(s) - n
  <2>0. m \in Nat /\ m + 1 \in 1..Len(s) /\ m + n = Len(s) /\ n \in Nat /\ n >= 1
    BY <1>0, <1>2
  <2>1. PICK r : r = SubSeq(s, m + 1, Len(s)) /\ r = LastOf(s, n)
    BY <1>2 DEF LastOf
  <2> HIDE DEF m
  <2>2. /\ r \in Seq(Nat) /\ Len(r) = n /\ DOMAIN r = 1..n
        /\ \A i \in 1..n : r[i] = s[m + i]
    <3>1. m + 1 <= Len(s) /\ Len(s) - (m + 1) + 1 = n /\ m + 1 \in Int /\ Len(s) \in Int
      <4>1. PICK l \in Nat : l = Len(s)
        BY <1>0
      <4>2. m + n = l /\ m \in Nat /\ n \in Nat /\ n >= 1
        BY <2>0, <4>1
      <4>3. m + 1 <= l /\ l - (m + 1) + 1 = n /\ m + 1 \in Int /\ l \in Int
        BY <4>2
      <4> QED
        BY <4>1, <4>3
    <3>2. \A i \in m + 1..Len(s) : s[i] \in Nat
      BY <1>0, <2>0
    <3>3. /\ r \in Seq(Nat) /\ Len(r) = n
          /\ \A i \in 1..n : r[i] = s[m + 1 + i - 1]
      BY <2>1, <3>1, <3>2, SubSeqProperties
    <3> QED
      BY <2>0, <3>3
  <2>3. \A i \in 1..n : m + i \in 1..Len(s)
    BY <1>0, <2>0
  <2>4. ASSUME InOrder(s) PROVE InOrder(r)
    <3> SUFFICES ASSUME NEW i \in 1..n, NEW j \in 1..n, i < j PROVE r[i] <= r[j]
      BY <2>2 DEF InOrder
    <3>1. m + i \in DOMAIN s /\ m + j \in DOMAIN s /\ m + i < m + j
      BY <1>0, <2>0, <2>3
    <3>2. s[m + i] <= s[m + j]
      BY <2>4, <3>1 DEF InOrder
    <3> QED
      BY <2>2, <3>2
  <2>5. r # <<>> /\ Last(r) = Last(s)
    <3>1. n \in 1..n /\ m + n = Len(s)
      BY <2>0
    <3>2. r[n] = s[Len(s)]
      BY <2>2, <3>1
    <3> QED
      BY <2>2, <3>1, <3>2 DEF Last
  <2>6. \A i \in DOMAIN r : \E j \in DOMAIN s : r[i] = s[j]
    BY <1>0, <2>2, <2>3
  <2> QED
    <3>1. r \in Seq(Nat) /\ Len(r) <= n
      BY <2>0, <2>2
    <3> QED
      BY <2>1, <2>4, <2>5, <2>6, <3>1
<1> QED
  BY <1>1, <1>2

---------------------------------------------------------------------------
(* AnomalyTracker: the inductive invariant                                 *)
(*                                                                         *)
(* BucketsOK counts the tracked agents, which says something only of a     *)
(* finite set.                                                             *)

TrackerInv == BucketsOK /\ IsFiniteSet(Tracked(buckets)) /\ now \in Nat

BucketOK(times) ==
  /\ times \in Seq(Nat)
  /\ Len(times) <= Threshold /\ InOrder(times)
  /\ \A i \in DOMAIN times : times[i] <= now

\* A live denial in the first is in the second, or a later one is.
Survives(times, r) ==
  times # <<>> /\ Last(times) + Window > now => r # <<>> /\ Last(r) >= Last(times)

Shrinks(times, r) == BucketOK(r) /\ (times = <<>> => r = <<>>) /\ Survives(times, r)

LEMMA LastInNat ==
  ASSUME NEW s \in Seq(Nat), s # <<>>
  PROVE  Last(s) \in Nat /\ Len(s) \in DOMAIN s /\ Last(s) = s[Len(s)]
  BY DEF Last

LEMMA PruneShrinks ==
  ASSUME now \in Nat, NEW times, BucketOK(times)
  PROVE  Shrinks(times, pruneAnomalyTimes(times)) /\ Shrinks(times, times)
<1>0. /\ times \in Seq(Nat) /\ Threshold \in Nat /\ Len(times) \in Nat
      /\ Len(times) <= Threshold /\ InOrder(times) /\ DOMAIN times = 1..Len(times)
      /\ \A j \in DOMAIN times : times[j] <= now
  BY TrackerAssumption DEF BucketOK
<1>1. PICK r : /\ r = pruneAnomalyTimes(times)
               /\ r \in Seq(Nat) /\ Len(r) <= Len(times)
               /\ \A i \in DOMAIN r : \E j \in DOMAIN times : r[i] = times[j]
               /\ InOrder(times) => InOrder(r)
               /\ times # <<>> /\ Last(times) + Window > now => r # <<>> /\ Last(r) = Last(times)
  BY <1>0, PruneFacts
<1>2. InOrder(r) /\ Len(r) \in Nat
  BY <1>0, <1>1
<1>3. BucketOK(r)
  <2>1. \A i \in DOMAIN r : r[i] <= now
    BY <1>0, <1>1, <1>2
  <2> QED
    BY <1>0, <1>1, <1>2, <2>1 DEF BucketOK
<1>4. times = <<>> => r = <<>>
  BY <1>0, <1>1, <1>2
<1>5. Survives(times, r) /\ Survives(times, times)
  BY <1>0, <1>1, <1>2, LastInNat DEF Survives
<1> QED
  BY <1>1, <1>3, <1>4, <1>5 DEF Shrinks

\* A look-up leaves every bucket as it is or pruned.
LEMMA PrunedShrinks ==
  ASSUME TrackerInv, NEW a \in Actors
  PROVE  LET p == Pruned(a)
         IN  /\ p \in [Actors -> Seq(Nat)]
             /\ IsFiniteSet(Tracked(p)) /\ Cardinality(Tracked(p)) <= AnomalyCapacity
             /\ \A b \in Actors : Shrinks(buckets[b], p[b])
<1>0. /\ now \in Nat /\ buckets \in [Actors -> Seq(Nat)]
      /\ IsFiniteSet(Tracked(buckets)) /\ Cardinality(Tracked(buckets)) <= AnomalyCapacity
      /\ \A b \in Actors : BucketOK(buckets[b])
  BY DEF TrackerInv, BucketsOK, BucketOK
<1>1. \A b \in Actors : /\ Shrinks(buckets[b], buckets[b])
                        /\ Shrinks(buckets[b], pruneAnomalyTimes(buckets[b]))
  BY <1>0, PruneShrinks
<1>2. PICK p : p = Pruned(a)
  OBVIOUS
<1>3. /\ DOMAIN p = Actors /\ p = [b \in Actors |-> p[b]]
      /\ \A b \in Actors : p[b] = buckets[b] \/ p[b] = pruneAnomalyTimes(buckets[b])
  <2>1. CASE buckets[a] # <<>>
    BY <1>0, <1>2, <2>1 DEF Pruned
  <2>2. CASE buckets[a] = <<>> /\ Full(buckets)
    BY <1>0, <1>2, <2>2 DEF Pruned, pruneExpired
  <2>3. CASE buckets[a] = <<>> /\ ~ Full(buckets)
    BY <1>0, <1>2, <2>3 DEF Pruned
  <2> QED
    BY <2>1, <2>2, <2>3
<1>4. \A b \in Actors : Shrinks(buckets[b], p[b])
  BY <1>1, <1>3
<1>5. \A b \in Actors : p[b] \in Seq(Nat) /\ (buckets[b] = <<>> => p[b] = <<>>)
  BY <1>4 DEF Shrinks, BucketOK
<1>6. p \in [Actors -> Seq(Nat)]
  BY <1>3, <1>5
<1>7. Tracked(p) \subseteq Tracked(buckets)
  BY <1>5 DEF Tracked
<1>8. IsFiniteSet(Tracked(p)) /\ Cardinality(Tracked(p)) <= AnomalyCapacity
  <2>1. /\ IsFiniteSet(Tracked(p)) /\ Cardinality(Tracked(p)) <= Cardinality(Tracked(buckets))
        /\ Cardinality(Tracked(p)) \in Nat /\ Cardinality(Tracked(buckets)) \in Nat
    BY <1>0, <1>7, FS_Subset, FS_CardinalityType
  <2> QED
    BY <1>0, <2>1, TrackerAssumption
<1> QED
  BY <1>2, <1>4, <1>6, <1>8

\* What a step of the tracker does for every agent.
TrackerStep == TrackerInv' /\ \A b \in Actors : Survives(buckets[b], buckets'[b])

LEMMA BucketsInvariant ==
  ASSUME now' = now, now \in Nat, buckets' \in [Actors -> Seq(Nat)],
         IsFiniteSet(Tracked(buckets')), Cardinality(Tracked(buckets')) <= AnomalyCapacity,
         \A b \in Actors : BucketOK(buckets'[b])
  PROVE  TrackerInv'
<1>1. \A b \in Actors : /\ Len(buckets'[b]) <= Threshold /\ InOrder(buckets'[b])
                        /\ \A i \in DOMAIN buckets'[b] : buckets'[b][i] <= now'
  BY DEF BucketOK
<1>2. BucketsOK'
  BY <1>1 DEF BucketsOK
<1> QED
  BY <1>2 DEF TrackerInv

LEMMA CurrentCountStep ==
  ASSUME TrackerInv, NEW a \in Actors, currentCount(a), now' = now
  PROVE  TrackerStep
<1>1. PICK p : p = Pruned(a)
  OBVIOUS
<1>2. /\ p \in [Actors -> Seq(Nat)] /\ buckets' = p
      /\ IsFiniteSet(Tracked(p)) /\ Cardinality(Tracked(p)) <= AnomalyCapacity
      /\ \A b \in Actors : Shrinks(buckets[b], p[b])
  BY <1>1, PrunedShrinks DEF currentCount
<1>3. \A b \in Actors : BucketOK(p[b]) /\ Survives(buckets[b], p[b])
  BY <1>2 DEF Shrinks
<1>4. TrackerInv'
  BY <1>2, <1>3, BucketsInvariant DEF TrackerInv
<1> QED
  BY <1>2, <1>3, <1>4 DEF TrackerStep

LEMMA AnomalyRecordStep ==
  ASSUME TrackerInv, NEW a \in Actors, anomalyRecord(a), now' = now
  PROVE  TrackerStep
<1>0. now \in Nat /\ Threshold \in Nat \ {0} /\ AnomalyCapacity \in Nat
  BY TrackerAssumption DEF TrackerInv
<1>1. PICK p : p = Pruned(a)
  OBVIOUS
<1>2. /\ p \in [Actors -> Seq(Nat)]
      /\ IsFiniteSet(Tracked(p)) /\ Cardinality(Tracked(p)) <= AnomalyCapacity
      /\ \A b \in Actors : Shrinks(buckets[b], p[b])
  BY <1>1, PrunedShrinks
<1>3. \A b \in Actors : BucketOK(p[b]) /\ Survives(buckets[b], p[b])
  BY <1>2 DEF Shrinks
<1>4. CASE buckets[a] = <<>> /\ Full(p)
  <2>1. buckets' = p
    BY <1>1, <1>4 DEF anomalyRecord
  <2>2. TrackerInv'
    BY <1>0, <1>2, <1>3, <2>1, BucketsInvariant
  <2> QED
    BY <1>3, <2>1, <2>2 DEF TrackerStep
<1>5. CASE ~ (buckets[a] = <<>> /\ Full(p))
  <2>1. PICK s : s = Append(p[a], now)
    OBVIOUS
  <2>2. PICK r : r = LastOf(s, Threshold)
    OBVIOUS
  <2>3. buckets' = [p EXCEPT ![a] = r]
    BY <1>1, <1>5, <2>1, <2>2 DEF anomalyRecord
  <2>4. /\ s \in Seq(Nat) /\ s # <<>> /\ Last(s) = now /\ InOrder(s)
        /\ \A i \in DOMAIN s : s[i] <= now
    <3>1. /\ p[a] \in Seq(Nat) /\ InOrder(p[a]) /\ \A i \in DOMAIN p[a] : p[a][i] <= now
          /\ DOMAIN p[a] = 1..Len(p[a]) /\ Len(p[a]) \in Nat
      BY <1>2, <1>3 DEF BucketOK
    <3>2. /\ s \in Seq(Nat) /\ Len(s) = Len(p[a]) + 1 /\ DOMAIN s = 1..Len(p[a]) + 1
          /\ s[Len(p[a]) + 1] = now /\ \A i \in 1..Len(p[a]) : s[i] = p[a][i]
      BY <1>0, <2>1, <3>1
    <3>3. \A i \in DOMAIN s : s[i] <= now
      <4> SUFFICES ASSUME NEW i \in 1..Len(p[a]) + 1 PROVE s[i] <= now
        BY <3>2
      <4>1. CASE i = Len(p[a]) + 1
        BY <1>0, <3>2, <4>1
      <4>2. CASE i # Len(p[a]) + 1
        <5>1. i \in 1..Len(p[a])
          BY <3>1, <4>2
        <5> QED
          BY <3>1, <3>2, <5>1
      <4> QED
        BY <4>1, <4>2
    <3>4. InOrder(s)
      <4> SUFFICES ASSUME NEW i \in 1..Len(p[a]) + 1, NEW j \in 1..Len(p[a]) + 1, i < j
                   PROVE  s[i] <= s[j]
        BY <3>2 DEF InOrder
      <4>1. CASE j = Len(p[a]) + 1
        BY <3>2, <3>3, <4>1
      <4>2. CASE j # Len(p[a]) + 1
        <5>1. i \in 1..Len(p[a]) /\ j \in 1..Len(p[a])
          BY <3>1, <4>2
        <5>2. p[a][i] <= p[a][j]
          BY <3>1, <5>1 DEF InOrder
        <5> QED
          BY <3>2, <5>1, <5>2
      <4> QED
        BY <4>1, <4>2
    <3>5. s # <<>> /\ Last(s) = now
      BY <3>1, <3>2 DEF Last
    <3> QED
      BY <3>2, <3>3, <3>4, <3>5
  <2>5. /\ r \in Seq(Nat) /\ Len(r) <= Threshold /\ InOrder(r) /\ r # <<>> /\ Last(r) = now
        /\ \A i \in DOMAIN r : \E j \in DOMAIN s : r[i] = s[j]
    BY <1>0, <2>2, <2>4, LastOfFacts
  <2>6. BucketOK(r)
    <3>1. \A i \in DOMAIN r : r[i] <= now
      BY <2>4, <2>5
    <3> QED
      BY <2>5, <3>1 DEF BucketOK
  <2>7. Survives(buckets[a], r)
    <3>1. ASSUME buckets[a] # <<>> PROVE Last(buckets[a]) <= now
      <4>1. buckets[a] \in Seq(Nat) /\ \A i \in DOMAIN buckets[a] : buckets[a][i] <= now
        BY DEF TrackerInv, BucketsOK
      <4> QED
        BY <3>1, <4>1, LastInNat
    <3>2. ASSUME buckets[a] # <<>> PROVE Last(buckets[a]) \in Nat
      <4>1. buckets[a] \in Seq(Nat)
        BY DEF TrackerInv, BucketsOK
      <4> QED
        BY <3>2, <4>1, LastInNat
    <3> QED
      BY <1>0, <2>5, <3>1, <3>2 DEF Survives
  <2>8. buckets' \in [Actors -> Seq(Nat)] /\ buckets'[a] = r
        /\ \A b \in Actors : b # a => buckets'[b] = p[b]
    BY <1>2, <2>3, <2>5
  <2>9. Tracked(buckets') = Tracked(p) \cup {a}
    BY <2>5, <2>8 DEF Tracked
  <2>10. IsFiniteSet(Tracked(buckets')) /\ Cardinality(Tracked(buckets')) <= AnomalyCapacity
    <3>1. /\ IsFiniteSet(Tracked(p) \cup {a}) /\ Cardinality(Tracked(p)) \in Nat
          /\ Cardinality(Tracked(p) \cup {a}) =
               IF a \in Tracked(p) THEN Cardinality(Tracked(p)) ELSE Cardinality(Tracked(p)) + 1
      BY <1>2, FS_AddElement, FS_CardinalityType
    <3>2. CASE ~ Full(p)
      BY <1>0, <1>2, <2>9, <3>1, <3>2 DEF Full
    <3>3. CASE buckets[a] # <<>>
      <4>1. a \in Tracked(buckets) /\ IsFiniteSet(Tracked(buckets))
        BY <3>3 DEF TrackerInv, Tracked
      <4>2. Tracked(p) \cup {a} \subseteq Tracked(buckets)
        <5>1. \A b \in Actors : buckets[b] = <<>> => p[b] = <<>>
          BY <1>2 DEF Shrinks
        <5> QED
          BY <4>1, <5>1 DEF Tracked
      <4>3. /\ Cardinality(Tracked(p) \cup {a}) <= Cardinality(Tracked(buckets))
            /\ Cardinality(Tracked(buckets)) \in Nat /\ Cardinality(Tracked(p) \cup {a}) \in Nat
        BY <3>1, <4>1, <4>2, FS_Subset, FS_CardinalityType
      <4>4. Cardinality(Tracked(buckets)) <= AnomalyCapacity
        BY DEF TrackerInv, BucketsOK
      <4> QED
        BY <1>0, <2>9, <3>1, <4>3, <4>4
    <3> QED
      BY <1>5, <3>2, <3>3
  <2>11. \A b \in Actors : BucketOK(buckets'[b]) /\ Survives(buckets[b], buckets'[b])
    BY <1>3, <2>6, <2>7, <2>8
  <2>12. TrackerInv'
    BY <1>0, <2>8, <2>10, <2>11, BucketsInvariant
  <2> QED
    BY <2>11, <2>12 DEF TrackerStep
<1> QED
  BY <1>4, <1>5

---------------------------------------------------------------------------
(* RiskModel and PolicyEvaluator: what the outcomes are                    *)

LEMMA SeverityFacts ==
  /\ severity["allow"] = 1 /\ severity["readOnly"] = 2
  /\ severity["review"] = 3 /\ severity["deny"] = 4
  BY DEF severity

\* The more restrictive of two outcomes is as severe as both.
LEMMA MoreRestrictiveFacts ==
  ASSUME NEW a \in Outcomes, NEW b \in Outcomes
  PROVE  /\ moreRestrictive(a, b) \in Outcomes
         /\ severity[moreRestrictive(a, b)] >= severity[a]
         /\ severity[moreRestrictive(a, b)] >= severity[b]
         /\ severity[a] <= 3 /\ severity[b] <= 3 => severity[moreRestrictive(a, b)] <= 3
         /\ a = "deny" \/ b = "deny" => moreRestrictive(a, b) = "deny"
         /\ a \in {"review", "deny"} \/ b \in {"review", "deny"} =>
              moreRestrictive(a, b) \in {"review", "deny"}
  BY SeverityFacts DEF moreRestrictive, Outcomes

\* Each of the three parts gives an outcome, whatever it is given; the risk
\* model holds a highly critical action at its floor.
LEMMA OutcomeFacts ==
  /\ \A score : gateOutcome(score) \in Outcomes
  /\ \A dec : evaluatorOutcome(dec) \in Outcomes
  /\ \A c, conf, rep, count :
       /\ riskOutcome("review", c, conf, rep, count) \in Outcomes
       /\ c >= HighCriticalityMin => riskOutcome("review", c, conf, rep, count) \in {"review", "deny"}
<1>1. \A score : gateOutcome(score) \in Outcomes
  BY DEF gateOutcome, Outcomes
<1>2. \A dec : evaluatorOutcome(dec) \in Outcomes
  BY DEF evaluatorOutcome, Outcomes
<1> SUFFICES ASSUME NEW c, NEW conf, NEW rep, NEW count
             PROVE  /\ riskOutcome("review", c, conf, rep, count) \in Outcomes
                    /\ c >= HighCriticalityMin =>
                         riskOutcome("review", c, conf, rep, count) \in {"review", "deny"}
  BY <1>1, <1>2
<1>3. BandOutcome(c, conf, rep, count) \in Outcomes
  BY DEF BandOutcome, Outcomes
<1>4. "review" \in Outcomes
  BY DEF Outcomes
<1> QED
  BY <1>3, <1>4, MoreRestrictiveFacts DEF riskOutcome

\* The score of an action is its criticality times a factor K that does not
\* depend on it.
LEMMA ScoreIsProduct ==
  ASSUME NEW conf \in 0..100, NEW rep \in actorStatEntry, NEW count \in Nat
  PROVE  \E K \in Nat, T \in Nat :
           \A c \in Criticalities, threshold \in Nat :
             ScoreAtMost(threshold, c, conf, rep, count) <=> c * K <= threshold * T
<1>1. PICK n \in Nat : n = rep.total + rep.denies
  BY DEF actorStatEntry
<1>2. PICK f \in Nat : f = anomalyFactor(count)
  BY DEF anomalyFactor
<1>3. PICK u \in Nat : u = 100 - conf
  OBVIOUS
<1>4. rep.total \in Nat
  BY DEF actorStatEntry
<1>5. u * n \in Nat /\ u * n * f \in Nat /\ 1000 * rep.total \in Nat
  BY <1>4
<1>6. ASSUME NEW c \in Criticalities, NEW threshold \in Nat
      PROVE  ScoreAtMost(threshold, c, conf, rep, count) <=>
               c * (u * n * f) <= threshold * (1000 * rep.total)
  <2>1. c \in Nat
    BY DEF Criticalities
  <2>2. c * u * n * f = c * (u * n * f)
    BY <2>1
  <2>3. threshold * 1000 * rep.total = threshold * (1000 * rep.total)
    BY <1>4
  <2> QED
    BY <1>1, <1>2, <1>3, <2>2, <2>3 DEF ScoreAtMost
<1>7. PICK K \in Nat, T \in Nat : K = u * n * f /\ T = 1000 * rep.total
  BY <1>5
<1>8. \A c \in Criticalities, threshold \in Nat :
        ScoreAtMost(threshold, c, conf, rep, count) <=> c * K <= threshold * T
  BY <1>6, <1>7
<1> QED
  BY <1>8

\* The more critical of two actions never gets the milder risk outcome.
LEMMA RiskMonotone ==
  ASSUME NEW conf \in 0..100, NEW rep \in actorStatEntry, NEW count \in Nat,
         NEW low \in Criticalities, NEW high \in Criticalities, low < high
  PROVE  severity[riskOutcome("review", low, conf, rep, count)] <=
           severity[riskOutcome("review", high, conf, rep, count)]
<1>1. PICK K \in Nat, T \in Nat :
        \A c \in Criticalities, threshold \in Nat :
          ScoreAtMost(threshold, c, conf, rep, count) <=> c * K <= threshold * T
  BY ScoreIsProduct
<1> DEFINE B(c, a, d, r) == IF c * K <= a * T THEN "allow"
                            ELSE IF c * K <= d * T THEN "readOnly"
                            ELSE IF c * K <= r * T THEN "review" ELSE "deny"
<1>2. /\ BandOutcome(25, conf, rep, count) = B(25, 30, 55, 75)
      /\ BandOutcome(50, conf, rep, count) = B(50, 15, 35, 55)
      /\ BandOutcome(60, conf, rep, count) = B(60, 15, 35, 55)
      /\ BandOutcome(90, conf, rep, count) = B(90, 8, 22, 40)
  BY <1>1 DEF BandOutcome, Band, HighCriticalityMin, MidCriticalityMin, Criticalities
<1>3. PICK l \in Outcomes, m \in Outcomes, n \in Outcomes, o \in Outcomes :
        l = B(25, 30, 55, 75) /\ m = B(50, 15, 35, 55) /\ n = B(60, 15, 35, 55)
        /\ o = B(90, 8, 22, 40)
  BY DEF Outcomes
<1>4. severity[l] <= severity[m] /\ severity[m] <= severity[n] /\ severity[n] <= severity[o]
  <2>1. severity[l] <= severity[m]
    BY <1>3, SeverityFacts
  <2>2. severity[m] <= severity[n]
    BY <1>3, SeverityFacts
  <2>3. severity[n] <= severity[o]
    BY <1>3, SeverityFacts
  <2> QED
    BY <2>1, <2>2, <2>3
<1>5. \A a \in Outcomes : severity[a] \in Nat
  BY SeverityFacts DEF Outcomes
<1>6. PICK p \in Outcomes : p = moreRestrictive(o, "review") /\ severity[p] >= severity[o]
  BY MoreRestrictiveFacts DEF Outcomes
<1>7. /\ riskOutcome("review", 25, conf, rep, count) = l
      /\ riskOutcome("review", 50, conf, rep, count) = m
      /\ riskOutcome("review", 60, conf, rep, count) = n
      /\ riskOutcome("review", 90, conf, rep, count) = p
  BY <1>2, <1>3, <1>6 DEF riskOutcome, HighCriticalityMin
<1> HIDE DEF B
<1>8. /\ severity[l] \in Nat /\ severity[m] \in Nat /\ severity[n] \in Nat
      /\ severity[o] \in Nat /\ severity[p] \in Nat
  BY <1>5
<1> QED
  BY <1>4, <1>6, <1>7, <1>8 DEF Criticalities

\* At full confidence and the best reputation the risk model denies nothing.
LEMMA BestRisk ==
  ASSUME NEW c \in Criticalities
  PROVE  severity[riskOutcome("review", c, 100, Unblemished, 0)] <= 3
<1>1. \A threshold \in Nat : ScoreAtMost(threshold, c, 100, Unblemished, 0)
  <2> SUFFICES ASSUME NEW threshold \in Nat PROVE ScoreAtMost(threshold, c, 100, Unblemished, 0)
    OBVIOUS
  <2>1. c * (100 - 100) * (1 + 0) * anomalyFactor(0) = 0
    BY DEF Criticalities, anomalyFactor
  <2>2. threshold * 1000 * 1 >= 0
    OBVIOUS
  <2> QED
    BY <2>1, <2>2 DEF ScoreAtMost, Unblemished, Counts
<1>2. Band(c).Allow \in Nat
  BY DEF Band
<1>3. BandOutcome(c, 100, Unblemished, 0) = "allow"
  BY <1>1, <1>2 DEF BandOutcome
<1> QED
  BY <1>3, SeverityFacts DEF riskOutcome, moreRestrictive

\* What the policy forbids outright is denied at every confidence.
LEMMA ForbiddenIsDenied ==
  ASSUME config \in DOMAIN Configs, NEW r, Forbidden(r), NEW conf
  PROVE  EvaluateAgent(policy, r.actor, r.action, conf) = Deny
<1>1. PICK p : p = policy
  OBVIOUS
<1>2. DOMAIN p.rules \subseteq Nat
  BY <1>1, PipelineAssumption DEF policy
<1>3. PICK hits : hits = Matching(p, r.actor, r.action)
  OBVIOUS
<1>4. hits = {k \in DOMAIN p.rules : /\ r.action \in p.rules[k].match
                                     /\ r.actor \in p.rules[k].actor
                                     /\ p.rules[k].decision \in RuleDecisions}
  BY <1>3 DEF Matching, matchAction
<1>5. \/ \E k \in hits : p.rules[k].decision = "deny" /\ \A j \in hits : k <= j
      \/ hits = {} /\ (p.scopes[r.actor] = NoScope \/ r.action \in p.scopes[r.actor].deny)
  BY <1>1, <1>4 DEF Forbidden
<1>6. CASE \E k \in hits : p.rules[k].decision = "deny" /\ \A j \in hits : k <= j
  <2>1. PICK k \in hits : p.rules[k].decision = "deny" /\ \A j \in hits : k <= j
    BY <1>6
  <2>2. hits \subseteq Nat
    BY <1>2, <1>4
  <2>3. Min(hits) = k
    <3>1. \A x \in hits : (\A y \in hits : x <= y) => x = k
      BY <2>1, <2>2
    <3> QED
      BY <2>1, <3>1 DEF Min
  <2>4. RuleDecision["deny"] = Deny
    BY DEF RuleDecision
  <2> QED
    BY <1>1, <1>3, <2>1, <2>3, <2>4 DEF EvaluateAgent
<1>7. CASE hits = {} /\ (p.scopes[r.actor] = NoScope \/ r.action \in p.scopes[r.actor].deny)
  BY <1>1, <1>3, <1>7 DEF EvaluateAgent, ScopeDecision, matchAction
<1> QED
  BY <1>5, <1>6, <1>7

LEMMA DenyIsDeny == evaluatorOutcome(Deny) = "deny" /\ ~ Deny.review /\ ~ Deny.allowed
  BY DEF evaluatorOutcome, Deny, Decision

---------------------------------------------------------------------------
(* AgentDecision: the inductive invariant                                  *)
(*                                                                         *)
(* What a request that is answered owes to the policy, the criticality and *)
(* the missing signal was settled steps before, and by the configuration   *)
(* alone: the caches may have changed in between.                          *)

Strict == {"review", "deny"}

WorkSound(w) ==
  /\ w.pc = "missing" => w.req.conf = NoSignal
  /\ w.pc \in {"count", "record", "answer"} => w.req.conf # NoSignal
  /\ w.pc \in {"record", "answer", "done"} /\ w.req.conf # NoSignal =>
       /\ Forbidden(w.req) => w.out = "deny"
       /\ criticality[w.req.action] >= HighCriticalityMin => w.out \in Strict
  /\ w.pc = "done" /\ w.req.conf = NoSignal => w.out = missingOutcome(w.req)
  /\ w.filed => w.out = "review" /\ Enforced
  /\ w.pc = "done" => /\ w.allowed => ~ Enforced \/ w.out \in {"allow", "readOnly"}
                      /\ w.review => w.out = "review"

WorkTyped ==
  /\ config \in DOMAIN Configs
  /\ handler \in [Handlers -> Handler]
  /\ received \in 0..MaxRequests
  /\ now \in 1..Horizon

IInv == WorkTyped /\ StatsInv /\ TrackerInv /\ \A h \in Handlers : WorkSound(handler[h])

LEMMA HandlerFields ==
  ASSUME NEW w \in Handler
  PROVE  /\ w.pc \in {"idle", "missing", "count", "record", "answer", "done"}
         /\ w.req \in Request /\ w.rep \in actorStatEntry /\ w.out \in Outcomes
         /\ w.verified \in BOOLEAN /\ w.filed \in BOOLEAN
         /\ w.req.actor \in Actors /\ w.req.action \in Actions
         /\ w.req.conf \in Confidences \cup {NoSignal}
  BY DEF Handler, Request

LEMMA UnblemishedTyped == Unblemished \in actorStatEntry /\ conservativePrior \in actorStatEntry
  BY DEF Unblemished, conservativePrior, Counts, actorStatEntry

Stages == {"idle", "missing", "count", "record", "answer", "done"}

LEMMA StageFacts ==
  /\ "idle" \in Stages /\ "missing" \in Stages /\ "count" \in Stages
  /\ "record" \in Stages /\ "answer" \in Stages /\ "done" \in Stages
  /\ FALSE \in BOOLEAN /\ "deny" \in Outcomes
  BY DEF Stages, Outcomes

\* A policy's verdict on the missing path is a strict one, and a denial where
\* the policy forbids the request.
LEMMA MissingFacts ==
  ASSUME config \in DOMAIN Configs, NEW r
  PROVE  missingOutcome(r) \in Strict /\ (Forbidden(r) => missingOutcome(r) = "deny")
<1>1. ASSUME Forbidden(r) PROVE policyVerdictAtFullConfidence(r) = "deny"
  <2>1. EvaluateAgent(policy, r.actor, r.action, 100) = Deny
    BY <1>1, ForbiddenIsDenied
  <2> QED
    BY <2>1, DenyIsDeny DEF policyVerdictAtFullConfidence
<1> QED
  BY <1>1 DEF missingOutcome, Strict

\* The merge of the three outcomes.
LEMMA MergeFacts ==
  ASSUME config \in DOMAIN Configs, NEW r \in Request, NEW rep, NEW calibrate, NEW count
  PROVE  /\ Merge(r, rep, calibrate, count) \in Outcomes
         /\ Forbidden(r) => Merge(r, rep, calibrate, count) = "deny"
         /\ criticality[r.action] >= HighCriticalityMin => Merge(r, rep, calibrate, count) \in Strict
<1>1. PICK g \in Outcomes : g = gateOutcome(calibrate[r.conf])
  BY OutcomeFacts
<1>2. PICK p \in Outcomes : p = PolicyOutcome(r)
  BY OutcomeFacts DEF PolicyOutcome
<1>3. PICK k \in Outcomes : /\ k = riskOutcome("review", criticality[r.action], r.conf, rep, count)
                            /\ criticality[r.action] >= HighCriticalityMin => k \in Strict
  BY OutcomeFacts DEF Strict
<1>4. Forbidden(r) => p = "deny"
  BY <1>2, ForbiddenIsDenied, DenyIsDeny DEF PolicyOutcome
<1>5. PICK m \in Outcomes : m = moreRestrictive(g, p) /\ (p = "deny" => m = "deny")
  BY MoreRestrictiveFacts
<1>6. PICK o \in Outcomes : o = moreRestrictive(m, k) /\ (m = "deny" => o = "deny")
                            /\ (k \in Strict => o \in Strict)
  BY MoreRestrictiveFacts DEF Strict
<1>7. o = Merge(r, rep, calibrate, count)
  BY <1>1, <1>2, <1>3, <1>5, <1>6 DEF Merge
<1> QED
  BY <1>3, <1>4, <1>5, <1>6, <1>7

\* The configuration does not change, and so neither does what is sound.
LEMMA SoundStays ==
  ASSUME config' = config, NEW w, WorkSound(w)
  PROVE  WorkSound(w)'
  BY DEF WorkSound, Forbidden, policy, Enforced, missingOutcome, policyVerdictAtFullConfidence

\* A step of one handler leaves the work of the others alone.
LEMMA OneHandlerMoves ==
  ASSUME config' = config, handler \in [Handlers -> Handler],
         \A g \in Handlers : WorkSound(handler[g]),
         NEW h \in Handlers, NEW w \in Handler, WorkSound(w), Do(h, w)
  PROVE  handler' \in [Handlers -> Handler] /\ (\A g \in Handlers : WorkSound(handler[g]))'
<1>1. handler' = [handler EXCEPT ![h] = w]
  BY DEF Do
<1>2. ASSUME NEW g \in Handlers PROVE WorkSound(handler[g])'
  <2>1. PICK x : x = handler'[g]
    OBVIOUS
  <2>2. WorkSound(x)
    <3>1. PICK y : y = handler[g]
      OBVIOUS
    <3>2. WorkSound(y)
      BY <3>1
    <3>3. x = y \/ x = w
      BY <1>1, <2>1, <3>1
    <3> QED
      BY <3>2, <3>3
  <2>3. WorkSound(x)'
    BY <2>2, SoundStays
  <2> QED
    BY <2>1, <2>3
<1> QED
  BY <1>1, <1>2

\* The answer keeps the decision and adds what follows from it.
LEMMA RespondSound ==
  ASSUME NEW h \in Handlers, NEW r \in Request, r = handler[h].req,
         NEW out \in Outcomes, NEW filed \in BOOLEAN, Respond(h, out, filed),
         r.conf # NoSignal =>
           /\ Forbidden(r) => out = "deny"
           /\ criticality[r.action] >= HighCriticalityMin => out \in Strict,
         r.conf = NoSignal => out = missingOutcome(r),
         filed => out = "review" /\ Enforced
  PROVE  \E w \in Handler : WorkSound(w) /\ Do(h, w)
<1>1. PICK x : x = Work("done", r, FALSE, Unblemished, out, filed)
  OBVIOUS
<1>2. x \in Handler /\ x.pc = "done" /\ x.req = r /\ x.out = out /\ x.filed = filed
  BY <1>1, StageFacts, UnblemishedTyped DEF Work, Handler, Stages
<1>3. PICK allowed \in BOOLEAN : allowed = (~ Enforced \/ out \in {"allow", "readOnly"})
  OBVIOUS
<1>4. PICK review \in BOOLEAN : review = (Enforced /\ out = "review")
  OBVIOUS
<1>5. PICK w : w = [x EXCEPT !.allowed = allowed, !.review = review]
  OBVIOUS
<1>6. w \in Handler
  BY <1>2, <1>5 DEF Handler
<1>7. /\ w.pc = "done" /\ w.req = r /\ w.out = out /\ w.filed = filed
      /\ w.allowed = allowed /\ w.review = review
  BY <1>2, <1>5 DEF Handler
<1>8. Do(h, w)
  BY <1>1, <1>3, <1>4, <1>5 DEF Respond
<1>9. WorkSound(w)
  BY <1>3, <1>4, <1>7 DEF WorkSound
<1> QED
  BY <1>6, <1>8, <1>9

\* Whether a review item is filed.
LEMMA FiledFacts ==
  ASSUME NEW out, NEW filed \in Filed(out)
  PROVE  filed \in BOOLEAN /\ (filed => out = "review" /\ Enforced)
  BY DEF Filed

LEMMA StatsStay ==
  ASSUME StatsInv, UNCHANGED statsVars
  PROVE  StatsInv'
  BY DEF statsVars, StatsInv, StatsTypeOK, CachesAgree, DeniedPlaced, Cached, Trusted, UnderPressure

LEMMA StatsRecordStep ==
  ASSUME StatsInv, NEW a \in Actors, NEW denied \in BOOLEAN, record(a, denied)
  PROVE  StatsInv'
  BY HitInvariant, NewInvariant, EvictInvariant DEF record

LEMMA TrackerStay ==
  ASSUME TrackerInv, UNCHANGED <<now, buckets>>
  PROVE  TrackerInv'
  BY DEF TrackerInv, BucketsOK, Tracked

\* The reputation that is looked up is one.
LEMMA ReputationTyped ==
  ASSUME StatsInv, NEW a \in Actors
  PROVE  Reputation(a) \in actorStatEntry
  BY UnblemishedTyped DEF StatsInv, StatsTypeOK, Reputation

LEMMA WorkInit == Init => IInv
<1> SUFFICES ASSUME Init PROVE IInv
  OBVIOUS
<1>1. PICK r0 : r0 = CHOOSE r \in Request : TRUE
  OBVIOUS
<1>2. r0 \in Request
  <2>1. PICK a \in Actors, x \in Actions : TRUE
    BY PipelineAssumption
  <2>2. [actor |-> a, action |-> x, conf |-> NoSignal] \in Request
    BY DEF Request
  <2> QED
    BY <1>1, <2>2
<1>3. PICK w : w = NoWork
  OBVIOUS
<1>4. w \in Handler /\ w.pc = "idle" /\ w.filed = FALSE
  <2>1. w = Work("idle", r0, FALSE, Unblemished, "deny", FALSE)
    BY <1>1, <1>3 DEF NoWork
  <2> QED
    BY <1>2, <2>1, StageFacts, UnblemishedTyped DEF Work, Handler, Stages
<1>5. WorkSound(w)
  BY <1>4 DEF WorkSound
<1>6. handler = [h \in Handlers |-> w]
  BY <1>3 DEF Init
<1>7. WorkTyped
  <2>1. received = 0 /\ now = 1 /\ config \in DOMAIN Configs
    BY DEF Init
  <2>2. 0 \in 0..MaxRequests /\ 1 \in 1..Horizon
    BY PipelineAssumption
  <2> QED
    BY <1>4, <1>6, <2>1, <2>2 DEF WorkTyped
<1>8. \A h \in Handlers : WorkSound(handler[h])
  BY <1>5, <1>6
<1>9. StatsInv
  BY InitInvariant DEF Init
<1>10. TrackerInv
  <2>1. buckets = [a \in Actors |-> <<>>] /\ now = 1
    BY DEF Init
  <2>2. Tracked(buckets) = {}
    BY <2>1 DEF Tracked
  <2>3. IsFiniteSet(Tracked(buckets)) /\ Cardinality(Tracked(buckets)) <= AnomalyCapacity
    BY <2>2, FS_EmptySet, TrackerAssumption
  <2>4. buckets \in [Actors -> Seq(Nat)]
    BY <2>1
  <2>5. \A a \in Actors : /\ Len(buckets[a]) <= Threshold /\ InOrder(buckets[a])
                          /\ \A i \in DOMAIN buckets[a] : buckets[a][i] <= now
    BY <2>1, TrackerAssumption DEF InOrder
  <2> QED
    BY <2>1, <2>3, <2>4, <2>5 DEF TrackerInv, BucketsOK
<1> QED
  BY <1>7, <1>8, <1>9, <1>10 DEF IInv

LEMMA ReceiveStep ==
  ASSUME IInv, NEW h \in Handlers, NEW r \in Request, NEW verified \in BOOLEAN,
         Receive(h, r, verified)
  PROVE  IInv'
<1>0. /\ config' = config /\ now' = now /\ buckets' = buckets /\ received' = received + 1
      /\ received < MaxRequests /\ r.actor \in Actors
  BY DEF Receive, Request
<1>1. StatsInv'
  <2>1. CASE r.conf = NoSignal \/ ~ verified
    BY <2>1, StatsStay DEF Receive, IInv
  <2>2. CASE r.conf # NoSignal /\ verified
    <3>1. reliability(r.actor)
      BY <2>2 DEF Receive
    <3> QED
      BY <1>0, <3>1, LookupInvariant DEF IInv
  <2> QED
    BY <2>1, <2>2
<1>2. TrackerInv'
  BY <1>0, TrackerStay DEF IInv
<1>3. \E w \in Handler : WorkSound(w) /\ Do(h, w)
  <2>1. CASE r.conf = NoSignal
    <3>1. PICK w : w = Work("missing", r, FALSE, Unblemished, "deny", FALSE)
      OBVIOUS
    <3>2. w \in Handler /\ w.pc = "missing" /\ w.req = r /\ w.filed = FALSE
      BY <1>0, <3>1, StageFacts, UnblemishedTyped DEF Work, Handler, Stages
    <3>3. WorkSound(w)
      BY <2>1, <3>2 DEF WorkSound
    <3>4. Do(h, w)
      BY <2>1, <3>1 DEF Receive
    <3> QED
      BY <3>2, <3>3, <3>4
  <2>2. CASE r.conf # NoSignal
    <3>1. PICK rep \in actorStatEntry : Do(h, Work("count", r, verified, rep, "deny", FALSE))
      <4>1. PICK rep \in IF verified THEN {Reputation(r.actor)} \cup Histories ELSE {Unblemished} :
              Do(h, Work("count", r, verified, rep, "deny", FALSE))
        BY <2>2 DEF Receive
      <4>2. Reputation(r.actor) \in actorStatEntry
        BY <1>0, ReputationTyped DEF IInv
      <4>3. rep \in actorStatEntry
        BY <4>1, <4>2, UnblemishedTyped, PipelineAssumption
      <4> QED
        BY <4>1, <4>3
    <3>2. PICK w : w = Work("count", r, verified, rep, "deny", FALSE)
      OBVIOUS
    <3>3. w \in Handler /\ w.pc = "count" /\ w.req = r /\ w.filed = FALSE
      BY <1>0, <3>2, StageFacts DEF Work, Handler, Stages
    <3>4. WorkSound(w)
      BY <2>2, <3>3 DEF WorkSound
    <3> QED
      BY <3>1, <3>2, <3>3, <3>4
  <2> QED
    BY <2>1, <2>2
<1>4. handler' \in [Handlers -> Handler] /\ (\A g \in Handlers : WorkSound(handler[g]))'
  BY <1>0, <1>3, OneHandlerMoves DEF IInv, WorkTyped
<1>5. WorkTyped'
  <2>1. received + 1 \in 0..MaxRequests
    BY <1>0, PipelineAssumption DEF IInv, WorkTyped
  <2> QED
    BY <1>0, <1>4, <2>1 DEF IInv, WorkTyped
<1> QED
  BY <1>1, <1>2, <1>4, <1>5 DEF IInv

\* A step that leaves the requests received and the clock as they are.
LEMMA WorkStep ==
  ASSUME IInv, UNCHANGED <<config, received, now>>, StatsInv', TrackerInv',
         NEW h \in Handlers, NEW w \in Handler, WorkSound(w), Do(h, w)
  PROVE  IInv'
<1>1. handler' \in [Handlers -> Handler] /\ (\A g \in Handlers : WorkSound(handler[g]))'
  BY OneHandlerMoves DEF IInv, WorkTyped
<1>2. WorkTyped'
  BY <1>1 DEF IInv, WorkTyped
<1> QED
  BY <1>1, <1>2 DEF IInv

LEMMA CountStep ==
  ASSUME IInv, NEW h \in Handlers, Count(h)
  PROVE  IInv'
<1>1. PICK v \in Handler : v = handler[h] /\ WorkSound(v)
  BY DEF IInv, WorkTyped
<1>2. /\ v.pc = "count" /\ v.req \in Request /\ v.req.actor \in Actors /\ v.verified \in BOOLEAN
      /\ config \in DOMAIN Configs
  BY <1>1, HandlerFields DEF Count, At, IInv, WorkTyped
<1>3. UNCHANGED <<config, received, now, statsVars>> /\ currentCount(v.req.actor)
  BY <1>1 DEF Count
<1>4. PICK calibrate \in Calibrations :
        Do(h, Work("record", v.req, v.verified, Unblemished,
                   Merge(v.req, v.rep, calibrate, countOf(v.req.actor)), FALSE))
  BY <1>1 DEF Count
<1>5. PICK count : count = countOf(v.req.actor)
  OBVIOUS
<1>6. PICK out \in Outcomes : /\ out = Merge(v.req, v.rep, calibrate, count)
                              /\ Forbidden(v.req) => out = "deny"
                              /\ criticality[v.req.action] >= HighCriticalityMin => out \in Strict
  BY <1>2, MergeFacts
<1>7. PICK w : w = Work("record", v.req, v.verified, Unblemished, out, FALSE)
  OBVIOUS
<1>8. w \in Handler /\ w.pc = "record" /\ w.req = v.req /\ w.filed = FALSE /\ w.out = out
  BY <1>2, <1>7, StageFacts, UnblemishedTyped DEF Work, Handler, Stages
<1>9. WorkSound(w)
  <2>1. v.req.conf # NoSignal
    BY <1>1, <1>2 DEF WorkSound
  <2> QED
    BY <1>6, <1>8, <2>1 DEF WorkSound
<1>10. Do(h, w)
  BY <1>4, <1>5, <1>6, <1>7
<1>11. StatsInv' /\ TrackerInv'
  BY <1>2, <1>3, StatsStay, CurrentCountStep DEF IInv, TrackerStep
<1> QED
  BY <1>3, <1>8, <1>9, <1>10, <1>11, WorkStep

LEMMA RecordStep ==
  ASSUME IInv, NEW h \in Handlers, Record(h)
  PROVE  IInv'
<1>1. PICK v \in Handler : v = handler[h] /\ WorkSound(v)
  BY DEF IInv, WorkTyped
<1>2. /\ v.pc = "record" /\ v.req \in Request /\ v.req.actor \in Actors /\ v.out \in Outcomes
  BY <1>1, HandlerFields DEF Record, At
<1>3. UNCHANGED <<config, received, now, buckets>>
  BY DEF Record
<1>4. StatsInv'
  <2>1. CASE v.verified
    <3>1. PICK denied \in BOOLEAN : denied = (v.out = "deny")
      OBVIOUS
    <3>2. record(v.req.actor, denied)
      BY <1>1, <2>1, <3>1 DEF Record
    <3> QED
      BY <1>2, <3>2, StatsRecordStep DEF IInv
  <2>2. CASE ~ v.verified
    BY <1>1, <2>2, StatsStay DEF Record, IInv
  <2> QED
    BY <2>1, <2>2
<1>5. PICK filed \in Filed(v.out) : Do(h, Work("answer", v.req, FALSE, Unblemished, v.out, filed))
  BY <1>1 DEF Record
<1>6. filed \in BOOLEAN /\ (filed => v.out = "review" /\ Enforced)
  BY FiledFacts
<1>7. PICK w : w = Work("answer", v.req, FALSE, Unblemished, v.out, filed)
  OBVIOUS
<1>8. w \in Handler /\ w.pc = "answer" /\ w.req = v.req /\ w.filed = filed /\ w.out = v.out
  BY <1>2, <1>6, <1>7, StageFacts, UnblemishedTyped DEF Work, Handler, Stages
<1>9. WorkSound(w)
  BY <1>1, <1>2, <1>6, <1>8 DEF WorkSound
<1>10. TrackerInv' /\ Do(h, w)
  BY <1>3, <1>5, <1>7, TrackerStay DEF IInv
<1> QED
  BY <1>3, <1>4, <1>8, <1>9, <1>10, WorkStep

LEMMA AnswerStep ==
  ASSUME IInv, NEW h \in Handlers, Answer(h)
  PROVE  IInv'
<1>1. PICK v \in Handler : v = handler[h] /\ WorkSound(v)
  BY DEF IInv, WorkTyped
<1>2. /\ v.pc = "answer" /\ v.req \in Request /\ v.req.actor \in Actors /\ v.out \in Outcomes
      /\ v.filed \in BOOLEAN
  BY <1>1, HandlerFields DEF Answer, At
<1>3. UNCHANGED <<config, received, now, statsVars>> /\ Respond(h, v.out, v.filed)
  BY <1>1 DEF Answer
<1>4. TrackerInv'
  <2>1. CASE v.out = "deny"
    <3>1. anomalyRecord(v.req.actor)
      BY <1>1, <2>1 DEF Answer
    <3> QED
      BY <1>2, <1>3, <3>1, AnomalyRecordStep DEF IInv, TrackerStep
  <2>2. CASE v.out # "deny"
    BY <1>1, <1>3, <2>2, TrackerStay DEF Answer, IInv
  <2> QED
    BY <2>1, <2>2
<1>5. /\ v.req.conf # NoSignal
      /\ Forbidden(v.req) => v.out = "deny"
      /\ criticality[v.req.action] >= HighCriticalityMin => v.out \in Strict
      /\ v.filed => v.out = "review" /\ Enforced
  BY <1>1, <1>2 DEF WorkSound
<1>6. PICK w \in Handler : WorkSound(w) /\ Do(h, w)
  BY <1>1, <1>2, <1>3, <1>5, RespondSound
<1>7. StatsInv'
  BY <1>3, StatsStay DEF IInv
<1> QED
  BY <1>3, <1>4, <1>6, <1>7, WorkStep

LEMMA MissingStep ==
  ASSUME IInv, NEW h \in Handlers, Missing(h)
  PROVE  IInv'
<1>1. PICK v \in Handler : v = handler[h] /\ WorkSound(v)
  BY DEF IInv, WorkTyped
<1>2. v.pc = "missing" /\ v.req \in Request /\ config \in DOMAIN Configs
  BY <1>1, HandlerFields DEF Missing, At, IInv, WorkTyped
<1>3. UNCHANGED <<config, received, now, buckets, statsVars>>
  BY DEF Missing
<1>4. PICK out : out = missingOutcome(v.req)
  OBVIOUS
<1>5. out \in Outcomes
  BY <1>2, <1>4, MissingFacts DEF Strict, Outcomes
<1>6. PICK filed \in Filed(out) : Respond(h, out, filed)
  BY <1>1, <1>4 DEF Missing
<1>7. filed \in BOOLEAN /\ (filed => out = "review" /\ Enforced)
  BY FiledFacts
<1>8. v.req.conf = NoSignal
  BY <1>1, <1>2 DEF WorkSound
<1>9. PICK w \in Handler : WorkSound(w) /\ Do(h, w)
  BY <1>1, <1>2, <1>4, <1>5, <1>6, <1>7, <1>8, RespondSound
<1>10. StatsInv' /\ TrackerInv'
  BY <1>3, StatsStay, TrackerStay DEF IInv
<1> QED
  BY <1>3, <1>9, <1>10, WorkStep

LEMMA TickStep ==
  ASSUME IInv, Tick
  PROVE  IInv'
<1>1. now' = now + 1 /\ now < Horizon /\ UNCHANGED <<config, handler, received, buckets, statsVars>>
  BY DEF Tick
<1>2. now \in Nat /\ now' \in Nat /\ now' \in 1..Horizon
  BY <1>1, PipelineAssumption DEF IInv, WorkTyped
<1>3. TrackerInv'
  <2>1. /\ buckets \in [Actors -> Seq(Nat)]
        /\ \A a \in Actors : \A i \in DOMAIN buckets[a] : buckets[a][i] \in Nat /\ buckets[a][i] <= now
    BY DEF IInv, TrackerInv, BucketsOK
  <2>2. \A a \in Actors : \A i \in DOMAIN buckets[a] : buckets[a][i] <= now'
    BY <1>1, <1>2, <2>1
  <2> QED
    BY <1>1, <1>2, <2>2 DEF IInv, TrackerInv, BucketsOK, Tracked
<1>4. ASSUME NEW h \in Handlers PROVE WorkSound(handler[h])'
  <2>1. PICK w : w = handler[h] /\ WorkSound(w)
    BY DEF IInv
  <2>2. WorkSound(w)'
    BY <1>1, <2>1, SoundStays
  <2> QED
    BY <1>1, <2>1, <2>2
<1>5. WorkTyped' /\ StatsInv'
  BY <1>1, <1>2, StatsStay DEF IInv, WorkTyped
<1> QED
  BY <1>3, <1>4, <1>5 DEF IInv

LEMMA StutterStep ==
  ASSUME IInv, UNCHANGED vars
  PROVE  IInv'
<1>1. UNCHANGED <<config, handler, received, now, buckets, statsVars>>
  BY DEF vars
<1>2. StatsInv' /\ TrackerInv' /\ WorkTyped'
  BY <1>1, StatsStay, TrackerStay DEF IInv, WorkTyped
<1>3. ASSUME NEW h \in Handlers PROVE WorkSound(handler[h])'
  <2>1. PICK w : w = handler[h] /\ WorkSound(w)
    BY DEF IInv
  <2>2. WorkSound(w)'
    BY <1>1, <2>1, SoundStays
  <2> QED
    BY <1>1, <2>1, <2>2
<1> QED
  BY <1>2, <1>3 DEF IInv

---------------------------------------------------------------------------
(* AgentDecision: the theorems                                             *)

LEMMA StepInvariance == IInv /\ [Next]_vars => IInv'
<1> SUFFICES ASSUME IInv, [Next]_vars PROVE IInv'
  OBVIOUS
<1>1. CASE Tick
  BY <1>1, TickStep
<1>2. CASE UNCHANGED vars
  BY <1>2, StutterStep
<1>3. ASSUME NEW h \in Handlers, Count(h) \/ Record(h) \/ Answer(h) \/ Missing(h) PROVE IInv'
  BY <1>3, CountStep, RecordStep, AnswerStep, MissingStep
<1>4. ASSUME NEW h \in Handlers, NEW r \in Request, NEW verified \in BOOLEAN,
             Receive(h, r, verified)
      PROVE  IInv'
  BY <1>4, ReceiveStep
<1> QED
  BY <1>1, <1>2, <1>3, <1>4 DEF Next

\* Every step of every handler preserves the invariant.
THEOREM PipelineInvariance == Spec => []IInv
  BY WorkInit, StepInvariance, PTL DEF Spec

\* Every reachable state of the pipeline, its reputation cache and its anomaly
\* tracker is well typed: in particular no bucket outgrows the threshold, nor
\* the tracker its capacity (AgentDecision, record, currentCount).
THEOREM PipelineTypes == Spec => []TypeOK
<1>1. IInv => TypeOK
  BY DEF IInv, WorkTyped, StatsInv, TrackerInv, TypeOK
<1> QED
  BY <1>1, PipelineInvariance, PTL

\* Within the pipeline, too, no churn of requests makes a denied agent look
\* unblemished (actorStats, evictOldestLocked).
THEOREM DenialSticksInPipeline == Spec => []DenialSticks
<1>1. IInv => DenialSticks
  BY PlacedSticks DEF IInv
<1> QED
  BY <1>1, PipelineInvariance, PTL

\* Whatever the confidence, its calibration, the reputation and the fallback
\* mode, what the policy forbids is neither allowed nor put before a reviewer
\* (evaluateAgentDecision, decisionForMissingSignal).
THEOREM DenialIsFinal == Spec => []DenyIsFinal
<1>1. IInv => DenyIsFinal
  <2> SUFFICES ASSUME IInv, NEW h \in Handlers, At(h, "done"), Forbidden(handler[h].req)
               PROVE  ~ handler[h].filed /\ ~ handler[h].review /\ (Enforced => ~ handler[h].allowed)
    BY DEF DenyIsFinal
  <2>1. PICK w : w = handler[h] /\ WorkSound(w) /\ w.pc = "done" /\ Forbidden(w.req)
    BY DEF IInv, At
  <2>2. w.out = "deny"
    <3>1. CASE w.req.conf # NoSignal
      BY <2>1, <3>1 DEF WorkSound
    <3>2. CASE w.req.conf = NoSignal
      BY <2>1, <3>2, MissingFacts DEF WorkSound, IInv, WorkTyped
    <3> QED
      BY <3>1, <3>2
  <2> QED
    BY <2>1, <2>2 DEF WorkSound
<1> QED
  BY <1>1, PipelineInvariance, PTL

\* A request without a confidence signal never gets a better answer than the
\* highest score would (decisionForMissingSignal).
THEOREM SilenceIsNoHelp == Spec => []SilenceNeverHelps
<1>1. IInv => SilenceNeverHelps
  <2> SUFFICES ASSUME IInv, NEW h \in Handlers, At(h, "done"), handler[h].req.conf = NoSignal
               PROVE  LET best == [handler[h].req EXCEPT !.conf = 100]
                          risk == riskOutcome("review", criticality[best.action], 100, Unblemished, 0)
                      IN  severity[handler[h].out] >=
                            severity[moreRestrictive(PolicyOutcome(best), risk)]
    BY DEF SilenceNeverHelps
  <2>1. PICK w \in Handler : w = handler[h] /\ WorkSound(w) /\ w.pc = "done" /\ w.req.conf = NoSignal
    BY DEF IInv, At, WorkTyped
  <2>2. PICK out : out = w.out /\ out = missingOutcome(w.req) /\ out \in Strict
    BY <2>1, MissingFacts DEF WorkSound, IInv, WorkTyped
  <2>3. PICK best : best = [w.req EXCEPT !.conf = 100]
    OBVIOUS
  <2>4. w.req \in Request /\ w.req.action \in Actions
    BY HandlerFields
  <2>5. best.actor = w.req.actor /\ best.action = w.req.action /\ best.conf = 100
    BY <2>3, <2>4 DEF Request
  <2>6. PICK risk \in Outcomes :
          risk = riskOutcome("review", criticality[best.action], 100, Unblemished, 0)
          /\ severity[risk] <= 3
    BY <2>4, <2>5, OutcomeFacts, BestRisk, PipelineAssumption
  <2>7. PICK p \in Outcomes : p = PolicyOutcome(best)
    BY OutcomeFacts DEF PolicyOutcome
  <2>8. PICK m \in Outcomes : /\ m = moreRestrictive(p, risk)
                              /\ severity[p] <= 3 => severity[m] <= 3
    BY <2>6, MoreRestrictiveFacts
  <2>9. severity[m] <= 4
    BY SeverityFacts DEF Outcomes
  <2>10. CASE out = "deny"
    <3>1. severity[out] >= severity[m]
      BY <2>9, <2>10, SeverityFacts DEF Outcomes
    <3> QED
      BY <2>1, <2>2, <2>3, <2>6, <2>7, <2>8, <3>1
  <2>11. CASE out = "review"
    <3>1. PICK dec : dec = EvaluateAgent(policy, w.req.actor, w.req.action, 100)
      OBVIOUS
    <3>2. dec.review \/ dec.allowed
      BY <2>2, <2>11, <3>1 DEF missingOutcome, policyVerdictAtFullConfidence
    <3>3. p = evaluatorOutcome(dec)
      BY <2>5, <2>7, <3>1 DEF PolicyOutcome
    <3>4. severity[p] <= 3
      BY <3>2, <3>3, SeverityFacts DEF evaluatorOutcome
    <3>5. severity[out] >= severity[m]
      BY <2>8, <2>11, <3>4, SeverityFacts
    <3> QED
      BY <2>1, <2>2, <2>3, <2>6, <2>7, <2>8, <3>5
  <2> QED
    BY <2>2, <2>10, <2>11 DEF Strict
<1> QED
  BY <1>1, PipelineInvariance, PTL

\* The count that is looked up is one.
LEMMA CountTyped ==
  ASSUME TrackerInv, NEW a \in Actors
  PROVE  countOf(a) \in Nat
<1>1. PICK p : p = Pruned(a) /\ p \in [Actors -> Seq(Nat)]
  BY PrunedShrinks
<1>2. Len(p[a]) \in Nat /\ Threshold \in Nat
  BY <1>1, TrackerAssumption
<1> QED
  BY <1>1, <1>2 DEF countOf

\* No destructive action is allowed by the engine alone, and of two actions the
\* more critical one is never treated more mildly, for any reputation and
\* denial count (riskModel.evaluate).
THEOREM RiskIsSound == Spec => []RiskSound
<1>1. IInv => NeverAutoAllowed
  <2> SUFFICES ASSUME IInv, NEW h \in Handlers, At(h, "done"), Enforced,
                      criticality[handler[h].req.action] >= HighCriticalityMin
               PROVE  ~ handler[h].allowed
    BY DEF NeverAutoAllowed
  <2>1. PICK w : w = handler[h] /\ WorkSound(w) /\ w.pc = "done"
                 /\ criticality[w.req.action] >= HighCriticalityMin
    BY DEF IInv, At
  <2>2. w.out \in Strict
    <3>1. CASE w.req.conf # NoSignal
      BY <2>1, <3>1 DEF WorkSound
    <3>2. CASE w.req.conf = NoSignal
      BY <2>1, <3>2, MissingFacts DEF WorkSound, IInv, WorkTyped
    <3> QED
      BY <3>1, <3>2
  <2> QED
    BY <2>1, <2>2 DEF WorkSound, Strict
<1>2. IInv => CriticalityMonotone
  <2> SUFFICES ASSUME IInv, NEW a \in Actors, NEW c \in Confidences,
                      NEW low \in Criticalities, NEW high \in Criticalities, low < high
               PROVE  severity[riskOutcome("review", low, c, Reputation(a), countOf(a))] <=
                        severity[riskOutcome("review", high, c, Reputation(a), countOf(a))]
    BY DEF CriticalityMonotone
  <2>1. PICK rep \in actorStatEntry : rep = Reputation(a)
    BY ReputationTyped DEF IInv
  <2>2. PICK count \in Nat : count = countOf(a)
    BY CountTyped DEF IInv
  <2>3. c \in 0..100
    BY PipelineAssumption
  <2> QED
    BY <2>1, <2>2, <2>3, RiskMonotone
<1>3. IInv => RiskSound
  BY <1>1, <1>2 DEF RiskSound
<1> QED
  BY <1>3, PipelineInvariance, PTL

\* A live denial is never displaced by what other agents do
\* (anomalyTracker.record, pruneExpiredLocked).
THEOREM LiveDenialsAreKept == Spec => LiveDenialsKept
<1> DEFINE Kept == \A a \in Actors :
                     buckets[a] # <<>> /\ Last(buckets[a]) + Window > now' =>
                       buckets'[a] # <<>> /\ Last(buckets'[a]) >= Last(buckets[a])
<1>1. ASSUME IInv, [Next]_vars PROVE [Kept]_<<now, buckets>>
  <2>0. ASSUME now' = now, TrackerStep PROVE Kept
    BY <2>0 DEF TrackerStep, Survives
  <2>1. ASSUME NEW h \in Handlers, Count(h) PROVE Kept
    <3>1. PICK w \in Handler : w = handler[h]
      BY <1>1 DEF IInv, WorkTyped
    <3>2. w.req.actor \in Actors /\ currentCount(w.req.actor) /\ now' = now
      BY <2>1, <3>1, HandlerFields DEF Count
    <3> QED
      BY <1>1, <2>0, <3>2, CurrentCountStep DEF IInv
  <2>2. ASSUME NEW h \in Handlers, Answer(h) PROVE [Kept]_<<now, buckets>>
    <3>1. PICK w \in Handler : w = handler[h]
      BY <1>1 DEF IInv, WorkTyped
    <3>2. now' = now /\ (w.out # "deny" => buckets' = buckets)
      BY <2>2, <3>1 DEF Answer
    <3>3. CASE w.out = "deny"
      <4>1. w.req.actor \in Actors /\ anomalyRecord(w.req.actor)
        BY <2>2, <3>1, <3>3, HandlerFields DEF Answer
      <4> QED
        BY <1>1, <2>0, <3>2, <4>1, AnomalyRecordStep DEF IInv
    <3> QED
      BY <3>2, <3>3
  <2>3. CASE Tick
    <3>1. buckets' = buckets /\ buckets \in [Actors -> Seq(Nat)]
      BY <1>1, <2>3 DEF Tick, IInv, TrackerInv, BucketsOK
    <3>2. \A a \in Actors : buckets[a] # <<>> => Last(buckets[a]) \in Nat
      <4> SUFFICES ASSUME NEW a \in Actors, buckets[a] # <<>> PROVE Last(buckets[a]) \in Nat
        OBVIOUS
      <4>1. PICK s \in Seq(Nat) : s = buckets[a]
        BY <3>1
      <4> QED
        BY <4>1, LastInNat
    <3> QED
      BY <3>1, <3>2
  <2>4. ASSUME NEW h \in Handlers, Record(h) \/ Missing(h) PROVE UNCHANGED <<now, buckets>>
    BY <2>4 DEF Record, Missing
  <2>5. ASSUME NEW h \in Handlers, NEW r \in Request, NEW verified \in BOOLEAN,
               Receive(h, r, verified)
        PROVE  UNCHANGED <<now, buckets>>
    BY <2>5 DEF Receive
  <2>6. CASE UNCHANGED vars
    BY <2>6 DEF vars
  <2> HIDE DEF Kept
  <2> QED
    BY <1>1, <2>1, <2>2, <2>3, <2>4, <2>5, <2>6 DEF Next
<1>2. IInv /\ [Next]_vars => [Kept]_<<now, buckets>>
  BY <1>1
<1> QED
  BY <1>2, PipelineInvariance, PTL DEF Spec, LiveDenialsKept
==========================================================================
