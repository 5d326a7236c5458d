---------------------------- MODULE ActorStats ----------------------------
(***************************************************************************)
(* The per-agent reputation cache of engine/internal/server/risk.go        *)
(* (actorStats): how often each verified agent was decided on and denied,  *)
(* for the most recently used Capacity agents.  An agent that is evicted   *)
(* with a clean record is remembered in a second, smaller cache of trusted *)
(* agents; any other agent that is missing from a full cache gets a        *)
(* conservative reputation, because its bad history may have been evicted. *)
(*                                                                         *)
(* The map and the list of the Go type hold the same keys, so the list     *)
(* alone says who is cached: `lru' and `trustedLRU' have the most recently *)
(* used agent first.  Every operation holds the mutex to its end and is    *)
(* one action.                                                             *)
(***************************************************************************)
EXTENDS Naturals, Sequences, SequencesExt

CONSTANTS Actors,           \* agent identities (the code keeps their SHA-256)
          Capacity,         \* how many agents are cached
          TrustedCapacity,  \* how many evicted agents are remembered as clean
          MaxScan           \* how far an eviction looks for a clean record

ASSUME StatsAssumption ==
  /\ Capacity \in Nat \ {0}
  /\ TrustedCapacity \in Nat \ {0}
  /\ MaxScan \in Nat \ {0}

VARIABLES
  stats,       \* total and denies of each cached agent
  lru,         \* the cached agents
  trustedLRU,  \* the evicted agents remembered as clean
  everDenied   \* who was ever recorded as denied (history, never read)

statsVars == <<stats, lru, trustedLRU, everDenied>>

---------------------------------------------------------------------------
Counts(t, d) == [total |-> t, denies |-> d]
actorStatEntry == [total : Nat, denies : Nat]
NoStats == Counts(0, 0)

\* A reputation r stands for the reliability 1 - r.denies / r.total.
Unblemished == Counts(1, 0)
conservativePrior == Counts(2, 1)

Cached(a) == a \in ToSet(lru)
Trusted(a) == a \in ToSet(trustedLRU)
UnderPressure == Len(lru) >= Capacity

\* The reputation reliability() reports.
Reputation(a) ==
  IF Cached(a) THEN stats[a]
  ELSE IF Trusted(a) \/ ~ UnderPressure THEN Unblemished
  ELSE conservativePrior

Tally(r, denied) == Counts(r.total + 1, r.denies + IF denied THEN 1 ELSE 0)

Note(a, denied) ==
  everDenied' = IF denied THEN everDenied \cup {a} ELSE everDenied

---------------------------------------------------------------------------
(* The lists                                                               *)

IndexOf(s, a) == CHOOSE k \in DOMAIN s : s[k] = a
Without(s, a) == IF a \in ToSet(s) THEN RemoveAt(s, IndexOf(s, a)) ELSE s
MoveToFront(s, a) == Cons(a, Without(s, a))

\* addTrustedLocked: the least recently used trusted agent makes room.
addTrusted(s, a) ==
  IF a \in ToSet(s) \/ Len(s) < TrustedCapacity
    THEN MoveToFront(s, a)
    ELSE Cons(a, Front(s))

\* Of the MaxScan least recently used agents, those never denied.
CleanOldest ==
  {k \in DOMAIN lru : k > Len(lru) - MaxScan /\ stats[lru[k]].denies = 0}

\* The position evictOldestLocked evicts: the oldest clean one it saw, or the
\* oldest of all.
IsVictim(k) ==
  IF CleanOldest = {} THEN k = Len(lru)
  ELSE k \in CleanOldest /\ \A j \in CleanOldest : j <= k

---------------------------------------------------------------------------
StatsInit ==
  /\ stats = [a \in Actors |-> NoStats]
  /\ lru = <<>>
  /\ trustedLRU = <<>>
  /\ everDenied = {}

\* Looking up a trusted agent refreshes it; nothing else changes.
reliability(a) ==
  /\ trustedLRU' = IF ~ Cached(a) /\ Trusted(a) THEN MoveToFront(trustedLRU, a)
                   ELSE trustedLRU
  /\ UNCHANGED <<stats, lru, everDenied>>

recordHit(a, denied) ==
  /\ Cached(a)
  /\ stats' = [stats EXCEPT ![a] = Tally(stats[a], denied)]
  /\ lru' = MoveToFront(lru, a)
  /\ Note(a, denied)
  /\ UNCHANGED trustedLRU

\* There is room: the agent is new, or was trusted.
recordNew(a, denied) ==
  /\ ~ Cached(a) /\ ~ UnderPressure
  /\ stats' = [stats EXCEPT ![a] = Tally(NoStats, denied)]
  /\ lru' = Cons(a, lru)
  /\ trustedLRU' = Without(trustedLRU, a)
  /\ Note(a, denied)

\* Mutant of recordEvict: an agent that enters a full cache starts at zero.
recordEvict_NoPrior(a, denied) ==
  /\ ~ Cached(a) /\ UnderPressure
  /\ \E k \in DOMAIN lru :
       /\ IsVictim(k)
       /\ stats' = [stats EXCEPT ![lru[k]] = NoStats, ![a] = Tally(NoStats, denied)]
       /\ lru' = Cons(a, RemoveAt(lru, k))
       /\ trustedLRU' = IF stats[lru[k]].denies = 0
                          THEN addTrusted(Without(trustedLRU, a), lru[k])
                          ELSE Without(trustedLRU, a)
  /\ Note(a, denied)

\* The cache is full: the newcomer starts from the conservative prior unless
\* it was trusted, and evictOldestLocked makes room.  Only a victim without
\* denials is remembered as clean.
recordEvict(a, denied) ==
  /\ ~ Cached(a) /\ UnderPressure
  /\ \E k \in DOMAIN lru :
       /\ IsVictim(k)
       /\ stats' = [stats EXCEPT ![lru[k]] = NoStats,
                      ![a] = Tally(IF Trusted(a) THEN NoStats ELSE conservativePrior, denied)]
       /\ lru' = Cons(a, RemoveAt(lru, k))
       /\ trustedLRU' = IF stats[lru[k]].denies = 0
                          THEN addTrusted(Without(trustedLRU, a), lru[k])
                          ELSE Without(trustedLRU, a)
  /\ Note(a, denied)

record(a, denied) ==
  recordHit(a, denied) \/ recordNew(a, denied) \/ recordEvict(a, denied)

StatsNext ==
  \E a \in Actors : reliability(a) \/ \E denied \in BOOLEAN : record(a, denied)

StatsSpec == StatsInit /\ [][StatsNext]_statsVars

---------------------------------------------------------------------------
(* Properties                                                              *)

NoRepeats(s) == \A i, j \in DOMAIN s : s[i] = s[j] => i = j

StatsTypeOK ==
  /\ stats \in [Actors -> actorStatEntry]
  /\ lru \in Seq(Actors)
  /\ trustedLRU \in Seq(Actors)
  /\ everDenied \subseteq Actors

\* An agent is in one cache at most and once, neither cache outgrows its
\* capacity, and the counts belong to the cached agents: the map, the list
\* and the trusted set never drift apart through hits, evictions and
\* re-entries.
CachesAgree ==
  /\ NoRepeats(lru) /\ NoRepeats(trustedLRU)
  /\ Len(lru) <= Capacity /\ Len(trustedLRU) <= TrustedCapacity
  /\ \A a \in Actors :
       IF Cached(a)
         THEN ~ Trusted(a) /\ stats[a].total > 0 /\ stats[a].denies <= stats[a].total
         ELSE stats[a] = NoStats

\* "Forgetting negative history must never make an actor more trusted"
\* (evictOldestLocked), as far as the code achieves it: an agent that was ever
\* denied never gets the reliability 1 of an unblemished one again, however
\* the churn of other agents evicts and re-admits it.
DenialSticks == \A a \in everDenied : Reputation(a).denies > 0
==========================================================================
