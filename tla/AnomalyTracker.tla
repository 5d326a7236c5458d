-------------------------- MODULE AnomalyTracker --------------------------
(***************************************************************************)
(* The denial counter of engine/internal/server/server.go                  *)
(* (anomalyTracker): for each agent the times of its denials within a      *)
(* sliding window, at most Threshold of them, for at most AnomalyCapacity  *)
(* agents.  A bucket exists in the map exactly when it holds a time.       *)
(***************************************************************************)
EXTENDS Naturals, Sequences, FiniteSets, SequencesExt

CONSTANTS Actors, Threshold, Window, AnomalyCapacity

VARIABLES now,      \* the clock
          buckets   \* the denial times of each agent, oldest first

Tracked(b) == {a \in Actors : b[a] # <<>>}
Full(b) == Cardinality(Tracked(b)) >= AnomalyCapacity

pruneAnomalyTimes(times) ==
  LET filtered[k \in 0..Len(times)] ==
        IF k = 0 THEN <<>>
        ELSE IF times[k] + Window > now THEN Append(filtered[k - 1], times[k])
        ELSE filtered[k - 1]
  IN  filtered[Len(times)]

\* Every agent's times within the window; a bucket left empty is deleted.
pruneExpired == [a \in Actors |-> pruneAnomalyTimes(buckets[a])]

\* Mutant of LastOf: every denial in the window is kept.
LastOf_All(s, n) == s

LastOf(s, n) == IF Len(s) > n THEN SubSeq(s, Len(s) - n + 1, Len(s)) ELSE s

---------------------------------------------------------------------------
\* The map after a lookup of a, which prunes a's own bucket, or all of them
\* when a has none and the map is full.
Pruned(a) ==
  IF buckets[a] # <<>> THEN [buckets EXCEPT ![a] = pruneAnomalyTimes(@)]
  ELSE IF Full(buckets) THEN pruneExpired
  ELSE buckets

\* The count currentCount returns: an agent missing from a map full of live
\* histories counts as one that has reached the threshold.
countOf(a) ==
  IF buckets[a] = <<>> /\ Full(Pruned(a)) THEN Threshold ELSE Len(Pruned(a)[a])

currentCount(a) == buckets' = Pruned(a)

\* Mutant of anomalyRecord: a newcomer displaces somebody's live history.
anomalyRecord_Displace(a) ==
  IF buckets[a] = <<>> /\ Full(Pruned(a))
    THEN \E b \in Tracked(Pruned(a)) :
           buckets' = [Pruned(a) EXCEPT ![b] = <<>>, ![a] = <<now>>]
    ELSE buckets' = [Pruned(a) EXCEPT ![a] = LastOf(Append(@, now), Threshold)]

\* A denial of a.  A newcomer to a full map is not admitted: nobody else's
\* live history is evicted for it.
anomalyRecord(a) ==
  buckets' = IF buckets[a] = <<>> /\ Full(Pruned(a)) THEN Pruned(a)
             ELSE [Pruned(a) EXCEPT ![a] = LastOf(Append(@, now), Threshold)]

---------------------------------------------------------------------------
InOrder(times) == \A i, j \in DOMAIN times : i < j => times[i] <= times[j]

\* Within the capacity and the threshold, and in the order of time.
BucketsOK ==
  /\ buckets \in [Actors -> Seq(Nat)]
  /\ Cardinality(Tracked(buckets)) <= AnomalyCapacity
  /\ \A a \in Actors :
       /\ Len(buckets[a]) <= Threshold /\ InOrder(buckets[a])
       /\ \A i \in DOMAIN buckets[a] : buckets[a][i] <= now

\* "Do not evict another actor's still-live denial history merely to admit
\* attacker-controlled churn" (record): an agent's latest denial is on record,
\* or a later one is, for as long as the window lasts, whatever other agents do.
LiveDenialsKept ==
  [][\A a \in Actors :
       buckets[a] # <<>> /\ Last(buckets[a]) + Window > now' =>
         buckets'[a] # <<>> /\ Last(buckets'[a]) >= Last(buckets[a])]_<<now, buckets>>
==========================================================================
