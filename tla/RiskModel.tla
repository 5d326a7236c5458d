----------------------------- MODULE RiskModel -----------------------------
(***************************************************************************)
(* The graded outcomes of engine/internal/server/risk.go, the risk model   *)
(* with its default thresholds, and the confidence gate of                 *)
(* engine/internal/confidence/confidence.go.                               *)
(*                                                                         *)
(* Fractions are integers in hundredths and a reliability is a pair of     *)
(* counts, so a score is compared with a threshold by cross-multiplication *)
(* and exactly; the code's epsilon exists to the same end.                 *)
(***************************************************************************)
EXTENDS Naturals

Outcomes == {"allow", "readOnly", "review", "deny"}
severity == [allow |-> 1, readOnly |-> 2, review |-> 3, deny |-> 4]
moreRestrictive(a, b) == IF severity[a] >= severity[b] THEN a ELSE b

\* The four tiers of actionCriticality.
Criticalities == {25, 50, 60, 90}
HighCriticalityMin == 80
MidCriticalityMin == 50

Band(criticality) ==
  IF criticality >= HighCriticalityMin THEN [Allow |-> 8, ReadOnly |-> 22, Review |-> 40]
  ELSE IF criticality >= MidCriticalityMin THEN [Allow |-> 15, ReadOnly |-> 35, Review |-> 55]
  ELSE [Allow |-> 30, ReadOnly |-> 55, Review |-> 75]

\* 1 + min(count / 10, 0.5), in tenths.
anomalyFactor(count) == 10 + IF count < 5 THEN count ELSE 5

\* criticality * (1 - confidence) * (2 - reliability) * anomalyFactor is at
\* most the threshold.
ScoreAtMost(threshold, criticality, confidence, rep, count) ==
  criticality * (100 - confidence) * (rep.total + rep.denies) * anomalyFactor(count)
    <= threshold * 1000 * rep.total

\* Mutant of BandOutcome: review and read-only have changed places, as they had
\* before the thresholds were put in the order of severity.
BandOutcome_Swapped(criticality, confidence, rep, count) ==
  LET Within(threshold) == ScoreAtMost(threshold, criticality, confidence, rep, count)
      band == Band(criticality)
  IN  IF Within(band.Allow) THEN "allow"
      ELSE IF Within(band.ReadOnly) THEN "review"
      ELSE IF Within(band.Review) THEN "readOnly"
      ELSE "deny"

BandOutcome(criticality, confidence, rep, count) ==
  LET Within(threshold) == ScoreAtMost(threshold, criticality, confidence, rep, count)
      band == Band(criticality)
  IN  IF Within(band.Allow) THEN "allow"
      ELSE IF Within(band.ReadOnly) THEN "readOnly"
      ELSE IF Within(band.Review) THEN "review"
      ELSE "deny"

\* Mutant of riskOutcome: the bands alone decide.
riskOutcome_NoFloor(floor, criticality, confidence, rep, count) ==
  BandOutcome(criticality, confidence, rep, count)

\* riskModel.evaluate: nothing at or above the high tier gets less than floor.
riskOutcome(floor, criticality, confidence, rep, count) ==
  LET outcome == BandOutcome(criticality, confidence, rep, count)
  IN  IF criticality >= HighCriticalityMin THEN moreRestrictive(outcome, floor) ELSE outcome

\* Gate.Evaluate with the default thresholds, through confidenceOutcome.
gateOutcome(score) ==
  IF score >= 90 THEN "allow"
  ELSE IF score >= 70 THEN "review"
  ELSE IF score >= 50 THEN "readOnly"
  ELSE "deny"

evaluatorOutcome(dec) ==
  IF dec.readOnly THEN "readOnly"
  ELSE IF dec.review THEN "review"
  ELSE IF dec.allowed THEN "allow"
  ELSE "deny"
==========================================================================
