---------------------------- MODULE PolicySafety ----------------------------
(* The policy safety flow: the four-step page app/policies/safety/page.tsx  *)
(* and the simulator it calls, app/api/simulator/route.ts.                  *)
(*                                                                          *)
(* A draft is what parsePolicyYaml and the engine can tell apart: whether   *)
(* there is an agent_scopes section, the action its deny list names, whether *)
(* it spells out the three thresholds, and the actions of the inherited     *)
(* role, which the simulator never reads.  Percentages stand for fractions. *)
EXTENDS Naturals, FiniteSets

CONSTANTS
  Drafts,     \* policies a user may type
  TraceSets,  \* sets of traces a user may paste: who, the action, the confidence
  None

VARIABLES
  step,     \* currentStep
  draft,    \* policyYaml
  traces,   \* tracesJson: the traces, or None when it is no JSON
  sim,      \* the draft and traces of the request under way
  result,   \* what the last simulation answered, and for which draft
  error,    \* an error is on the page
  applied,  \* the draft handleApply was pressed on
  edited    \* history: the draft changed while a simulation was under way

vars == <<step, draft, traces, sim, result, error, applied, edited>>

Steps == <<"draft", "simulate", "review", "apply">>
Index(s) == CHOOSE k \in 1..4 : Steps[k] = s
NoSim == [draft |-> None, traces |-> {}]

PE == INSTANCE PolicyEvaluator WITH NoScope <- None, NoRole <- None

(* ---- The simulator --------------------------------------------------- *)

Outcomes == {"allow", "deny", "review"}

\* A draft without an agent_scopes section leaves denyActions undefined, and
\* the first agent trace makes the route throw.
Parses(p, ts) == p.scoped \/ \A tr \in ts : tr.kind = "human"

\* The thresholds parsePolicyYaml finds, or its defaults.
Threshold(p) ==
  IF p.explicit THEN [hard |-> p.hard, readOnly |-> p.readOnly, human |-> p.human]
  ELSE [hard |-> 50, readOnly |-> 70, human |-> 90]

\* evaluateTrace against "current": two hard-coded actions.
Before(tr) ==
  IF tr.kind = "human" THEN "allow"
  ELSE IF tr.action = "delete_invoices" THEN "deny"
  ELSE IF tr.action = "approve_refunds" THEN "review" ELSE "allow"

\* evaluateTrace against the proposed policy.
After_HumanFirst(p, tr) ==
  LET t == Threshold(p) IN
  IF tr.kind = "human" THEN "allow"
  ELSE IF tr.action \in p.deny THEN "deny"
  ELSE IF tr.conf < t.human THEN "review"
  ELSE IF tr.conf < t.readOnly THEN "deny" ELSE "allow"
After(p, tr) ==
  LET t == Threshold(p) IN
  IF tr.kind = "human" THEN "allow"
  ELSE IF tr.action \in p.deny THEN "deny"
  ELSE IF tr.conf < t.hard \/ tr.conf < t.readOnly THEN "deny"
  ELSE IF tr.conf < t.human THEN "review" ELSE "allow"

\* simulatePolicyChange: the changed traces, by transition.
Changed(p, ts) == {tr \in ts : Before(tr) # After(p, tr)}
Moved_AllowOnly(p, ts, from, to) ==
  Cardinality({tr \in Changed(p, ts) : from = "allow" /\ Before(tr) = from /\ After(p, tr) = to})
Moved(p, ts, from, to) == Cardinality({tr \in Changed(p, ts) : Before(tr) = from /\ After(p, tr) = to})
Transitions == {<<"allow", "deny">>, <<"allow", "review">>, <<"deny", "allow">>,
                <<"review", "allow">>, <<"review", "deny">>, <<"deny", "review">>}
simulatePolicyChange(p, ts) ==
  [draft |-> p, total |-> Cardinality(ts), changed |-> Cardinality(Changed(p, ts)),
   unchanged |-> Cardinality(ts \ Changed(p, ts)),
   moved |-> [m \in Transitions |-> Moved(p, ts, m[1], m[2])]]

(* ---- The page -------------------------------------------------------- *)

Init ==
  /\ step = "draft" /\ draft \in Drafts /\ traces \in TraceSets
  /\ sim = NoSim /\ result = None /\ error = FALSE /\ applied = None /\ edited = FALSE

\* The texts can be edited on the first step only.
EditPolicy_AnyStep(p) ==
  /\ p # draft
  /\ draft' = p
  /\ edited' = (edited \/ sim # NoSim)
  /\ UNCHANGED <<step, traces, sim, result, error, applied>>
EditPolicy(p) ==
  /\ step = "draft" /\ p # draft
  /\ draft' = p
  /\ edited' = (edited \/ sim # NoSim)
  /\ UNCHANGED <<step, traces, sim, result, error, applied>>

EditTraces(ts) ==
  /\ step = "draft" /\ ts # traces
  /\ traces' = ts
  /\ UNCHANGED <<step, draft, sim, result, error, applied, edited>>

\* "Next: Run Simulation", "Back" and "Edit Policy".
GoTo(from, to) ==
  /\ step = from
  /\ step' = to
  /\ UNCHANGED <<draft, traces, sim, result, error, applied, edited>>

\* The stepper goes back to any step before this one.
Stepper(s) ==
  /\ Index(s) < Index(step)
  /\ GoTo(step, s)

\* runSimulation: the button is disabled while one is under way; traces that
\* do not parse are refused before anything is sent.
RunSimulation ==
  /\ step = "simulate" /\ sim = NoSim
  /\ IF traces = None
     THEN error' = TRUE /\ UNCHANGED <<sim, edited>>
     ELSE /\ error' = FALSE
          /\ sim' = [draft |-> draft, traces |-> traces]
          /\ edited' = FALSE
  /\ UNCHANGED <<step, draft, traces, result, applied>>

\* The answer brings the page to the third step from wherever it is.
Simulated ==
  /\ sim # NoSim /\ Parses(sim.draft, sim.traces)
  /\ result' = simulatePolicyChange(sim.draft, sim.traces)
  /\ step' = "review"
  /\ sim' = NoSim
  /\ UNCHANGED <<draft, traces, error, applied, edited>>

\* A 500, or no answer.
SimulationFails ==
  /\ sim # NoSim
  /\ error' = TRUE /\ sim' = NoSim
  /\ UNCHANGED <<step, draft, traces, result, applied, edited>>

\* handleApply: the page says the policy has been deployed; nothing is sent.
HandleApply ==
  /\ step = "review" /\ result # None
  /\ applied' = draft /\ step' = "apply"
  /\ UNCHANGED <<draft, traces, sim, result, error, edited>>

\* Start New Change.
StartNew ==
  /\ step = "apply"
  /\ step' = "draft" /\ result' = None /\ applied' = None /\ error' = FALSE
  /\ UNCHANGED <<draft, traces, sim, edited>>

Next ==
  \/ \E p \in Drafts : EditPolicy(p)
  \/ \E ts \in TraceSets \cup {None} : EditTraces(ts)
  \/ GoTo("draft", "simulate") \/ GoTo("simulate", "draft") \/ GoTo("review", "draft")
  \/ \E k \in 1..4 : Stepper(Steps[k])
  \/ RunSimulation \/ Simulated \/ SimulationFails
  \/ HandleApply \/ StartNew

Spec == Init /\ [][Next]_vars

(* ---- Properties ------------------------------------------------------ *)

\* Every variable has its type, and the third and fourth steps always have
\* something to show: a result to review, a policy that was applied.
TypeOK ==
  /\ step \in {Steps[k] : k \in 1..4}
  /\ draft \in Drafts /\ applied \in Drafts \cup {None}
  /\ traces \in TraceSets \cup {None}
  /\ sim = NoSim \/ sim \in [draft : Drafts, traces : TraceSets]
  /\ result = None \/ result.draft \in Drafts
  /\ error \in BOOLEAN /\ edited \in BOOLEAN
  /\ step = "review" => result # None
  /\ step = "apply" => applied # None

\* What is applied on the fourth step is what the third step showed the
\* effects of, unless the draft was edited while its simulation was under way
\* (runSimulation, Stepper): no way back and forth through the steps lets an
\* edited draft through without a simulation.
AppliedAsReviewed ==
  step = "apply" /\ result # None /\ ~edited => applied = result.draft

\* The six counters of simulatePolicyChange account for every changed trace,
\* so that "No Impact" and "Breaking Change" are said of the right results.
BlastCounts ==
  result # None =>
    /\ result.total = result.changed + result.unchanged
    /\ result.changed = LET m == result.moved IN
         m[<<"allow", "deny">>] + m[<<"allow", "review">>] + m[<<"deny", "allow">>]
           + m[<<"review", "allow">>] + m[<<"review", "deny">>] + m[<<"deny", "review">>]

\* The scope a draft gives to its agent, as the engine's evaluator reads it.
EngineScope(p) ==
  [inherits |-> "role", deny |-> p.deny, compute |-> {},
   hardDeny |-> IF p.explicit THEN {p.hard} ELSE {},
   downgrade |-> IF p.explicit THEN {p.readOnly} ELSE {},
   human |-> IF p.explicit THEN {p.human} ELSE {}]

\* What the engine's evaluator makes of an agent's trace under the draft.
EngineOutcome(p, tr) ==
  LET d == PE!EvaluateAgent([rules |-> <<>>, scopes |-> [a \in {"agent"} |-> EngineScope(p)],
                             roles |-> [r \in {"role"} |-> p.allow]], "agent", tr.action, tr.conf)
  IN  IF d.review THEN "review" ELSE IF d.allowed THEN "allow" ELSE "deny"

\* The simulator predicts what the engine decides (evaluateTrace against
\* EvaluateAgent) for an agent whose scope spells out its thresholds and whose
\* role allows the action; a call reduced to read-only counts as denied.
SimulationAgrees ==
  \A p \in {draft}, ts \in TraceSets : \A tr \in ts :
    tr.kind = "agent" /\ p.scoped /\ p.explicit /\ tr.action \in p.allow
      => After(p, tr) = EngineOutcome(p, tr)

=============================================================================
