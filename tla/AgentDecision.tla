--------------------------- MODULE AgentDecision ---------------------------
(***************************************************************************)
(* The decision pipeline behind POST /v1/agent/authorize                   *)
(* (engine/internal/server/server.go, handleAgentAuthorize and             *)
(* evaluateAgentDecision): the policy, the confidence gate and the risk    *)
(* model each give an outcome, the most restrictive one counts, and the    *)
(* decision feeds the agent's reputation, the review queue and the anomaly *)
(* tracker, which the risk model of later requests reads.                  *)
(*                                                                         *)
(* A handler runs one request at a time.  It takes the locks of the        *)
(* reputation cache, of the tracker and of the queue one after the other,  *)
(* so other handlers' steps come in between.  A request without a usable   *)
(* confidence signal takes the path of decisionForMissingSignal.           *)
(*                                                                         *)
(* The calibrator and the SQLite reputation manager are external here: the *)
(* first is any function of Calibrations, the second may replace an        *)
(* agent's reputation by any of Histories.  The rate limiter, the shadow   *)
(* agent detector and the injection filter come before this pipeline: they *)
(* can refuse or hold a request and touch none of this state.              *)
(***************************************************************************)
EXTENDS ActorStats, PolicyEvaluator, RiskModel

CONSTANTS Handlers,      \* concurrent requests
          criticality,   \* actionCriticality: action |-> hundredths
          Confidences,   \* the scores requests carry, in hundredths
          NoSignal,      \* a request without a usable signal
          Configs,       \* name |-> policy, enforcement mode, missing-signal mode
          Calibrations,  \* what the calibrator may have learned
          Histories,     \* what the reputation manager may report
          Threshold, Window, AnomalyCapacity,  \* of the anomaly tracker
          MaxRequests,   \* bound: requests received
          Horizon        \* bound: the clock stops here

ASSUME TrackerAssumption ==
  /\ Threshold \in Nat \ {0}
  /\ Window \in Nat \ {0}
  /\ AnomalyCapacity \in Nat \ {0}

Actions == DOMAIN criticality

\* Every action has one of the four tiers, the rules of a policy are a list, and
\* the reputation manager reports counts.
ASSUME PipelineAssumption ==
  /\ Actors # {} /\ Actions # {}
  /\ \A x \in Actions : criticality[x] \in Criticalities
  /\ Confidences \subseteq 0..100 /\ NoSignal \notin Confidences
  /\ \A c \in DOMAIN Configs :
       LET rules == Configs[c].policy.rules IN Len(rules) \in Nat /\ DOMAIN rules = 1..Len(rules)
  /\ Histories \subseteq actorStatEntry
  /\ MaxRequests \in Nat /\ Horizon \in Nat \ {0}

VARIABLES
  config,        \* which configuration the engine runs, fixed
  handler,       \* what each handler is doing
  received,      \* how many requests were received
  now, buckets   \* the anomaly tracker's

INSTANCE AnomalyTracker

vars == <<config, handler, received, now, buckets, statsVars>>

policy == Configs[config].policy
Enforced == Configs[config].mode # "shadow"

---------------------------------------------------------------------------
Request == [actor : Actors, action : Actions, conf : Confidences \cup {NoSignal}]
Handler ==
  [pc : {"idle", "missing", "count", "record", "answer", "done"},
   req : Request, verified : BOOLEAN,
   rep : actorStatEntry,   \* the reputation that was looked up
   out : Outcomes,         \* the decision
   filed : BOOLEAN,        \* it was put before a reviewer
   allowed : BOOLEAN, review : BOOLEAN]   \* the answer

\* The policy's outcome for a request.
PolicyOutcome(r) == evaluatorOutcome(EvaluateAgent(policy, r.actor, r.action, r.conf))

At(h, pc) == handler[h].pc = pc
Work(pc, r, verified, rep, out, filed) ==
  [pc |-> pc, req |-> r, verified |-> verified, rep |-> rep, out |-> out,
   filed |-> filed, allowed |-> FALSE, review |-> FALSE]
NoWork == Work("idle", CHOOSE r \in Request : TRUE, FALSE, Unblemished, "deny", FALSE)
Do(h, work) == handler' = [handler EXCEPT ![h] = work]

\* The answer, after applyShadowMode: observation only, everything is allowed.
Respond(h, out, filed) ==
  Do(h, [Work("done", handler[h].req, FALSE, Unblemished, out, filed)
           EXCEPT !.allowed = ~ Enforced \/ out \in {"allow", "readOnly"},
                  !.review = Enforced /\ out = "review"])

\* Whether a decision gets a review item.  A failed enqueue is logged and the
\* decision stands, without a review ID.
Filed(out) == IF out = "review" /\ Enforced THEN BOOLEAN ELSE {FALSE}

Init ==
  /\ config \in DOMAIN Configs
  /\ handler = [h \in Handlers |-> NoWork]
  /\ received = 0
  /\ now = 1
  /\ buckets = [a \in Actors |-> <<>>]
  /\ StatsInit

---------------------------------------------------------------------------
(* A request arrives.  With a signal, the reliability of the agent is      *)
(* looked up: per agent only when a workload token proved who it is.       *)

Receive(h, r, verified) ==
  /\ At(h, "idle") \/ At(h, "done")
  /\ received < MaxRequests
  /\ received' = received + 1
  /\ IF r.conf = NoSignal
       THEN Do(h, Work("missing", r, FALSE, Unblemished, "deny", FALSE)) /\ UNCHANGED statsVars
       ELSE /\ \E rep \in IF verified THEN {Reputation(r.actor)} \cup Histories
                           ELSE {Unblemished} :
                 Do(h, Work("count", r, verified, rep, "deny", FALSE))
            /\ IF verified THEN reliability(r.actor) ELSE UNCHANGED statsVars
  /\ UNCHANGED <<config, now, buckets>>

\* The most restrictive of the gate on the calibrated score, the policy and
\* the risk model on the raw one.
Merge(r, rep, calibrate, count) ==
  moreRestrictive(
    moreRestrictive(gateOutcome(calibrate[r.conf]), PolicyOutcome(r)),
    riskOutcome("review", criticality[r.action], r.conf, rep, count))

Count(h) ==
  /\ At(h, "count")
  /\ LET w == handler[h] IN
     /\ currentCount(w.req.actor)
     /\ \E calibrate \in Calibrations :
          Do(h, Work("record", w.req, w.verified, Unblemished,
                     Merge(w.req, w.rep, calibrate, countOf(w.req.actor)), FALSE))
  /\ UNCHANGED <<config, received, now, statsVars>>

\* The reputation of a proven agent learns the outcome, then the review item
\* is enqueued.
Record(h) ==
  /\ At(h, "record")
  /\ LET w == handler[h] IN
     /\ IF w.verified THEN record(w.req.actor, w.out = "deny") ELSE UNCHANGED statsVars
     /\ \E filed \in Filed(w.out) :
          Do(h, Work("answer", w.req, FALSE, Unblemished, w.out, filed))
  /\ UNCHANGED <<config, received, now, buckets>>

Answer(h) ==
  /\ At(h, "answer")
  /\ Respond(h, handler[h].out, handler[h].filed)
  /\ IF handler[h].out = "deny" THEN anomalyRecord(handler[h].req.actor) ELSE UNCHANGED buckets
  /\ UNCHANGED <<config, received, now, statsVars>>

---------------------------------------------------------------------------
(* decisionForMissingSignal: a denial that stands even at full confidence  *)
(* stays a denial; otherwise the configured mode decides.  Neither the     *)
(* reputation nor the tracker learns of it.  Mode read_only names a scope  *)
(* but does not allow the request.                                         *)

policyVerdictAtFullConfidence(r) ==
  LET dec == EvaluateAgent(policy, r.actor, r.action, 100)
  IN  IF dec.review THEN "review" ELSE IF dec.allowed THEN "allow" ELSE "deny"

\* Mutant of missingOutcome: the policy is not consulted.
missingOutcome_ModeOnly(r) == IF Configs[config].missing = "review" THEN "review" ELSE "deny"

\* Mutant of missingOutcome: the policy's verdict is the answer.
missingOutcome_PolicyOnly(r) == policyVerdictAtFullConfidence(r)

missingOutcome(r) ==
  IF policyVerdictAtFullConfidence(r) # "deny" /\ Configs[config].missing = "review"
    THEN "review" ELSE "deny"

Missing(h) ==
  /\ At(h, "missing")
  /\ LET out == missingOutcome(handler[h].req)
     IN  \E filed \in Filed(out) : Respond(h, out, filed)
  /\ UNCHANGED <<config, received, now, buckets, statsVars>>

---------------------------------------------------------------------------
Tick ==
  /\ now < Horizon
  /\ now' = now + 1
  /\ UNCHANGED <<config, handler, received, buckets, statsVars>>

Next ==
  \/ Tick
  \/ \E h \in Handlers :
       \/ Count(h) \/ Record(h) \/ Answer(h) \/ Missing(h)
       \/ \E r \in Request, verified \in BOOLEAN : Receive(h, r, verified)

Spec == Init /\ [][Next]_vars

---------------------------------------------------------------------------
(* Properties                                                              *)

TypeOK ==
  /\ config \in DOMAIN Configs
  /\ handler \in [Handlers -> Handler]
  /\ received \in 0..MaxRequests
  /\ now \in 1..Horizon
  /\ StatsTypeOK
  /\ BucketsOK

\* The policy forbids the request outright: of the rules that speak of it the
\* first is a deny, or none does and the agent is unknown or its scope denies
\* the action.
Forbidden(r) ==
  LET about == {k \in DOMAIN policy.rules :
                  /\ r.action \in policy.rules[k].match
                  /\ r.actor \in policy.rules[k].actor
                  /\ policy.rules[k].decision \in RuleDecisions}
      scope == policy.scopes[r.actor]
  IN  \/ \E k \in about : policy.rules[k].decision = "deny" /\ \A j \in about : k <= j
      \/ about = {} /\ (scope = NoScope \/ r.action \in scope.deny)

\* What the policy forbids is neither allowed nor put before a reviewer,
\* whatever the confidence, its calibration, the reputation and the
\* configured fallback: "Routing it to review instead turned every hard deny
\* into an approvable item just by leaving out an optional field"
\* (decisionForMissingSignal).
DenyIsFinal ==
  \A h \in Handlers :
    At(h, "done") /\ Forbidden(handler[h].req) =>
      ~ handler[h].filed /\ ~ handler[h].review /\ (Enforced => ~ handler[h].allowed)

\* "criticality at or above the high-criticality threshold is never resolved
\* below RISK_HIGH_CRITICALITY_FLOOR, regardless of confidence"
\* (riskModel.evaluate): a destructive action is never allowed by the engine
\* alone, not by an allow or compute rule, a perfect score, or the path of a
\* missing signal.
NeverAutoAllowed ==
  \A h \in Handlers :
    At(h, "done") /\ Enforced /\ criticality[handler[h].req.action] >= HighCriticalityMin =>
      ~ handler[h].allowed

\* Leaving out the signal never buys a better answer than the highest score
\* would, before calibration, at the best reputation.
SilenceNeverHelps ==
  \A h \in Handlers :
    At(h, "done") /\ handler[h].req.conf = NoSignal =>
      LET best == [handler[h].req EXCEPT !.conf = 100]
          risk == riskOutcome("review", criticality[best.action], 100, Unblemished, 0)
      IN  severity[handler[h].out] >= severity[moreRestrictive(PolicyOutcome(best), risk)]

\* Of two actions the more critical one never gets the milder risk outcome,
\* for any reputation and denial count the system reaches
\* (TestRiskModel_CriticalityMonotone).
CriticalityMonotone ==
  \A k \in {[rep |-> Reputation(a), count |-> countOf(a)] : a \in Actors}, c \in Confidences :
    LET graded == [x \in Criticalities |->
                     severity[riskOutcome("review", x, c, k.rep, k.count)]]
    IN  \A low, high \in Criticalities : low < high => graded[low] <= graded[high]

\* What the risk model promises (riskModel.evaluate): the two above.
RiskSound == NeverAutoAllowed /\ CriticalityMonotone

\* "Confidence can only ever loosen a decision the policy would otherwise
\* make" (decisionForMissingSignal): what the policy denies at full confidence
\* is not allowed at a lower one.
PolicyDenyStands ==
  \A h \in Handlers :
    At(h, "done") /\ Enforced /\ policyVerdictAtFullConfidence(handler[h].req) = "deny" =>
      ~ handler[h].allowed
==========================================================================
