-------------------------- MODULE PolicyEvaluator --------------------------
(***************************************************************************)
(* The policy evaluation of engine/internal/evaluator/evaluator.go for     *)
(* agents (EvaluateAgent), on the YAML policy.                             *)
(*                                                                         *)
(* A pattern is the set of names it matches (matchAction), and percentages *)
(* stand for the fractions of the code.  The constraints of a scope are    *)
(* three sets of thresholds: each of the three passes over the list asks   *)
(* whether some threshold of its kind lies above the confidence.           *)
(***************************************************************************)
EXTENDS Naturals, Sequences, FiniteSetsExt

CONSTANTS NoScope,   \* the agent is not in agent_scopes
          NoRole     \* inherits is empty

\* What a matching top-level rule can decide; a rule with any other word is
\* passed over.
RuleDecisions == {"allow", "deny", "human_review", "compute"}

Decision(allowed, review, downgraded, compute) ==
  [allowed |-> allowed, review |-> review, readOnly |-> downgraded, compute |-> compute]

Allow == Decision(TRUE, FALSE, FALSE, FALSE)
Deny == Decision(FALSE, FALSE, FALSE, FALSE)
HumanReview == Decision(FALSE, TRUE, FALSE, FALSE)
Compute == Decision(TRUE, FALSE, FALSE, TRUE)
DowngradeToReadOnly == Decision(FALSE, FALSE, TRUE, FALSE)
\* A confidence constraint asks for a human; the role permits the action.
AllowWithReview == Decision(TRUE, TRUE, FALSE, FALSE)

matchAction(pattern, name) == name \in pattern

Matching(p, actor, action) ==
  {k \in DOMAIN p.rules :
     /\ matchAction(p.rules[k].match, action)
     /\ matchAction(p.rules[k].actor, actor)
     /\ p.rules[k].decision \in RuleDecisions}

RuleDecision ==
  [allow |-> Allow, deny |-> Deny, human_review |-> HumanReview, compute |-> Compute]

Below(thresholds, confidence) == \E t \in thresholds : confidence < t

\* The inherited role must exist and allow the action.
Permitted(p, scope, action) ==
  \/ scope.inherits = NoRole
  \/ /\ scope.inherits \in DOMAIN p.roles
     /\ matchAction(p.roles[scope.inherits], action)

ScopeDecision(p, scope, action, confidence) ==
  IF matchAction(scope.deny, action) THEN Deny
  ELSE IF matchAction(scope.compute, action) THEN Compute
  ELSE IF Below(scope.hardDeny, confidence) THEN Deny
  ELSE IF Below(scope.downgrade, confidence) THEN DowngradeToReadOnly
  ELSE IF ~ Permitted(p, scope, action) THEN Deny
  ELSE IF Below(scope.human, confidence) THEN AllowWithReview
  ELSE Allow

\* The first matching rule decides; then the agent's scope.
EvaluateAgent(p, actor, action, confidence) ==
  LET hits == Matching(p, actor, action)
      scope == p.scopes[actor]
  IN  IF hits # {} THEN RuleDecision[p.rules[Min(hits)].decision]
      ELSE IF scope = NoScope THEN Deny
      ELSE ScopeDecision(p, scope, action, confidence)
==========================================================================
