-------------------------- MODULE MCAgentDecision --------------------------
(* Instances of AgentDecision for TLC.                                     *)
EXTENDS AgentDecision, TLC

CONSTANTS read, refund, staff

Tiers == (read :> 25) @@ (refund :> 90)
Everything == {read, refund}
Identity == [c \in Confidences |-> c]
\* Nothing learned; and reviewers refused whatever came with a high score.
Learned == {Identity, [c \in Confidences |-> IF c >= 90 THEN 40 ELSE c]}

\* Reviewers denied most of what they were asked about this agent.
Disputed == {Counts(10, 8)}

Rule(match, decision) == [match |-> match, actor |-> Actors, decision |-> decision]
Scope(inherits, deny, compute, hardDeny, downgrade, human) ==
  [inherits |-> inherits, deny |-> deny, compute |-> compute,
   hardDeny |-> hardDeny, downgrade |-> downgrade, human |-> human]
Policy(rules, scope, roles) ==
  [rules |-> rules, scopes |-> [a \in Actors |-> scope], roles |-> roles]

\* An open scope; a scope that denies and redirects the same action; rules in
\* an order that matters, one with a misspelt decision; rules over an unknown
\* agent; a role with a narrow grant behind a confidence constraint.
Open == Policy(<<>>, Scope(staff, {}, {}, {20}, {60}, {95}), staff :> Everything)
Redirected == Policy(<<>>, Scope(NoRole, {refund}, Everything, {}, {}, {}), <<>>)
Ordered == Policy(<<Rule({refund}, "block"), Rule({refund}, "deny"),
                    Rule(Everything, "allow"), Rule({read}, "deny")>>, NoScope, <<>>)
Unknown == Policy(<<Rule({read}, "human_review")>>, NoScope, <<>>)
Narrow == Policy(<<>>, Scope(staff, {}, {}, {}, {80}, {}), staff :> {refund})

Config(policyOf, modeOf, missingOf) ==
  [policy |-> policyOf, mode |-> modeOf, missing |-> missingOf]
AllConfigs ==
  [open |-> Config(Open, "enforce", "review"),
   redirected |-> Config(Redirected, "enforce", "review"),
   ordered |-> Config(Ordered, "enforce", "review"),
   unknown |-> Config(Unknown, "enforce", "deny"),
   narrow |-> Config(Narrow, "enforce", "review"),
   observed |-> Config(Redirected, "shadow", "review")]
NarrowOnly == [narrow |-> Config(Narrow, "enforce", "review")]
Symmetry == Permutations(Actors) \cup Permutations(Handlers)
==========================================================================
