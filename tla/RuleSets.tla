------------------------------ MODULE RuleSets ------------------------------
(* The two built-in rule lists of the platform: the one of the public route *)
(* app/api/v1/authorize/route.ts (for sandbox keys) and the fallback of     *)
(* app/api/sandbox/authorize/route.ts (when the engine cannot be reached).  *)
(*                                                                          *)
(* A rule is a regular expression of words; it stands for the class of the  *)
(* words it looks for.  A tool name is the set of classes of which it       *)
(* contains a word, so one name may fall under any number of rules.         *)
EXTENDS Naturals, Sequences

Rule(class, decision) == [class |-> class, decision |-> decision]

Decisions == {"deny", "human_review", "compute", "allow"}

\* RULES of the public route.
RULES == <<
  Rule("destroy", "deny"), Rule("execute", "deny"), Rule("escalate", "deny"),
  Rule("finance", "human_review"), Rule("outbound", "human_review"), Rule("config", "human_review"),
  Rule("file", "compute"), Rule("deploy", "compute"),
  Rule("read", "allow"), Rule("write", "allow") >>

\* RULES of the sandbox fallback: one more, ahead of the read rule.
SANDBOX_RULES_ExportLast == Append(RULES, Rule("export", "human_review"))
SANDBOX_RULES ==
  SubSeq(RULES, 1, 8) \o <<Rule("export", "human_review")>> \o SubSeq(RULES, 9, 10)

Classes == {SANDBOX_RULES[k].class : k \in DOMAIN SANDBOX_RULES}

\* evaluateTool, localEvaluate: the first rule that matches, else DEFAULT_RULE.
Evaluate_Last(rules, tool) ==
  IF \E k \in DOMAIN rules : rules[k].class \in tool
  THEN rules[CHOOSE k \in DOMAIN rules :
               /\ rules[k].class \in tool
               /\ \A j \in DOMAIN rules : rules[j].class \in tool => j <= k].decision
  ELSE "allow"
Evaluate(rules, tool) ==
  IF \E k \in DOMAIN rules : rules[k].class \in tool
  THEN rules[CHOOSE k \in DOMAIN rules :
               /\ rules[k].class \in tool
               /\ \A j \in DOMAIN rules : rules[j].class \in tool => k <= j].decision
  ELSE "allow"

\* How far a decision holds a call back.
Strictness == [allow |-> 0, compute |-> 1, human_review |-> 2, deny |-> 3]

-----------------------------------------------------------------------------
\* A name is put together from words, one at a time.
VARIABLE tool
vars == <<tool>>
Init == tool = {}
AddWord(c) == c \notin tool /\ tool' = tool \cup {c}
Next == \E c \in Classes : AddWord(c)
Spec == Init /\ [][Next]_vars

\* The classes a list decides d for.
Of(rules, d) == {rules[k].class : k \in {j \in DOMAIN rules : rules[j].decision = d}}

\* The strictest rule that applies to a name decides in the public list,
\* whatever else the name says (evaluateTool): a name under any deny rule is
\* denied, one under a review rule is held back at least for a review.
StrictestWins ==
  \A d \in Decisions :
    tool \cap Of(RULES, d) # {} => Strictness[Evaluate(RULES, tool)] >= Strictness[d]

\* Not so in the list of the sandbox, whose export rule comes after the two
\* for files and deployments (localEvaluate): a bulk export that also writes a
\* file or deploys is redirected, not reviewed.  These names are the only
\* ones that get less than their strictest rule.
StrictestButExports ==
  \A d \in Decisions :
    tool \cap Of(SANDBOX_RULES, d) # {} =>
      \/ Strictness[Evaluate(SANDBOX_RULES, tool)] >= Strictness[d]
      \/ /\ d = "human_review" /\ "export" \in tool /\ tool \cap {"file", "deploy"} # {}
         /\ Evaluate(SANDBOX_RULES, tool) = "compute"

\* The two lists differ in one thing only: a bulk export that the public route
\* allows (evaluateTool) is sent to a review by the playground's fallback
\* (localEvaluate), also when its name reads.
FallbackDiffers ==
  Evaluate(SANDBOX_RULES, tool) =
    LET d == Evaluate(RULES, tool)
    IN  IF "export" \in tool /\ d = "allow" THEN "human_review" ELSE d
=============================================================================
