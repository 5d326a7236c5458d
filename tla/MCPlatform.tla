----------------------------- MODULE MCPlatform -----------------------------
(* The platform on small instances, one for each part of module Platform.   *)
EXTENDS Platform, TLC

CONSTANTS Account   \* an account at a provider

\* A free plan that two calls at once can overrun.
SmallPlans == [free |-> 1, paid |-> 2]

\* "delete|drop", "delete_*", "*_user" and "delete", each as a regular
\* expression (the third is none) and as a glob.
Pattern(regex, glob, decision) == [regex |-> regex, glob |-> glob, decision |-> decision]
Both == {"delete", "delete_user"}
Suffix == Pattern({}, {"delete_user"}, "deny")
SomeRules == {<<Pattern(Both, {}, "deny"), Pattern(Both, {"delete_user"}, "allow"), Suffix>>,
              <<Pattern(Both, {"delete"}, "human_review"), Pattern(Both, {"delete"}, "deny"), Suffix>>}

\* Thresholds at, above and below the confidences of the traces, also in an
\* unusual order.
Actions == {"delete_invoices", "approve_refunds", "view_invoices"}
PolicyDraft(scoped, explicit, hard, readOnly, human, deny) ==
  [scoped |-> scoped, explicit |-> explicit, hard |-> hard, readOnly |-> readOnly,
   human |-> human, deny |-> deny, allow |-> {"approve_refunds", "delete_invoices"}]
SomePolicies == {PolicyDraft(TRUE, TRUE, 50, 70, 90, {"delete_invoices"}),
                 PolicyDraft(TRUE, TRUE, 80, 60, 70, {}),
                 PolicyDraft(TRUE, FALSE, 0, 0, 0, {}),
                 PolicyDraft(FALSE, FALSE, 0, 0, 0, {})}
Agent(n, c) == [kind |-> "agent", action |-> n, conf |-> c]
Human(n) == [kind |-> "human", action |-> n, conf |-> 100]
SomeTraces == {{Human("delete_invoices")},
               {Human("approve_refunds"), Agent("approve_refunds", 90)},
               {Agent(n, c) : n \in Actions, c \in {50, 65, 75, 100}}}

\* Blank and padded texts, and two scenarios.
Typed(core, padded) == [core |-> core, padded |-> padded]
SomeTools == {Typed({}, FALSE), Typed({"export"}, TRUE)}
SomeContexts == {Typed({"suspect"}, FALSE)}
SomeScenarios == << [tool |-> Typed({"read"}, FALSE), context |-> Typed({}, FALSE)],
                    [tool |-> Typed({"export"}, FALSE), context |-> Typed({"suspect"}, FALSE)] >>

\* An agent with every combination of findings, and a key (keys have no
\* scopes) or an agent without findings.
Profiles(type, kept) ==
  [type : {type}, status : {"active"}, stale : BOOLEAN, wildcard : kept, admin : kept,
   sprawl : kept, answered : BOOLEAN]
Pairs == {<<a, b>> : a \in Profiles("registered_agent", BOOLEAN),
                     b \in Profiles("api_key", {FALSE})
                           \cup {i \in Profiles("registered_agent", {FALSE}) :
                                   ~ i.stale /\ i.answered}}

\* Rows, addresses, passwords and handlers are interchangeable (addresses are
\* the TableRows and Calls the Requests of other parts).
Symmetry == Permutations(Emails) \cup Permutations(Passwords) \cup Permutations(Requests)
===========================================================================
