----------------------------- MODULE Playground -----------------------------
(* The authorization playground, app/sandbox/page.tsx, and the route behind *)
(* it, app/api/sandbox/authorize/route.ts.                                  *)
(*                                                                          *)
(* Two effects tie the form to the address bar.  One writes tool and        *)
(* context into the URL whenever they change; the other fills the form from *)
(* the URL whenever that changes, and it clears the arguments.  The router  *)
(* applies a replace some time later, and a newer one takes the place of    *)
(* one still under way (external).  Meanwhile the user goes on typing.      *)
(*                                                                          *)
(* A text is its trimmed content and whether blanks surround it; the content *)
(* of a tool name is the set of rule classes it falls under (RuleSets), {}   *)
(* when it is blank.                                                        *)
EXTENDS Naturals, Sequences

CONSTANTS
  Tools,       \* tool texts a user may type
  Contexts,    \* context texts a user may type
  Scenarios,   \* SCENARIOS: the chips, each with a tool and a context
  Slots,       \* requests under way at a time
  Answers,     \* what the engine may answer, of RS!Decisions
  HistoryCap,  \* how many answers the page keeps (8 in the code)
  None

VARIABLES
  form,      \* tool, context, argsText ("none", "good" or "bad" JSON), activeScenario
  argsErr,   \* argsError
  url,       \* tool and context in the address bar, as useSearchParams has them
  nav,       \* the replace under way
  reqs,      \* requests under way
  loading, response, history, failed

vars == <<form, argsErr, url, nav, reqs, loading, response, history, failed>>

RS == INSTANCE RuleSets WITH tool <- form.tool.core

Text(core, padded) == [core |-> core, padded |-> padded]
Trim(text) == Text(text.core, FALSE)
Blank(text) == text.core = {}
Link(f) == [tool |-> Trim(f.tool), context |-> Trim(f.context)]
NoReq == [st |-> "free", tool |-> Text({}, FALSE), args |-> "none", suspect |-> FALSE, decision |-> None]

\* The second effect, after every change of tool or context: the link follows
\* the form, but not a blank tool.
Follow_ToolOnly(f) == IF Blank(f.tool) \/ f.tool = form.tool THEN nav ELSE Link(f)
Follow(f) == IF Blank(f.tool) THEN nav ELSE Link(f)

(* ---- Opening the page ------------------------------------------------ *)

Scenario(c, k) == [tool |-> c.tool, context |-> c.context, args |-> "good", chip |-> k]

\* The page opens with the first scenario, or with the form a shared link
\* asks for; either way the second effect has run.
Init ==
  \E shared \in {None} \cup Tools :
    /\ form = IF shared = None THEN Scenario(Scenarios[1], 1)
              ELSE [tool |-> Trim(shared), context |-> Text({}, FALSE), args |-> "none", chip |-> 0]
    /\ shared # None => ~Blank(shared)
    /\ url = IF shared = None THEN None ELSE Link(form)
    /\ nav = Link(form)
    /\ argsErr = FALSE /\ reqs = [s \in Slots |-> NoReq]
    /\ loading = FALSE /\ response = None /\ history = <<>> /\ failed = FALSE

(* ---- The form -------------------------------------------------------- *)

TypeTool(v) ==
  /\ v # form.tool
  /\ form' = [form EXCEPT !.tool = v, !.chip = 0]
  /\ nav' = Follow(form')
  /\ UNCHANGED <<argsErr, url, reqs, loading, response, history, failed>>

TypeContext(v) ==
  /\ v # form.context
  /\ form' = [form EXCEPT !.context = v]
  /\ nav' = Follow(form')
  /\ UNCHANGED <<argsErr, url, reqs, loading, response, history, failed>>

TypeArgs(v) ==
  /\ form' = [form EXCEPT !.args = v]
  /\ argsErr' = FALSE
  /\ UNCHANGED <<url, nav, reqs, loading, response, history, failed>>

loadScenario(k) ==
  /\ form' = Scenario(Scenarios[k], k)
  /\ nav' = IF Link(form') = Link(form) THEN nav ELSE Follow(form')
  /\ argsErr' = FALSE /\ response' = None /\ failed' = FALSE
  /\ UNCHANGED <<url, reqs, loading, history>>

\* The router is done.  A changed URL runs the first effect, which takes the
\* form from it and clears the arguments; what that changes is followed again.
Navigated_ToolOnly ==
  /\ nav # None
  /\ url' = nav
  /\ form' = IF nav = url THEN form
             ELSE [tool |-> nav.tool, context |-> form.context, args |-> "none", chip |-> 0]
  /\ nav' = IF form'.tool = form.tool THEN None ELSE Link(form')
  /\ UNCHANGED <<argsErr, reqs, loading, response, history, failed>>
Navigated_KeepChip ==
  /\ nav # None
  /\ url' = nav /\ nav' = None
  /\ form' = IF nav = url THEN form
             ELSE [form EXCEPT !.tool = nav.tool, !.context = nav.context]
  /\ UNCHANGED <<argsErr, reqs, loading, response, history, failed>>
Navigated ==
  /\ nav # None
  /\ url' = nav
  /\ form' = IF nav = url THEN form
             ELSE [tool |-> nav.tool, context |-> nav.context, args |-> "none", chip |-> 0]
  /\ nav' = IF form'.tool = form.tool /\ form'.context = form.context THEN None ELSE Link(form')
  /\ UNCHANGED <<argsErr, reqs, loading, response, history, failed>>

(* ---- Sending --------------------------------------------------------- *)

\* handleSend.  argsError is the value of the last rendering: arguments that
\* do not parse are left out and flagged the first time, and stop the request
\* the second.
handleSend(s) ==
  /\ reqs[s] = NoReq
  /\ argsErr' = (form.args = "bad")
  /\ IF argsErr THEN UNCHANGED <<reqs, loading, failed>>
     ELSE /\ reqs' = [reqs EXCEPT ![s] =
                 [st |-> "sent", tool |-> Trim(form.tool),
                  args |-> IF form.args = "good" THEN "good" ELSE "none",
                  suspect |-> "suspect" \in form.context.core, decision |-> None]]
          /\ loading' = TRUE /\ failed' = FALSE
  /\ UNCHANGED <<form, url, nav, response, history>>

\* The button is disabled while a request is under way and when the tool is
\* blank; Enter in the tool field is not.
PressSend(s) == ~loading /\ ~Blank(form.tool) /\ handleSend(s)
PressEnter(s) == handleSend(s)

\* The engine's answer as it is; without one the injection check and then the
\* local rules decide.  A blank tool is refused.
Decide(r) ==
  Answers \cup {IF r.suspect THEN "deny" ELSE RS!Evaluate(RS!SANDBOX_RULES, r.tool.core)}

Serve(s) ==
  /\ reqs[s].st = "sent"
  /\ \/ \E d \in Decide(reqs[s]) : ~Blank(reqs[s].tool)
          /\ reqs' = [reqs EXCEPT ![s].st = "ok", ![s].decision = d]
     \/ reqs' = [reqs EXCEPT ![s].st = "failed"]
  /\ UNCHANGED <<form, argsErr, url, nav, loading, response, history, failed>>

\* The answer is shown and heads the history.
Answer(s) ==
  LET h == [tool |-> reqs[s].tool, decision |-> reqs[s].decision] IN
  /\ reqs[s].st = "ok"
  /\ response' = h
  /\ history' = SubSeq(<<h>> \o history, 1, IF Len(history) < HistoryCap THEN Len(history) + 1 ELSE HistoryCap)
  /\ loading' = FALSE /\ reqs' = [reqs EXCEPT ![s] = NoReq]
  /\ UNCHANGED <<form, argsErr, url, nav, failed>>

\* An error status, or no answer.
Fail(s) ==
  /\ reqs[s].st = "failed"
  /\ failed' = TRUE /\ loading' = FALSE /\ reqs' = [reqs EXCEPT ![s] = NoReq]
  /\ UNCHANGED <<form, argsErr, url, nav, response, history>>

Next ==
  \/ \E v \in Tools : TypeTool(v)
  \/ \E v \in Contexts : TypeContext(v)
  \/ \E v \in {"none", "good", "bad"} : TypeArgs(v)
  \/ \E k \in DOMAIN Scenarios : loadScenario(k)
  \/ Navigated
  \/ \E s \in Slots : PressSend(s) \/ PressEnter(s) \/ Serve(s) \/ Answer(s) \/ Fail(s)

Spec == Init /\ [][Next]_vars

(* ---- Properties ------------------------------------------------------ *)

\* Every variable has its type; the history is no longer than its cap, and an
\* answer on the page is the newest of it (setResponse, setHistory).
TypeOK ==
  /\ form.args \in {"none", "good", "bad"} /\ form.chip \in 0..Len(Scenarios)
  /\ argsErr \in BOOLEAN /\ loading \in BOOLEAN /\ failed \in BOOLEAN
  /\ \A s \in Slots : reqs[s].st \in {"free", "sent", "ok", "failed"}
  /\ Len(history) <= HistoryCap
  /\ response # None => history # <<>> /\ response = Head(history)

\* The link copyShareLink copies is of the form on the page, whenever the
\* router is at rest and a tool is named: whatever order typing, scenarios and
\* the router's replacements came in.
LinkIsForm == nav = None => Blank(form.tool) \/ url = Link(form)

\* A chip stays lit, and its arguments in the form, only until the router has
\* caught up (the two effects undo loadScenario): a scenario runs with its
\* arguments only when it is sent at once, or chosen again.
ClearsChip == nav # None /\ nav' = None /\ url' # url => form'.chip = 0 /\ form'.args = "none"
ChipUntilNavigated == [][ClearsChip]_vars

\* The two effects come to rest: when the user stops, one more round of the
\* router settles form and link, and neither effect starts another.
Settles == Navigated => nav' = None \/ (nav' = url' /\ Link(form') = url')
SettlesInOneRound == [][Settles]_vars
=============================================================================
