----------------------------- MODULE ToolGuard -----------------------------
(***************************************************************************)
(* What stands between an agent and its tools in the TypeScript SDK        *)
(* (sdk/typescript/src) and the MCP server (sdk/mcp/src): a gate asks the  *)
(* engine about every tool call and runs the tool, redirects it, holds it  *)
(* for a human or refuses it.  A held call is resumed with waitAndRedeem:  *)
(* a long poll for the reviewer's decision, then a redemption that binds   *)
(* the approval to the request that is about to run.                       *)
(*                                                                         *)
(* Any number of resumers may work on one held call, replies are lost, the *)
(* caller may present another request than the reviewed one, and the       *)
(* engine closes a response WriteTimeout after the request came in.        *)
(***************************************************************************)
EXTENDS Naturals, FiniteSets

CONSTANTS Calls,        \* tool calls
          Resumers,     \* those who resume a held call
          Gates,        \* the gates in use, see the reactions below
          Timeouts,     \* what callers pass as timeoutMs
          PollCap,      \* POLL_CAP_MS
          Headroom,     \* of the hard abort
          WriteTimeout, \* of the engine's HTTP server
          MaxResumes    \* bound: resumptions of one resumer

ASSUME GuardAssumption ==
  /\ Calls # {}
  /\ Gates \subseteq {"vercel", "langchain", "langgraph", "express",
                      "strands", "strandsDeny", "strandsOpen", "mcp"}
  /\ Timeouts \subseteq Nat
  /\ PollCap \in Nat /\ Headroom \in Nat /\ WriteTimeout \in Nat /\ MaxResumes \in Nat

VARIABLES
  call,   \* what the gate of each tool call is doing
  item,   \* the review item of each call, in the engine's queue
  spent,  \* the calls whose approval was redeemed
  runs,   \* the executions of each call's tool
  res     \* what each resumer is doing

vars == <<call, item, spent, runs, res>>

---------------------------------------------------------------------------
(* The engine's answer (engine/internal/server).  A policy may redirect a  *)
(* call and name a safe tool; what confidence and risk make of the call is *)
(* decided apart from that, and the safe tool's name is sent in any case.  *)

EngineAgentDecision ==
  [allowed : BOOLEAN, review : BOOLEAN, compute : BOOLEAN,
   downgraded : BOOLEAN, safeTool : BOOLEAN]

Answer(allowed, review, compute, downgraded, safeTool) ==
  [allowed |-> allowed, review |-> review, compute |-> compute,
   downgraded |-> downgraded, safeTool |-> safeTool]

Outcomes == {"allow", "read_only", "review", "deny"}

\* evaluateAgentDecision: the strictest outcome, and the policy's redirect.
Decided(outcome, redirect, named) ==
  LET allowed == outcome \in {"allow", "read_only"} IN
    Answer(allowed, outcome = "review", redirect /\ allowed, outcome = "read_only", named)

\* What the engine decides; without a confidence signal it reviews or denies,
\* and in one of its modes a denial says that the scope was downgraded.
Enforced ==
  {a \in EngineAgentDecision :
     \/ \E o \in Outcomes, r \in BOOLEAN : \E n \in {FALSE, r} : a = Decided(o, r, n)
     \/ a = Answer(FALSE, FALSE, FALSE, TRUE, FALSE)}

\* In shadow mode everything is allowed; the redirect stays in the answer.
applyShadowMode(a) == [a EXCEPT !.allowed = TRUE, !.review = FALSE, !.downgraded = FALSE]

Answers == Enforced \cup {applyShadowMode(a) : a \in Enforced}

Unanswered == Answer(FALSE, FALSE, FALSE, FALSE, FALSE)

\* LeluClient.authorize: the one word the answer is boiled down to.
decision(a) ==
  CASE a.compute -> "compute"
    [] ~ a.compute /\ a.review -> "human_review"
    [] ~ a.compute /\ ~ a.review /\ a.allowed -> "allow"
    [] OTHER -> "deny"

\* agentAuthorize
requiresHumanReview(a) == decision(a) = "human_review"

---------------------------------------------------------------------------
(* The gates: what each makes of an answer.  "run" is the tool as the      *)
(* model asked for it, "redirect" the safe tool, "hold" a review whose ID  *)
(* the caller gets, "confirm" the framework's own question to a human.     *)

secureTool_RunDowngraded(a) ==   \* the scope is not looked at
  IF a.allowed /\ ~ requiresHumanReview(a) /\ ~ a.compute THEN "run" ELSE "refuse"
\* Vercel: the result of a review names no review.
secureTool(a) ==
  CASE requiresHumanReview(a) -> "refuse"
    [] ~ requiresHumanReview(a) /\ a.downgraded -> "refuse"
    [] ~ requiresHumanReview(a) /\ ~ a.downgraded /\ (a.compute \/ ~ a.allowed) -> "refuse"
    [] OTHER -> "run"

\* LangChain
SecureTool(a) ==
  CASE requiresHumanReview(a) -> "hold"
    [] ~ requiresHumanReview(a) /\ (a.downgraded \/ a.compute \/ ~ a.allowed) -> "refuse"
    [] OTHER -> "run"

\* LangGraph
secureNode(a) ==
  CASE requiresHumanReview(a) -> "hold"
    [] ~ requiresHumanReview(a) /\ ~ a.allowed -> "refuse"
    [] ~ requiresHumanReview(a) /\ a.allowed /\ (a.downgraded \/ a.compute) -> "refuse"
    [] OTHER -> "run"

\* Express: the route handler runs, or the client gets a 403.
leluAuthorize(a) == IF a.allowed /\ ~ a.downgraded /\ ~ a.compute THEN "run" ELSE "refuse"

decide_AllowLast(a) ==   \* whatever is no denial runs
  IF decision(a) = "deny" THEN "deny" ELSE "allow"
\* Strands, the outcome: the safe tool is looked at, the scope is not.
decide(a) ==
  CASE decision(a) = "human_review" -> "review"
    [] decision(a) # "human_review" /\ a.safeTool -> "redirect"
    [] decision(a) # "human_review" /\ ~ a.safeTool /\ ~ a.allowed -> "deny"
    [] OTHER -> "allow"

\* Strands, the action.
toAction(gate, outcome) ==
  CASE outcome = "allow" -> "run"
    [] outcome = "redirect" -> "redirect"
    [] outcome = "review" -> IF gate = "strandsDeny" THEN "hold" ELSE "confirm"
    [] OTHER -> "refuse"

\* The MCP server's status, and an agent that goes by it.
agentDecisionStatus(a) ==
  CASE a.review -> "REQUIRES_HUMAN_REVIEW"
    [] ~ a.review /\ a.compute -> "COMPUTE"
    [] ~ a.review /\ ~ a.compute /\ a.allowed -> "ALLOWED"
    [] OTHER -> "DENIED"
byStatus == [REQUIRES_HUMAN_REVIEW |-> "refuse", COMPUTE |-> "redirect",
             ALLOWED |-> "run", DENIED |-> "refuse"]

Reaction(gate, a) ==
  CASE gate = "vercel" -> secureTool(a)
    [] gate = "langchain" -> SecureTool(a)
    [] gate = "langgraph" -> secureNode(a)
    [] gate = "express" -> leluAuthorize(a)
    [] gate = "mcp" -> byStatus[agentDecisionStatus(a)]
    [] OTHER -> toAction(gate, decide(a))

\* What a gate does when the engine cannot be reached: refusal, 503, an
\* exception, or, for a Strands handler told to fail open, the tool.
onUnreachable(gate) == IF gate = "strandsOpen" THEN "run" ELSE "refuse"

---------------------------------------------------------------------------
Resumer(step, c, req, count) ==
  [step |-> step, on |-> c, req |-> req, count |-> count, reply |-> "none", lost |-> FALSE,
   timeout |-> 0, pollMs |-> 0, elapsed |-> 0]   \* of the poll under way
Idle == Resumer("idle", CHOOSE c \in Calls : TRUE, "asked", 0)
\* The resumption is over, or goes on without the poll.
Leave(r, step) == Resumer(step, r.on, r.req, r.count)
Throw(r, lost) == [Leave(r, "threw") EXCEPT !.lost = lost]

\* One more execution of a call's tool: why, by whom, and of which request.
Runs(c, how, by, nth, req) ==
  [runs EXCEPT ![c] = @ \cup {[how |-> how, by |-> by, nth |-> nth, req |-> req]}]
GateRuns(c, how) == Runs(c, how, c, 0, "asked")

Init ==
  /\ call \in [Calls -> {[gate |-> g, step |-> "start", ans |-> Unanswered] : g \in Gates}]
  /\ item = [c \in Calls |-> "none"]
  /\ spent = {}
  /\ runs = [c \in Calls |-> {}]
  /\ res = [w \in Resumers |-> Idle]

---------------------------------------------------------------------------
(* A gate asks the engine, and reacts to the answer or to its absence.     *)

AgentAuthorize(c) ==
  /\ call[c].step = "start"
  /\ call' = [call EXCEPT ![c].step = "asked"]
  /\ UNCHANGED <<item, spent, runs, res>>

\* The engine decides, and files a review item; a failed enqueue is only
\* logged, and the answer then names no review.
EngineDecides(c) ==
  /\ call[c].step = "asked"
  /\ \E a \in Answers, filed \in BOOLEAN :
       /\ filed => a.review
       /\ call' = [call EXCEPT ![c].step = "answered", ![c].ans = a]
       /\ item' = [item EXCEPT ![c] = IF filed THEN "pending" ELSE "none"]
  /\ UNCHANGED <<spent, runs, res>>

React(c) ==
  /\ call[c].step = "answered"
  /\ LET r == Reaction(call[c].gate, call[c].ans) IN
       /\ call' = [call EXCEPT ![c].step = r]
       /\ runs' = IF r = "run" THEN GateRuns(c, "gate") ELSE runs
  /\ UNCHANGED <<item, spent, res>>

\* The request or its answer is lost, or the timer of post() aborts it.
Unreachable(c) ==
  /\ call[c].step \in {"asked", "answered"}
  /\ LET r == onUnreachable(call[c].gate) IN
       /\ call' = [call EXCEPT ![c].step = r, ![c].ans = Unanswered]
       /\ runs' = IF r = "run" THEN GateRuns(c, "open") ELSE runs
  /\ UNCHANGED <<item, spent, res>>

\* Strands' interrupt: a human answers in the application, not in the queue.
Confirm(c) ==
  /\ call[c].step = "confirm"
  /\ \E yes \in BOOLEAN :
       /\ call' = [call EXCEPT ![c].step = IF yes THEN "run" ELSE "refuse"]
       /\ runs' = IF yes THEN GateRuns(c, "confirm") ELSE runs
  /\ UNCHANGED <<item, spent, res>>

---------------------------------------------------------------------------
(* The queue.  A reviewer resolves through the application's handler or    *)
(* directly, a pending item ages, an approval lapses.                      *)

Resolve(c, verdict) ==
  /\ item[c] = "pending"
  /\ item' = [item EXCEPT ![c] = verdict]
  /\ UNCHANGED <<call, spent, runs, res>>

Age(c) ==
  /\ item[c] \in {"pending", "approved"}
  /\ item' = [item EXCEPT ![c] = IF @ = "pending" THEN "expired" ELSE "lapsed"]
  /\ UNCHANGED <<call, spent, runs, res>>

---------------------------------------------------------------------------
(* A resumer: waitForApproval.                                             *)

Resuming(w, r) == res' = [res EXCEPT ![w] = r]
pollMs_Uncapped(timeout, jitter) == timeout + jitter
\* How long one poll may last: the time that is left, staggered, up to the cap.
pollMs(timeout, jitter) == IF timeout + jitter < PollCap THEN timeout + jitter ELSE PollCap

\* The caller's request is whatever the application passes in.  With no time
\* left the item is read once; otherwise a long poll starts.  A call whose
\* answer names no review cannot be resumed: reviewIdOf throws.
waitForApproval(w, c, req, timeout) ==
  /\ res[w].step \in {"idle", "ended", "threw"}
  /\ res[w].count < MaxResumes
  /\ call[c].step = "hold" /\ item[c] # "none"
  /\ IF timeout = 0 THEN Resuming(w, Resumer("get", c, req, res[w].count + 1))
       ELSE \E jitter \in {0, 1} :
              Resuming(w, [Resumer("poll", c, req, res[w].count + 1)
                             EXCEPT !.timeout = timeout,
                                    !.pollMs = pollMs(timeout, jitter)])
  /\ UNCHANGED <<call, item, spent, runs>>

\* What waitAndRedeem makes of an item that was answered with status 200.
Resolved(r) ==
  Leave(r, IF item[r.on] \in {"approved", "lapsed"} THEN "redeem" ELSE "ended")

handleQueueGet(w) ==
  /\ res[w].step = "get"
  /\ Resuming(w, Resolved(res[w]))
  /\ UNCHANGED <<call, item, spent, runs>>

\* The engine's side of a poll, every 500 ms: a resolved item is answered
\* with 200, a pending one with 408 after the poll's own time.  An answer
\* written later than WriteTimeout finds the connection closed.  parseResponse
\* throws on every status but 2xx.
handleQueueWait(w) ==
  LET r == res[w] IN
  /\ r.step = "poll"
  /\ item[r.on] # "pending" \/ r.elapsed > r.pollMs
  /\ Resuming(w, IF r.elapsed > WriteTimeout THEN Throw(r, TRUE)
                 ELSE IF item[r.on] = "pending" THEN Throw(r, FALSE)
                 ELSE Resolved(r))
  /\ UNCHANGED <<call, item, spent, runs>>

Abort_NoTimer(w) ==   \* only the server ends a poll
  /\ res[w].step = "poll" /\ FALSE
  /\ UNCHANGED vars
\* hardTimer
Abort(w) ==
  /\ res[w].step = "poll"
  /\ res[w].elapsed > res[w].timeout + Headroom
  /\ Resuming(w, Throw(res[w], TRUE))
  /\ UNCHANGED <<call, item, spent, runs>>

---------------------------------------------------------------------------
(* redeemReview                                                            *)

handleQueueRedeem_Again(w) ==   \* a spent approval is not refused
  /\ res[w].step = "redeem"
  /\ LET r == res[w]
         ok == item[r.on] = "approved" /\ r.req = "asked" IN
       /\ spent' = IF ok THEN spent \cup {r.on} ELSE spent
       /\ Resuming(w, [r EXCEPT !.step = "replied", !.reply = IF ok THEN "ok" ELSE "forbidden"])
  /\ UNCHANGED <<call, item, runs>>
handleQueueRedeem_AnyPayload(w) ==   \* the fingerprint is not compared
  /\ res[w].step = "redeem"
  /\ LET r == res[w]
         ok == item[r.on] = "approved" /\ r.on \notin spent IN
       /\ spent' = IF ok THEN spent \cup {r.on} ELSE spent
       /\ Resuming(w, [r EXCEPT !.step = "replied", !.reply = IF ok THEN "ok" ELSE "forbidden"])
  /\ UNCHANGED <<call, item, runs>>
\* The engine spends an approval that is fresh, unspent and was given for the
\* request's fingerprint (actor, action, arguments, ... but not confidence).
handleQueueRedeem(w) ==
  /\ res[w].step = "redeem"
  /\ LET r == res[w]
         ok == item[r.on] = "approved" /\ r.on \notin spent /\ r.req = "asked" IN
       /\ spent' = IF ok THEN spent \cup {r.on} ELSE spent
       /\ Resuming(w, [r EXCEPT !.step = "replied", !.reply = IF ok THEN "ok" ELSE "forbidden"])
  /\ UNCHANGED <<call, item, runs>>

\* A 200 lets the caller run its tool; a refusal is a 403, and throws.
Redeemed(w) ==
  /\ res[w].step = "replied"
  /\ LET r == res[w] ran == r.reply = "ok" IN
       /\ Resuming(w, IF ran THEN Leave(r, "ended") ELSE Throw(r, FALSE))
       /\ runs' = IF ran THEN Runs(r.on, "redeemed", w, r.count, r.req) ELSE runs
  /\ UNCHANGED <<call, item, spent>>

\* The redemption, or the reply to it, is lost: the caller sees an exception
\* and may resume again.
RedeemLost(w) ==
  /\ res[w].step \in {"get", "redeem", "replied"}
  /\ Resuming(w, Throw(res[w], TRUE))
  /\ UNCHANGED <<call, item, spent, runs>>

\* The clock, which only polls look at; it waits for an overdue timer.
Polling == {w \in Resumers : res[w].step = "poll"}
Tick ==
  /\ Polling # {}
  /\ \A w \in Polling : res[w].elapsed <= res[w].timeout + Headroom
  /\ res' = [w \in Resumers |-> IF w \in Polling THEN [res[w] EXCEPT !.elapsed = @ + 1]
                                ELSE res[w]]
  /\ UNCHANGED <<call, item, spent, runs>>

Next ==
  \/ \E c \in Calls : \/ AgentAuthorize(c) \/ EngineDecides(c) \/ React(c)
                      \/ Unreachable(c) \/ Confirm(c) \/ Age(c)
                      \/ \E v \in {"approved", "denied"} : Resolve(c, v)
  \/ \E w \in Resumers : \/ \E c \in Calls, req \in {"asked", "altered"}, t \in Timeouts :
                              waitForApproval(w, c, req, t)
                         \/ handleQueueGet(w) \/ handleQueueWait(w) \/ Abort(w)
                         \/ handleQueueRedeem(w) \/ Redeemed(w) \/ RedeemLost(w)
  \/ Tick

\* Time passes and the client's own timer fires; no answer of the engine is
\* taken for granted.
Fairness == WF_vars(Tick) /\ \A w \in Resumers : WF_vars(Abort(w))

Spec == Init /\ [][Next]_vars /\ Fairness
---------------------------------------------------------------------------
Steps == {"start", "asked", "answered", "run", "redirect", "hold", "confirm", "refuse"}

Execution ==
  [how : {"gate", "open", "confirm", "redeemed"}, by : Calls \cup Resumers,
   nth : 0..MaxResumes, req : {"asked", "altered"}]

Resumption ==
  [step : {"idle", "get", "poll", "redeem", "replied", "ended", "threw"},
   on : Calls, req : {"asked", "altered"}, count : 0..MaxResumes,
   reply : {"none", "ok", "forbidden"}, lost : BOOLEAN,
   timeout : Nat, pollMs : 0..PollCap, elapsed : Nat]

\* Every variable has its type, and no poll outlives its own timer by more
\* than a tick.
TypeOK ==
  /\ call \in [Calls -> [gate : Gates, step : Steps, ans : EngineAgentDecision]]
  /\ item \in [Calls -> {"none", "pending", "approved", "denied", "expired", "lapsed"}]
  /\ spent \in SUBSET Calls
  /\ runs \in [Calls -> SUBSET Execution]
  /\ res \in [Resumers -> Resumption]
  /\ \A w \in Resumers : res[w].elapsed <= res[w].timeout + Headroom + 1

\* A gate runs the tool on its own only when the engine allowed it without a
\* review, or when the engine was out of reach and the gate was told to fail
\* open; the framework's own confirmation is asked only for a review.
RunIsGranted ==
  \A c \in Calls : \A r \in runs[c] :
    /\ r.how = "gate" => call[c].ans.allowed /\ ~ call[c].ans.review
    /\ r.how = "open" => call[c].gate = "strandsOpen" /\ call[c].ans = Unanswered
    /\ r.how = "confirm" => call[c].ans.review

\* The Vercel, LangChain, LangGraph and Express gates run the tool as asked
\* only on a clean allow: a downgraded scope and a redirect come with
\* allowed = true, and mean something else.
CleanAllowOnly ==
  \A c \in Calls :
    /\ call[c].gate \in {"vercel", "langchain", "langgraph", "express"}
    /\ runs[c] \cap {r \in runs[c] : r.how = "gate"} # {}
    => decision(call[c].ans) = "allow" /\ ~ call[c].ans.downgraded

\* What runs is what the answer grants (the SDK gates): the two above.
RunsAsAnswered == RunIsGranted /\ CleanAllowOnly

\* One approval lets one execution through, whoever resumes the call, however
\* often, and whatever replies were lost on the way.
SpentOnce ==
  \A c \in Calls : Cardinality({r \in runs[c] : r.how = "redeemed"}) <= 1

\* What runs after a redemption is the request the reviewer saw, and the
\* reviewer approved it.
ApprovalBinds ==
  \A c \in Calls : \A r \in runs[c] :
    r.how = "redeemed" => r.req = "asked" /\ item[c] \in {"approved", "lapsed"} /\ c \in spent

\* What runs after a redemption (redeemReview): the two above.
RedemptionSound == SpentOnce /\ ApprovalBinds

\* waitForApproval comes back, even when the engine never answers.
WaitEnds == \A w \in Resumers : res[w].step = "poll" ~> res[w].step # "poll"

\* What AuthDecision says of downgradedScope (types.ts): callers must not run
\* the action unmodified when it is set.  The Strands handler and the MCP
\* status do not look at it.
DowngradeHonoured ==
  \A c \in Calls : \A r \in runs[c] : r.how = "gate" => ~ call[c].ans.downgraded

\* What redeemReview and waitForApproval say (client.ts): a refusal and a
\* review still pending are answers, not errors.  Only a lost connection may
\* surface as an exception.
WaitAnswers == \A w \in Resumers : res[w].step = "threw" => res[w].lost
============================================================================
