------------------------- MODULE ToolGuardProofs -------------------------
(***************************************************************************)
(* Proofs about ToolGuard, for any number of calls and resumers, any gates *)
(* among those of the SDK, any timeouts, and any number of lost replies    *)
(* and resumptions.                                                        *)
(***************************************************************************)
EXTENDS ToolGuard, FiniteSetTheorems, TLAPS

---------------------------------------------------------------------------
(* The inductive invariant                                                 *)

Redemptions(c) == {r \in runs[c] : r.how = "redeemed"}

\* Before its gate has reacted nothing of a call has run; what has run was
\* granted by the answer, or was redeemed, once.
CallSound(c) ==
  /\ call[c].step \in {"start", "asked", "answered"} => runs[c] = {}
  /\ call[c].step = "answered" => call[c].ans \in Answers
  /\ call[c].step = "confirm" => call[c].ans.review
  /\ \A r \in runs[c] :
       /\ r.how = "gate" => /\ call[c].ans.allowed /\ ~ call[c].ans.review
                            /\ call[c].gate \in {"vercel", "langchain", "langgraph", "express"}
                                 => decision(call[c].ans) = "allow" /\ ~ call[c].ans.downgraded
       /\ r.how = "open" => call[c].gate = "strandsOpen" /\ call[c].ans = Unanswered
       /\ r.how = "confirm" => call[c].ans.review
       /\ r.how = "redeemed" => r.req = "asked" /\ c \in spent
  /\ c \in spent => call[c].step = "hold" /\ item[c] \in {"approved", "lapsed"}
  /\ \A r, q \in Redemptions(c) : r = q

\* A redemption that was granted and is not used yet.
Granted(w) == res[w].step = "replied" /\ res[w].reply = "ok"

\* Only a held call is resumed, and an unused redemption is for a call that
\* was not run by another.
ResumerSound(w) ==
  /\ res[w].step \in {"get", "poll", "redeem", "replied"} => call[res[w].on].step = "hold"
  /\ Granted(w) => /\ res[w].on \in spent
                   /\ res[w].req = "asked"
                   /\ Redemptions(res[w].on) = {}

\* An approval is granted to one resumer.
OneGrant ==
  \A w, x \in Resumers : Granted(w) /\ Granted(x) /\ res[w].on = res[x].on => w = x

IInv ==
  /\ TypeOK
  /\ \A c \in Calls : CallSound(c)
  /\ \A w \in Resumers : ResumerSound(w)
  /\ OneGrant
CallRecord == [gate : Gates, step : Steps, ans : EngineAgentDecision]

---------------------------------------------------------------------------
(* What the gates make of an answer                                        *)

LEMMA AnswerTypes ==
  /\ Unanswered \in EngineAgentDecision /\ Answers \subseteq EngineAgentDecision
  /\ ~ Unanswered.review
  /\ \A a \in Answers : a.allowed => ~ a.review
<1>1. ASSUME NEW a \in BOOLEAN, NEW r \in BOOLEAN, NEW c \in BOOLEAN,
             NEW d \in BOOLEAN, NEW s \in BOOLEAN
      PROVE  /\ Answer(a, r, c, d, s) \in EngineAgentDecision
             /\ Answer(a, r, c, d, s).allowed = a /\ Answer(a, r, c, d, s).review = r
  BY DEF Answer, EngineAgentDecision
<1>2. Unanswered \in EngineAgentDecision /\ ~ Unanswered.review
  BY <1>1 DEF Unanswered
<1>3. ASSUME NEW o \in Outcomes, NEW r \in BOOLEAN, NEW n \in BOOLEAN
      PROVE  /\ Decided(o, r, n) \in EngineAgentDecision
             /\ Decided(o, r, n).allowed => ~ Decided(o, r, n).review
  <2>1. PICK x \in BOOLEAN : x <=> o \in {"allow", "read_only"}
    OBVIOUS
  <2>2. PICK y \in BOOLEAN : y <=> o = "review"
    OBVIOUS
  <2>3. PICK z \in BOOLEAN : z <=> o = "read_only"
    OBVIOUS
  <2>4. PICK w \in BOOLEAN : w <=> r /\ x
    OBVIOUS
  <2>5. Decided(o, r, n) = Answer(x, y, w, z, n)
    <3>1. x = (o \in {"allow", "read_only"}) /\ y = (o = "review")
      BY <2>1, <2>2
    <3>2. z = (o = "read_only") /\ w = (r /\ x)
      BY <2>3, <2>4
    <3> QED
      BY <3>1, <3>2 DEF Decided
  <2>6. x => ~ y
    BY <2>1, <2>2
  <2>7. /\ Answer(x, y, w, z, n) \in EngineAgentDecision
        /\ Answer(x, y, w, z, n).allowed = x /\ Answer(x, y, w, z, n).review = y
    BY <1>1
  <2> QED
    BY <2>5, <2>6, <2>7
<1>4. ASSUME NEW a \in Enforced PROVE a \in EngineAgentDecision /\ (a.allowed => ~ a.review)
  <2>1. CASE \E o \in Outcomes, r \in BOOLEAN : \E n \in {FALSE, r} : a = Decided(o, r, n)
    <3>1. PICK o \in Outcomes, r \in BOOLEAN, n \in BOOLEAN : a = Decided(o, r, n)
      BY <2>1
    <3> QED
      BY <1>3, <3>1
  <2>2. CASE a = Answer(FALSE, FALSE, FALSE, TRUE, FALSE)
    BY <1>1, <2>2
  <2> QED
    BY <2>1, <2>2 DEF Enforced
<1>5. ASSUME NEW a \in Enforced
      PROVE  applyShadowMode(a) \in EngineAgentDecision /\ ~ applyShadowMode(a).review
  BY <1>4 DEF applyShadowMode, EngineAgentDecision
<1>6. \A a \in Answers : a \in EngineAgentDecision /\ (a.allowed => ~ a.review)
  BY <1>4, <1>5 DEF Answers
<1> QED
  BY <1>2, <1>6

\* The tool runs as asked only when the engine allowed it without a review,
\* and the first four gates look at the scope, too; a human is asked in the
\* application only about a review.
LEMMA ReactionMeans ==
  ASSUME NEW gate \in Gates, NEW a \in Answers
  PROVE  /\ Reaction(gate, a) \in {"run", "redirect", "hold", "confirm", "refuse"}
         /\ Reaction(gate, a) = "confirm" => a.review
         /\ Reaction(gate, a) = "run" =>
              /\ a.allowed /\ ~ a.review
              /\ gate \in {"vercel", "langchain", "langgraph", "express"}
                   => decision(a) = "allow" /\ ~ a.downgraded
<1>0. /\ a.allowed \in BOOLEAN /\ a.review \in BOOLEAN /\ a.compute \in BOOLEAN
      /\ a.downgraded \in BOOLEAN /\ a.safeTool \in BOOLEAN /\ (a.allowed => ~ a.review)
  BY AnswerTypes DEF EngineAgentDecision
<1>1. CASE gate = "vercel"
  BY <1>0, <1>1 DEF Reaction, secureTool, requiresHumanReview, decision
<1>2. CASE gate = "langchain"
  BY <1>0, <1>2 DEF Reaction, SecureTool, requiresHumanReview, decision
<1>3. CASE gate = "langgraph"
  BY <1>0, <1>3 DEF Reaction, secureNode, requiresHumanReview, decision
<1>4. CASE gate = "express"
  BY <1>0, <1>4 DEF Reaction, leluAuthorize, decision
<1>5. CASE gate = "mcp"
  <2>1. Reaction(gate, a) = byStatus[agentDecisionStatus(a)]
    BY <1>5 DEF Reaction
  <2>2. CASE a.review
    <3>1. agentDecisionStatus(a) = "REQUIRES_HUMAN_REVIEW"
      BY <2>2 DEF agentDecisionStatus
    <3> QED
      BY <1>5, <2>1, <3>1 DEF byStatus
  <2>3. CASE ~ a.review /\ a.compute
    <3>1. agentDecisionStatus(a) = "COMPUTE"
      BY <2>3 DEF agentDecisionStatus
    <3> QED
      BY <1>5, <2>1, <3>1 DEF byStatus
  <2>4. CASE ~ a.review /\ ~ a.compute /\ a.allowed
    <3>1. agentDecisionStatus(a) = "ALLOWED"
      BY <2>4 DEF agentDecisionStatus
    <3> QED
      BY <1>5, <2>1, <2>4, <3>1 DEF byStatus
  <2>5. CASE ~ a.review /\ ~ a.compute /\ ~ a.allowed
    <3>1. agentDecisionStatus(a) = "DENIED"
      BY <2>5 DEF agentDecisionStatus
    <3> QED
      BY <1>5, <2>1, <3>1 DEF byStatus
  <2> QED
    BY <1>0, <2>2, <2>3, <2>4, <2>5
<1>6. CASE gate \in {"strands", "strandsDeny", "strandsOpen"}
  <2>1. Reaction(gate, a) = toAction(gate, decide(a))
    BY <1>6 DEF Reaction
  <2>2. /\ decide(a) \in {"review", "redirect", "deny", "allow"}
        /\ decide(a) = "review" => a.review
        /\ decide(a) = "allow" => a.allowed /\ ~ a.review
    BY <1>0 DEF decide, decision
  <2> QED
    BY <1>6, <2>1, <2>2 DEF toAction
<1> QED
  BY <1>1, <1>2, <1>3, <1>4, <1>5, <1>6, GuardAssumption

---------------------------------------------------------------------------
(* Resumers                                                                *)

LEMMA NewResumer ==
  ASSUME NEW c \in Calls, NEW req \in {"asked", "altered"}, NEW n \in 0..MaxResumes,
         NEW step \in {"idle", "get", "poll", "redeem", "replied", "ended", "threw"}
  PROVE  LET r == Resumer(step, c, req, n)
         IN  /\ r \in Resumption
             /\ r.step = step /\ r.on = c /\ r.req = req /\ r.count = n
             /\ r.reply = "none" /\ r.elapsed = 0 /\ r.timeout = 0
BY GuardAssumption DEF Resumer, Resumption

LEMMA Leaving ==
  ASSUME NEW r \in Resumption,
         NEW step \in {"idle", "get", "poll", "redeem", "replied", "ended", "threw"}
  PROVE  /\ Leave(r, step) \in Resumption
         /\ Leave(r, step).step = step /\ Leave(r, step).on = r.on
         /\ Leave(r, step).elapsed = 0 /\ Leave(r, step).timeout = 0
<1>1. r.on \in Calls /\ r.req \in {"asked", "altered"} /\ r.count \in 0..MaxResumes
  BY DEF Resumption
<1> QED
  BY <1>1, NewResumer DEF Leave

LEMMA Throwing ==
  ASSUME NEW r \in Resumption, NEW lost \in BOOLEAN
  PROVE  /\ Throw(r, lost) \in Resumption /\ Throw(r, lost).step = "threw"
         /\ Throw(r, lost).elapsed = 0 /\ Throw(r, lost).timeout = 0
<1>1. ASSUME NEW q \in Resumption
      PROVE  LET t == [q EXCEPT !.lost = lost]
             IN  t \in Resumption /\ t.step = q.step /\ t.elapsed = q.elapsed /\ t.timeout = q.timeout
  BY DEF Resumption
<1> QED
  BY <1>1, Leaving DEF Throw

LEMMA PollFits == \A t \in Nat, j \in {0, 1} : pollMs(t, j) \in 0..PollCap
BY GuardAssumption DEF pollMs

---------------------------------------------------------------------------
(* What a step leaves alone                                                *)

LEMMA CallFrame ==
  ASSUME NEW c \in Calls, CallSound(c), call'[c] = call[c], runs'[c] = runs[c],
         c \in spent' <=> c \in spent,
         item'[c] = item[c] \/ c \notin spent \/ item'[c] = "lapsed"
  PROVE  CallSound(c)'
BY DEF CallSound, Redemptions

LEMMA ResumerFrame ==
  ASSUME NEW w \in Resumers, ResumerSound(w), res'[w] = res[w], spent \subseteq spent',
         call[res[w].on].step = "hold" => /\ call'[res[w].on].step = "hold"
                                         /\ runs'[res[w].on] = runs[res[w].on]
  PROVE  ResumerSound(w)'
BY DEF ResumerSound, Granted, Redemptions

\* A step of the gate of one call, which is not held yet, so that nobody
\* resumes it.
LEMMA GateStep ==
  ASSUME IInv, TypeOK', NEW c \in Calls, call[c].step # "hold", CallSound(c)',
         \A b \in Calls : b # c => /\ call'[b] = call[b] /\ item'[b] = item[b]
                                   /\ runs'[b] = runs[b],
         UNCHANGED <<spent, res>>
  PROVE  IInv'
<1>1. \A b \in Calls : CallSound(b)'
  BY CallFrame DEF IInv
<1>2. ASSUME NEW w \in Resumers PROVE ResumerSound(w)'
  <2>1. res[w].on \in Calls /\ ResumerSound(w)
    BY DEF IInv, TypeOK, Resumption
  <2> QED
    BY <2>1, ResumerFrame
<1> QED
  BY <1>1, <1>2 DEF IInv, OneGrant, Granted

\* A step of one resumer that is not granted anything by it.
LEMMA ResumerStep ==
  ASSUME IInv, NEW w \in Resumers, NEW r \in Resumption, Resuming(w, r),
         UNCHANGED <<call, item, spent, runs>>,
         r.elapsed <= r.timeout + Headroom + 1,
         r.step \in {"get", "poll", "redeem", "replied"} => call[r.on].step = "hold",
         r.step # "replied" \/ r.reply # "ok"
  PROVE  IInv'
<1>1. res'[w] = r /\ \A x \in Resumers : x # w => res'[x] = res[x]
  BY DEF IInv, TypeOK, Resuming
<1>2. TypeOK'
  BY <1>1 DEF IInv, TypeOK, Resuming
<1>3. \A c \in Calls : CallSound(c)'
  BY CallFrame DEF IInv
<1>4. ASSUME NEW x \in Resumers PROVE ResumerSound(x)'
  <2>1. CASE x = w
    BY <1>1, <2>1 DEF ResumerSound, Granted
  <2>2. CASE x # w
    BY <1>1, <2>2, ResumerFrame DEF IInv
  <2> QED
    BY <2>1, <2>2
<1> QED
  BY <1>1, <1>2, <1>3, <1>4 DEF IInv, OneGrant, Granted

---------------------------------------------------------------------------
(* The gates                                                               *)

LEMMA InitInvariant == Init => IInv
<1> SUFFICES ASSUME Init PROVE IInv
  OBVIOUS
<1>1. (CHOOSE c \in Calls : TRUE) \in Calls /\ 0 \in 0..MaxResumes
  BY GuardAssumption
<1>2. Idle \in Resumption /\ Idle.step = "idle" /\ Idle.elapsed = 0 /\ Idle.timeout = 0
  BY <1>1, NewResumer DEF Idle
<1>3. \A w \in Resumers : res[w] = Idle
  BY DEF Init
<1>4. \A c \in Calls : /\ call[c] \in CallRecord /\ call[c].step = "start"
                       /\ runs[c] = {} /\ c \notin spent
  BY AnswerTypes DEF Init, CallRecord, Steps
<1>5. call \in [Calls -> CallRecord]
  <2>1. PICK g \in [Calls -> {[gate |-> g, step |-> "start", ans |-> Unanswered] : g \in Gates}] : call = g
    BY DEF Init
  <2> QED
    BY <1>4, <2>1
<1>6. TypeOK
  <2>1. res \in [Resumers -> Resumption] /\ runs \in [Calls -> SUBSET Execution]
    BY <1>2 DEF Init
  <2> QED
    BY <1>2, <1>3, <1>5, <2>1, GuardAssumption DEF Init, TypeOK, CallRecord
<1>7. \A c \in Calls : CallSound(c)
  BY <1>4 DEF CallSound, Redemptions
<1>8. (\A w \in Resumers : ResumerSound(w)) /\ OneGrant
  BY <1>2, <1>3 DEF ResumerSound, OneGrant, Granted
<1> QED
  BY <1>6, <1>7, <1>8 DEF IInv

\* The record of a call when its gate goes on to another step, with an answer.
LEMMA GateRecord ==
  ASSUME TypeOK, NEW c \in Calls, NEW s \in Steps
  PROVE  LET d == [call[c] EXCEPT !.step = s]
         IN  d \in CallRecord /\ d.step = s /\ d.ans = call[c].ans /\ d.gate = call[c].gate
BY DEF TypeOK, CallRecord

\* One more execution by the gate itself.
LEMMA GateExecution ==
  ASSUME TypeOK, NEW c \in Calls, NEW how \in {"gate", "open", "confirm"}
  PROVE  /\ GateRuns(c, how) \in [Calls -> SUBSET Execution]
         /\ \E r : r.how = how /\ GateRuns(c, how)[c] = runs[c] \cup {r}
         /\ \A b \in Calls : b # c => GateRuns(c, how)[b] = runs[b]
<1> DEFINE r == [how |-> how, by |-> c, nth |-> 0, req |-> "asked"]
<1>1. r \in Execution /\ r.how = how
  BY GuardAssumption DEF Execution
<1>2. GateRuns(c, how) = [runs EXCEPT ![c] = @ \cup {r}]
  BY DEF GateRuns, Runs
<1> HIDE DEF r
<1> QED
  BY <1>1, <1>2 DEF TypeOK

LEMMA AskInvariant ==
  ASSUME IInv, NEW c \in Calls, AgentAuthorize(c)
  PROVE  IInv'
<1> DEFINE d == [call[c] EXCEPT !.step = "asked"]
<1>0. TypeOK /\ CallSound(c)
  BY DEF IInv
<1>1. d \in CallRecord /\ d.step = "asked" /\ d.ans = call[c].ans /\ d.gate = call[c].gate
  <2>1. "asked" \in Steps
    BY DEF Steps
  <2> QED
    BY <1>0, <2>1, GateRecord, AnswerTypes
<1>2. /\ call[c].step = "start" /\ call' = [call EXCEPT ![c] = d]
      /\ UNCHANGED <<item, spent, runs, res>>
  BY DEF AgentAuthorize
<1> HIDE DEF d
<1>3. TypeOK' /\ call'[c] = d /\ \A b \in Calls : b # c => call'[b] = call[b]
  BY <1>0, <1>1, <1>2 DEF TypeOK, CallRecord
<1>4. CallSound(c)'
  BY <1>0, <1>1, <1>2, <1>3 DEF CallSound, Redemptions
<1> QED
  BY <1>2, <1>3, <1>4, GateStep

LEMMA DecideInvariant ==
  ASSUME IInv, NEW c \in Calls, EngineDecides(c)
  PROVE  IInv'
<1>0. TypeOK /\ CallSound(c)
  BY DEF IInv
<1>1. PICK a \in Answers, filed \in BOOLEAN :
         /\ call' = [call EXCEPT ![c].step = "answered", ![c].ans = a]
         /\ item' = [item EXCEPT ![c] = IF filed THEN "pending" ELSE "none"]
  BY DEF EngineDecides
<1> DEFINE d == [call[c] EXCEPT !.step = "answered", !.ans = a]
<1>2. d \in CallRecord /\ d.step = "answered" /\ d.ans = a
  <2>1. "answered" \in Steps /\ a \in EngineAgentDecision
    BY AnswerTypes DEF Steps
  <2> QED
    BY <1>0, <2>1 DEF TypeOK, CallRecord
<1>3. call[c].step = "asked" /\ call' = [call EXCEPT ![c] = d] /\ UNCHANGED <<spent, runs, res>>
  <2>1. call[c].step = "asked" /\ UNCHANGED <<spent, runs, res>>
    BY DEF EngineDecides
  <2>2. call' = [call EXCEPT ![c] = d]
    BY <1>1
  <2> QED
    BY <2>1, <2>2
<1> HIDE DEF d
<1>4. TypeOK' /\ call'[c] = d
  <2>1. call' \in [Calls -> CallRecord] /\ call'[c] = d
    BY <1>0, <1>2, <1>3 DEF TypeOK, CallRecord
  <2>2. item' \in [Calls -> {"none", "pending", "approved", "denied", "expired", "lapsed"}]
    BY <1>0, <1>1 DEF TypeOK
  <2> QED
    BY <1>0, <1>3, <2>1, <2>2 DEF TypeOK, CallRecord
<1>5. \A b \in Calls : b # c => call'[b] = call[b] /\ item'[b] = item[b]
  BY <1>0, <1>1, <1>3 DEF TypeOK
<1>6. CallSound(c)'
  BY <1>0, <1>2, <1>3, <1>4 DEF CallSound, Redemptions
<1> QED
  BY <1>3, <1>4, <1>5, <1>6, GateStep

LEMMA ReactInvariant ==
  ASSUME IInv, NEW c \in Calls, React(c)
  PROVE  IInv'
<1> DEFINE s == Reaction(call[c].gate, call[c].ans)
           d == [call[c] EXCEPT !.step = s]
<1>0. TypeOK /\ CallSound(c) /\ call[c].gate \in Gates
  BY DEF IInv, TypeOK
<1>1. call[c].step = "answered" /\ call[c].ans \in Answers /\ runs[c] = {} /\ c \notin spent
  BY <1>0 DEF React, CallSound
<1>2. s \in Steps /\ s \notin {"start", "asked", "answered"}
  BY <1>0, <1>1, ReactionMeans DEF Steps
<1>3. d \in CallRecord /\ d.step = s /\ d.ans = call[c].ans /\ d.gate = call[c].gate
  BY <1>0, <1>2, GateRecord, AnswerTypes
<1>4. /\ s = "confirm" => call[c].ans.review
      /\ s = "run" => /\ call[c].ans.allowed /\ ~ call[c].ans.review
                      /\ call[c].gate \in {"vercel", "langchain", "langgraph", "express"}
                           => decision(call[c].ans) = "allow" /\ ~ call[c].ans.downgraded
  BY <1>0, <1>1, ReactionMeans
<1>5. /\ call' = [call EXCEPT ![c] = d]
      /\ runs' = IF s = "run" THEN GateRuns(c, "gate") ELSE runs
      /\ UNCHANGED <<item, spent, res>>
  BY DEF React
<1> HIDE DEF s, d
<1>6. /\ runs' \in [Calls -> SUBSET Execution]
      /\ runs'[c] = {} \/ (s = "run" /\ \E r : r.how = "gate" /\ runs'[c] = {r})
      /\ \A b \in Calls : b # c => runs'[b] = runs[b]
  <2>1. CASE s = "run"
    <3>1. runs' = GateRuns(c, "gate")
      BY <1>5, <2>1
    <3> QED
      BY <1>0, <1>1, <2>1, <3>1, GateExecution
  <2>2. CASE s # "run"
    BY <1>0, <1>1, <1>5, <2>2 DEF TypeOK
  <2> QED
    BY <2>1, <2>2
<1>7. TypeOK' /\ call'[c] = d /\ \A b \in Calls : b # c => call'[b] = call[b]
  BY <1>0, <1>3, <1>5, <1>6 DEF TypeOK, CallRecord
<1>8. CallSound(c)'
  BY <1>1, <1>2, <1>3, <1>4, <1>5, <1>6, <1>7 DEF CallSound, Redemptions
<1> QED
  BY <1>1, <1>5, <1>6, <1>7, <1>8, GateStep

LEMMA UnreachableInvariant ==
  ASSUME IInv, NEW c \in Calls, Unreachable(c)
  PROVE  IInv'
<1> DEFINE s == onUnreachable(call[c].gate)
           d == [call[c] EXCEPT !.step = s, !.ans = Unanswered]
<1>0. TypeOK /\ CallSound(c)
  BY DEF IInv
<1>1. call[c].step \in {"asked", "answered"} /\ runs[c] = {} /\ c \notin spent
  BY <1>0 DEF Unreachable, CallSound
<1>2. /\ s \in Steps /\ s \notin {"start", "asked", "answered", "confirm"}
      /\ s = "run" => call[c].gate = "strandsOpen"
  BY DEF onUnreachable, Steps
<1>3. d \in CallRecord /\ d.step = s /\ d.ans = Unanswered /\ d.gate = call[c].gate
  BY <1>0, <1>2, AnswerTypes DEF TypeOK, CallRecord
<1>4. /\ call' = [call EXCEPT ![c] = d]
      /\ runs' = IF s = "run" THEN GateRuns(c, "open") ELSE runs
      /\ UNCHANGED <<item, spent, res>>
  BY DEF Unreachable
<1> HIDE DEF s, d
<1>5. /\ runs' \in [Calls -> SUBSET Execution]
      /\ runs'[c] = {} \/ (s = "run" /\ \E r : r.how = "open" /\ runs'[c] = {r})
      /\ \A b \in Calls : b # c => runs'[b] = runs[b]
  BY <1>0, <1>1, <1>4, GateExecution DEF TypeOK
<1>6. TypeOK' /\ call'[c] = d /\ \A b \in Calls : b # c => call'[b] = call[b]
  BY <1>0, <1>3, <1>4, <1>5 DEF TypeOK, CallRecord
<1>7. CallSound(c)'
  BY <1>1, <1>2, <1>3, <1>4, <1>5, <1>6 DEF CallSound, Redemptions
<1> QED
  BY <1>1, <1>4, <1>5, <1>6, <1>7, GateStep

LEMMA ConfirmInvariant ==
  ASSUME IInv, NEW c \in Calls, Confirm(c)
  PROVE  IInv'
<1>0. TypeOK /\ CallSound(c)
  BY DEF IInv
<1>1. call[c].step = "confirm" /\ call[c].ans.review /\ c \notin spent
  BY <1>0 DEF Confirm, CallSound
<1>2. PICK yes \in BOOLEAN :
         /\ call' = [call EXCEPT ![c].step = IF yes THEN "run" ELSE "refuse"]
         /\ runs' = IF yes THEN GateRuns(c, "confirm") ELSE runs
  BY DEF Confirm
<1> DEFINE s == IF yes THEN "run" ELSE "refuse"
           d == [call[c] EXCEPT !.step = s]
<1>3. s \in Steps /\ s \notin {"start", "asked", "answered", "confirm"}
  BY DEF Steps
<1>4. d \in CallRecord /\ d.step = s /\ d.ans = call[c].ans /\ d.gate = call[c].gate
  BY <1>0, <1>3 DEF TypeOK, CallRecord
<1>5. call' = [call EXCEPT ![c] = d] /\ UNCHANGED <<item, spent, res>>
  BY <1>2 DEF Confirm
<1> HIDE DEF s, d
<1>6. /\ runs' \in [Calls -> SUBSET Execution]
      /\ runs'[c] = runs[c] \/ (\E r : r.how = "confirm" /\ runs'[c] = runs[c] \cup {r})
      /\ \A b \in Calls : b # c => runs'[b] = runs[b]
  BY <1>0, <1>2, GateExecution DEF TypeOK
<1>7. TypeOK' /\ call'[c] = d /\ \A b \in Calls : b # c => call'[b] = call[b]
  BY <1>0, <1>4, <1>5, <1>6 DEF TypeOK, CallRecord
<1>8. CallSound(c)'
  BY <1>0, <1>1, <1>3, <1>4, <1>5, <1>6, <1>7 DEF CallSound, Redemptions
<1> QED
  BY <1>1, <1>5, <1>6, <1>7, <1>8, GateStep

---------------------------------------------------------------------------
(* The queue and the resumers                                              *)

\* A decision is made on a waiting item, whose approval is not spent; an
\* approval that was spent can still lapse.
LEMMA QueueStep ==
  ASSUME IInv, NEW c \in Calls, NEW s \in {"approved", "denied", "expired", "lapsed"},
         item[c] = "pending" \/ s = "lapsed", item' = [item EXCEPT ![c] = s],
         UNCHANGED <<call, spent, runs, res>>
  PROVE  IInv'
<1>1. TypeOK'
  BY DEF IInv, TypeOK
<1>2. ASSUME NEW b \in Calls PROVE CallSound(b)'
  <2>1. CallSound(b) /\ item'[b] = (IF b = c THEN s ELSE item[b])
    BY DEF IInv, TypeOK
  <2>2. item'[b] = item[b] \/ b \notin spent \/ item'[b] = "lapsed"
    BY <2>1 DEF CallSound
  <2> QED
    BY <2>1, <2>2, CallFrame
<1>3. \A w \in Resumers : ResumerSound(w)'
  BY ResumerFrame DEF IInv
<1> QED
  BY <1>1, <1>2, <1>3 DEF IInv, OneGrant, Granted

LEMMA ResumeInvariant ==
  ASSUME IInv, NEW w \in Resumers, NEW c \in Calls, NEW req \in {"asked", "altered"},
         NEW t \in Timeouts, waitForApproval(w, c, req, t)
  PROVE  IInv'
<1>1. /\ res[w] \in Resumption /\ res[w].count < MaxResumes /\ t \in Nat
      /\ call[c].step = "hold" /\ UNCHANGED <<call, item, spent, runs>>
  BY GuardAssumption DEF IInv, TypeOK, waitForApproval
<1>2. res[w].count + 1 \in 0..MaxResumes
  BY <1>1, GuardAssumption DEF Resumption
<1>3. CASE t = 0
  <2> DEFINE r == Resumer("get", c, req, res[w].count + 1)
  <2>1. Resuming(w, r)
    BY <1>3 DEF waitForApproval
  <2>2. /\ r \in Resumption /\ r.step = "get" /\ r.on = c
        /\ r.elapsed = 0 /\ r.timeout = 0
    BY <1>2, NewResumer
  <2> HIDE DEF r
  <2>3. r.elapsed <= r.timeout + Headroom + 1
    BY <2>2, GuardAssumption
  <2> QED
    BY <1>1, <2>1, <2>2, <2>3, ResumerStep
<1>4. CASE t # 0
  <2>1. PICK j \in {0, 1} :
           Resuming(w, [Resumer("poll", c, req, res[w].count + 1)
                          EXCEPT !.timeout = t, !.pollMs = pollMs(t, j)])
    BY <1>4 DEF waitForApproval
  <2> DEFINE r == Resumer("poll", c, req, res[w].count + 1)
             q == [r EXCEPT !.timeout = t, !.pollMs = pollMs(t, j)]
  <2>2. r \in Resumption /\ r.step = "poll" /\ r.on = c /\ r.elapsed = 0
    BY <1>2, NewResumer
  <2>3. pollMs(t, j) \in 0..PollCap
    BY <1>1, PollFits
  <2> HIDE DEF r
  <2>4. q \in Resumption /\ q.step = "poll" /\ q.on = c /\ q.elapsed = 0 /\ q.timeout = t
    BY <1>1, <2>2, <2>3 DEF Resumption
  <2>5. Resuming(w, q)
    BY <2>1 DEF r
  <2> HIDE DEF q
  <2> QED
    BY <1>1, <2>4, <2>5, ResumerStep, GuardAssumption
<1> QED
  BY <1>3, <1>4

\* A resumption that goes on without the poll, or ends.
LEMMA LeaveInvariant ==
  ASSUME IInv, NEW w \in Resumers, NEW step \in {"redeem", "ended", "threw"},
         res[w].step \in {"get", "poll", "redeem", "replied"},
         UNCHANGED <<call, item, spent, runs>>,
         \/ Resuming(w, Leave(res[w], step))
         \/ \E lost \in BOOLEAN : Resuming(w, Throw(res[w], lost))
  PROVE  IInv'
<1>1. res[w] \in Resumption /\ call[res[w].on].step = "hold"
  BY DEF IInv, TypeOK, ResumerSound
<1>2. CASE Resuming(w, Leave(res[w], step))
  <2>1. /\ Leave(res[w], step) \in Resumption
        /\ Leave(res[w], step).step = step /\ Leave(res[w], step).on = res[w].on
        /\ Leave(res[w], step).elapsed = 0 /\ Leave(res[w], step).timeout = 0
    BY <1>1, Leaving
  <2> QED
    BY <1>1, <1>2, <2>1, ResumerStep, GuardAssumption
<1>3. ASSUME NEW lost \in BOOLEAN, Resuming(w, Throw(res[w], lost)) PROVE IInv'
  BY <1>1, <1>3, Throwing, ResumerStep, GuardAssumption
<1> QED
  BY <1>2, <1>3

LEMMA PollInvariant ==
  ASSUME IInv, NEW w \in Resumers,
         handleQueueGet(w) \/ handleQueueWait(w) \/ Abort(w) \/ RedeemLost(w)
  PROVE  IInv'
<1>1. Resolved(res[w]) = Leave(res[w], "redeem") \/ Resolved(res[w]) = Leave(res[w], "ended")
  BY DEF Resolved
<1>2. /\ UNCHANGED <<call, item, spent, runs>>
      /\ res[w].step \in {"get", "poll", "redeem", "replied"}
      /\ \/ Resuming(w, Resolved(res[w]))
         \/ \E lost \in BOOLEAN : Resuming(w, Throw(res[w], lost))
  BY DEF handleQueueGet, handleQueueWait, Abort, RedeemLost
<1> QED
  BY <1>1, <1>2, LeaveInvariant

\* The engine grants what is not spent yet, so that there is neither another
\* grant nor an execution.
LEMMA RedeemInvariant ==
  ASSUME IInv, NEW w \in Resumers, handleQueueRedeem(w)
  PROVE  IInv'
<1> DEFINE c == res[w].on
           ok == item[c] = "approved" /\ c \notin spent /\ res[w].req = "asked"
           r == [res[w] EXCEPT !.step = "replied", !.reply = IF ok THEN "ok" ELSE "forbidden"]
<1>0. TypeOK /\ ResumerSound(w) /\ res[w] \in Resumption
  BY DEF IInv, TypeOK
<1>1. /\ res[w].step = "redeem" /\ call[res[w].on].step = "hold" /\ Resuming(w, r)
      /\ spent' = IF ok THEN spent \cup {c} ELSE spent
      /\ UNCHANGED <<call, item, runs>>
  BY <1>0 DEF handleQueueRedeem, ResumerSound
<1>2. /\ r \in Resumption /\ r.step = "replied" /\ r.on = res[w].on /\ r.req = res[w].req
      /\ r.reply = (IF ok THEN "ok" ELSE "forbidden")
      /\ r.elapsed <= r.timeout + Headroom + 1
  BY <1>0 DEF TypeOK, Resumption
<1> HIDE DEF r
<1>3. CASE ~ ok
  BY <1>1, <1>2, <1>3, ResumerStep
<1>4. CASE ok
  <2>0. PICK b \in Calls : b = res[w].on
    BY <1>0 DEF Resumption
  <2>1. /\ b \notin spent /\ spent' = spent \cup {b} /\ item[b] = "approved"
        /\ call[b].step = "hold" /\ r.req = "asked" /\ r.on = b
    BY <1>1, <1>2, <1>4, <2>0
  <2>2. res'[w] = r /\ \A x \in Resumers : x # w => res'[x] = res[x]
    BY <1>0, <1>1 DEF TypeOK, Resuming
  <2>3. TypeOK'
    <3>1. res' \in [Resumers -> Resumption]
      BY <1>0, <1>1, <1>2 DEF TypeOK, Resuming
    <3> QED
      BY <1>0, <1>1, <1>2, <2>1, <2>2, <3>1 DEF TypeOK
  <2>4. CallSound(b) /\ Redemptions(b) = {}
    BY <2>1 DEF IInv, CallSound, Redemptions
  <2>5. CallSound(b)'
    BY <1>1, <2>1, <2>4 DEF CallSound, Redemptions
  <2>6. ASSUME NEW a \in Calls PROVE CallSound(a)'
    BY <1>1, <2>1, <2>5, CallFrame DEF IInv
  <2>7. ASSUME NEW x \in Resumers, x # w PROVE ResumerSound(x)'
    BY <1>1, <2>1, <2>2, <2>7, ResumerFrame DEF IInv
  <2>8. ResumerSound(w)'
    BY <1>1, <2>1, <2>2, <2>4 DEF ResumerSound, Redemptions
  <2>9. OneGrant'
    <3>1. ASSUME NEW x \in Resumers, x # w, Granted(x)' PROVE res'[x].on # b
      BY <2>1, <2>2, <3>1 DEF IInv, ResumerSound, Granted
    <3> QED
      BY <2>1, <2>2, <3>1 DEF IInv, OneGrant, Granted
  <2> QED
    BY <2>3, <2>6, <2>7, <2>8, <2>9 DEF IInv
<1> QED
  BY <1>3, <1>4

\* A granted redemption is used: it was the only one, and nothing had run.
LEMMA UseInvariant ==
  ASSUME IInv, NEW w \in Resumers, Redeemed(w)
  PROVE  IInv'
<1>0. TypeOK /\ ResumerSound(w) /\ res[w] \in Resumption
  BY DEF IInv, TypeOK
<1>1. /\ res[w].step = "replied" /\ UNCHANGED <<call, item, spent>>
      /\ res[w].reply # "ok" => Resuming(w, Throw(res[w], FALSE)) /\ runs' = runs
      /\ res[w].reply = "ok" =>
           /\ Resuming(w, Leave(res[w], "ended"))
           /\ runs' = Runs(res[w].on, "redeemed", w, res[w].count, res[w].req)
  BY DEF Redeemed
<1>2. CASE res[w].reply # "ok"
  BY <1>1, <1>2, LeaveInvariant
<1>3. CASE res[w].reply = "ok"
  <2>1. PICK c \in Calls : c = res[w].on
    BY <1>0 DEF Resumption
  <2>2. c \in spent /\ res[w].req = "asked" /\ Redemptions(c) = {} /\ Granted(w)
    BY <1>0, <1>1, <1>3, <2>1 DEF ResumerSound, Granted
  <2> DEFINE r == Leave(res[w], "ended")
             e == [how |-> "redeemed", by |-> w, nth |-> res[w].count, req |-> "asked"]
  <2>3. r \in Resumption /\ r.step = "ended" /\ r.elapsed = 0 /\ r.timeout = 0
    BY <1>0, Leaving
  <2>4. e \in Execution /\ e.how = "redeemed" /\ e.req = "asked"
    BY <1>0 DEF Execution, Resumption
  <2>5. runs' = [runs EXCEPT ![c] = @ \cup {e}]
    BY <1>1, <1>3, <2>1, <2>2 DEF Runs
  <2>6. Resuming(w, r)
    BY <1>1, <1>3
  <2> HIDE DEF r, e
  <2>7. /\ res'[w] = r /\ \A x \in Resumers : x # w => res'[x] = res[x]
        /\ runs'[c] = runs[c] \cup {e} /\ \A b \in Calls : b # c => runs'[b] = runs[b]
    BY <1>0, <2>5, <2>6 DEF TypeOK, Resuming
  <2>8. TypeOK'
    <3>1. res' \in [Resumers -> Resumption] /\ runs' \in [Calls -> SUBSET Execution]
      BY <1>0, <2>3, <2>4, <2>5, <2>6 DEF TypeOK, Resuming
    <3> QED
      BY <1>0, <1>1, <2>3, <2>7, <3>1, GuardAssumption DEF TypeOK
  <2>9. CallSound(c)'
    <3>1. Redemptions(c)' = {e}
      BY <2>2, <2>4, <2>7 DEF Redemptions
    <3>2. CallSound(c) /\ call[c].step = "hold"
      BY <2>2 DEF IInv, CallSound
    <3> QED
      BY <1>1, <2>2, <2>4, <2>7, <3>1, <3>2 DEF CallSound
  <2>10. ASSUME NEW b \in Calls PROVE CallSound(b)'
    BY <1>1, <2>7, <2>9, CallFrame DEF IInv
  <2>11. ASSUME NEW x \in Resumers PROVE ResumerSound(x)'
    <3>1. CASE x = w
      BY <2>3, <2>7, <3>1 DEF ResumerSound, Granted
    <3>2. CASE x # w /\ res[x].on # c
      <4>1. res[x].on \in Calls
        BY <1>0 DEF TypeOK, Resumption
      <4> QED
        BY <1>1, <2>7, <3>2, <4>1, ResumerFrame DEF IInv
    <3>3. CASE x # w /\ res[x].on = c
      <4>1. ~ Granted(x)
        BY <2>1, <2>2, <3>3 DEF IInv, OneGrant
      <4> QED
        BY <1>1, <2>7, <3>3, <4>1 DEF IInv, ResumerSound, Granted
    <3> QED
      BY <3>1, <3>2, <3>3
  <2>12. OneGrant'
    BY <2>3, <2>7 DEF IInv, OneGrant, Granted
  <2> QED
    BY <2>8, <2>10, <2>11, <2>12 DEF IInv
<1> QED
  BY <1>2, <1>3

LEMMA TickInvariant == IInv /\ Tick => IInv'
<1> SUFFICES ASSUME IInv, Tick PROVE IInv'
  OBVIOUS
<1>1. UNCHANGED <<call, item, spent, runs>>
  BY DEF Tick
<1>2. ASSUME NEW w \in Resumers
      PROVE  /\ res'[w] \in Resumption /\ res'[w].elapsed <= res'[w].timeout + Headroom + 1
             /\ res'[w].step = res[w].step /\ res'[w].on = res[w].on
             /\ res'[w].req = res[w].req /\ res'[w].reply = res[w].reply
  <2>1. res[w] \in Resumption /\ res[w].elapsed <= res[w].timeout + Headroom + 1
    BY DEF IInv, TypeOK
  <2>2. CASE w \in Polling
    <3>1. res'[w] = [res[w] EXCEPT !.elapsed = res[w].elapsed + 1]
      BY <2>1, <2>2 DEF Tick, Resumption
    <3>2. res[w].elapsed <= res[w].timeout + Headroom
      BY <2>2 DEF Tick
    <3> QED
      BY <2>1, <3>1, <3>2, GuardAssumption DEF Resumption
  <2>3. CASE w \notin Polling
    BY <2>1, <2>3 DEF Tick
  <2> QED
    BY <2>2, <2>3
<1>3. TypeOK'
  <2>1. res' = [w \in Resumers |-> res'[w]]
    BY DEF Tick
  <2> QED
    BY <1>1, <1>2, <2>1 DEF IInv, TypeOK
<1>4. \A c \in Calls : CallSound(c)'
  BY <1>1, CallFrame DEF IInv
<1>5. \A w \in Resumers : ResumerSound(w)'
  BY <1>1, <1>2 DEF IInv, ResumerSound, Granted, Redemptions
<1>6. OneGrant'
  BY <1>2 DEF IInv, OneGrant, Granted
<1> QED
  BY <1>3, <1>4, <1>5, <1>6 DEF IInv

LEMMA StepInvariant == IInv /\ [Next]_vars => IInv'
<1> SUFFICES ASSUME IInv, [Next]_vars PROVE IInv'
  OBVIOUS
<1>1. ASSUME NEW c \in Calls,
             \/ AgentAuthorize(c) \/ EngineDecides(c) \/ React(c) \/ Unreachable(c) \/ Confirm(c)
      PROVE  IInv'
  BY <1>1, AskInvariant, DecideInvariant, ReactInvariant, UnreachableInvariant, ConfirmInvariant
<1>2. ASSUME NEW c \in Calls, NEW v \in {"approved", "denied"}, Resolve(c, v) PROVE IInv'
  BY <1>2, QueueStep DEF Resolve
<1>3. ASSUME NEW c \in Calls, Age(c) PROVE IInv'
  <2>1. \/ item[c] = "pending" /\ item' = [item EXCEPT ![c] = "expired"]
        \/ item' = [item EXCEPT ![c] = "lapsed"]
    BY <1>3 DEF Age, IInv, TypeOK
  <2> QED
    BY <1>3, <2>1, QueueStep DEF Age
<1>4. ASSUME NEW w \in Resumers, NEW c \in Calls, NEW req \in {"asked", "altered"},
             NEW t \in Timeouts, waitForApproval(w, c, req, t)
      PROVE  IInv'
  BY <1>4, ResumeInvariant
<1>5. ASSUME NEW w \in Resumers,
             \/ handleQueueGet(w) \/ handleQueueWait(w) \/ Abort(w)
             \/ handleQueueRedeem(w) \/ Redeemed(w) \/ RedeemLost(w)
      PROVE  IInv'
  BY <1>5, PollInvariant, RedeemInvariant, UseInvariant
<1>6. CASE UNCHANGED vars
  <2>1. /\ UNCHANGED <<call, item, spent, runs, res>> /\ TypeOK'
    BY <1>6 DEF vars, IInv, TypeOK
  <2>2. \A c \in Calls : CallSound(c)'
    BY <2>1, CallFrame DEF IInv
  <2>3. \A w \in Resumers : ResumerSound(w)'
    BY <2>1, ResumerFrame DEF IInv
  <2> QED
    BY <2>1, <2>2, <2>3 DEF IInv, OneGrant, Granted
<1> QED
  BY <1>1, <1>2, <1>3, <1>4, <1>5, <1>6, TickInvariant DEF Next

LEMMA Invariance == Spec => []IInv
BY InitInvariant, StepInvariant, PTL DEF Spec

---------------------------------------------------------------------------
(* The theorems                                                            *)

\* Every variable keeps its type, and no poll outlives its own timer
\* (hardTimer in waitForApproval) by more than a tick.
THEOREM TypeCorrect == Spec => []TypeOK
<1>1. IInv => TypeOK
  BY DEF IInv
<1> QED
  BY <1>1, Invariance, PTL

\* A tool runs on its gate's own account only when the answer of the engine
\* grants it, when the gate was told to fail open, or when a human confirmed
\* (secureTool, SecureTool, secureNode, leluAuthorize, decide,
\* agentDecisionStatus).
THEOREM OnlyAsAnswered == Spec => []RunsAsAnswered
<1>1. IInv => RunsAsAnswered
  BY DEF IInv, RunsAsAnswered, RunIsGranted, CleanAllowOnly, CallSound
<1> QED
  BY <1>1, Invariance, PTL

\* One approval lets one execution through, of the request the reviewer saw,
\* however many resumers there are and whatever replies are lost
\* (waitAndRedeem, handleQueueRedeem).
THEOREM OneExecution == Spec => []RedemptionSound
<1>1. ASSUME IInv, NEW c \in Calls PROVE Cardinality(Redemptions(c)) <= 1
  <2>1. \A r, q \in Redemptions(c) : r = q
    BY <1>1 DEF IInv, CallSound
  <2>2. CASE Redemptions(c) = {}
    BY <2>2, FS_EmptySet
  <2>3. CASE Redemptions(c) # {}
    <3>1. PICK r : Redemptions(c) = {r}
      BY <2>1, <2>3
    <3> QED
      BY <3>1, FS_Singleton
  <2> QED
    BY <2>2, <2>3
<1>2. IInv => SpentOnce
  BY <1>1 DEF SpentOnce, Redemptions
<1>3. IInv => ApprovalBinds
  BY DEF IInv, ApprovalBinds, CallSound
<1>4. IInv => RedemptionSound
  BY <1>2, <1>3 DEF RedemptionSound
<1> QED
  BY <1>4, Invariance, PTL
==========================================================================
