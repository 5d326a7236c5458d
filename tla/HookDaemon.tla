----------------------------- MODULE HookDaemon -----------------------------
(***************************************************************************)
(* The Claude Code plugin (plugin-claude-code/daemon): a hook process per  *)
(* tool call asks the machine's daemon over a unix socket, and starts one  *)
(* when nobody listens.  A daemon answers each connection in a goroutine   *)
(* of its own.  Reads of files and lock sections are steps; a wait for a   *)
(* lock is too short to count against the window of the loop check, so the *)
(* clock is read in the same step.  All calls are of one session: nothing  *)
(* a daemon remembers is shared between sessions.                          *)
(***************************************************************************)
EXTENDS Naturals, FiniteSets

CONSTANTS Hooks,            \* hook processes at a time
          Daemons,          \* daemon processes
          Requests,         \* tool calls: LoopKey, Tier 1's and hookify's outcome
          NoKey,            \* the LoopKey of a tool that has none
          RepeatThreshold, WindowSeconds,
          MaxCalls, Horizon,  \* bounds: tool calls, the clock
          None

VARIABLES socket,   \* daemon.sock: the daemon that bound it last, None when there is no file
          daemon,   \* the processes, each with its loop history and session flag
          hook,     \* the hooks, each with the goroutine that serves it
          mode,     \* the mode file
          now,
          passed,   \* history: the events of calls the loop check of each living daemon let through
          prompted, \* history: living daemons that asked because of the session budget
          calls     \* tool calls so far (for the bound)

vars == <<socket, daemon, hook, mode, now, passed, prompted, calls>>

Severity == [allow |-> 0, ask |-> 1, deny |-> 2]   \* severityRank
Stricter(a, b) == IF Severity[b] > Severity[a] THEN b ELSE a

Idle == [at |-> "idle", req |-> None, to |-> None, spawned |-> FALSE, pc |-> "none",
         shadow |-> FALSE, real |-> "allow", rule |-> "tier1", late |-> FALSE,
         entry |-> None, told |-> "nothing"]
Unborn == [at |-> "unborn", history |-> {}, flagged |-> FALSE]

Init ==
  /\ \/ socket = None /\ daemon = [d \in Daemons |-> Unborn]
     \/ \E d \in Daemons :   \* install.sh started one
          socket = d /\ daemon = [[x \in Daemons |-> Unborn] EXCEPT ![d].at = "serving"]
  /\ hook = [h \in Hooks |-> Idle]
  /\ mode \in {"shadow", "enforce"}
  /\ now = 0 /\ calls = 0
  /\ passed = [d \in Daemons |-> {}] /\ prompted = {}

---------------------------------------------------------------------------
(* The hook (cmd/lelu-hook).                                               *)

\* Claude Code is about to run a tool.  A slot holds the call until its hook
\* and the goroutine that serves it have both ended.
PreToolUse(h, req) ==
  /\ hook[h].at \in {"idle", "told"}
  /\ calls < MaxCalls /\ calls' = calls + 1
  /\ hook' = [hook EXCEPT ![h] = [Idle EXCEPT !.at = "dial", !.req = req]]
  /\ UNCHANGED <<socket, daemon, mode, now, passed, prompted>>

Listening == socket # None /\ daemon[socket].at = "serving"

\* dialOnce finds a listener; the goroutine of handleConn starts with it.
Dial(h) ==
  /\ hook[h].at = "dial" /\ Listening
  /\ hook' = [hook EXCEPT ![h].at = "waiting", ![h].to = socket, ![h].spawned = FALSE, ![h].pc = "mode",
                          ![h].late = socket \in prompted]
  /\ UNCHANGED <<socket, daemon, mode, now, passed, prompted, calls>>

\* ENOENT or ECONNREFUSED.  The first time spawnDaemon starts a process,
\* unless there is no binary or no log file; the second time askDaemon fails.
DialRefused(h) ==
  /\ hook[h].at = "dial" /\ ~ Listening
  /\ IF hook[h].spawned
     THEN hook' = [hook EXCEPT ![h] = Idle] /\ UNCHANGED daemon
     ELSE /\ hook' = [hook EXCEPT ![h].spawned = TRUE]
          /\ \/ UNCHANGED daemon
             \/ \E d \in Daemons : /\ daemon[d].at = "unborn"
                                   /\ daemon' = [daemon EXCEPT ![d].at = "starting"]
  /\ UNCHANGED <<socket, mode, now, passed, prompted, calls>>

\* dialTimeout or roundTripTimeout passes: the call goes unchecked, a goroutine
\* that serves it goes on.
GiveUp(h) ==
  /\ hook[h].at \in {"dial", "waiting"}
  /\ hook' = [hook EXCEPT ![h] = IF @.at = "dial" THEN Idle ELSE [@ EXCEPT !.at = "gone"]]
  /\ UNCHANGED <<socket, daemon, mode, now, passed, prompted, calls>>

---------------------------------------------------------------------------
(* The daemon's life (cmd/lelu-daemon).                                    *)

\* os.Remove of the socket, whoever bound it.
RemoveSocket(d) ==
  /\ daemon[d].at = "starting"
  /\ socket' = None
  /\ daemon' = [daemon EXCEPT ![d].at = "removed"]
  /\ UNCHANGED <<hook, mode, now, passed, prompted, calls>>

\* net.Listen, fatal when another daemon bound the path since.
Listen(d) ==
  /\ daemon[d].at = "removed"
  /\ IF socket = None
     THEN socket' = d /\ daemon' = [daemon EXCEPT ![d].at = "serving"]
     ELSE daemon' = [daemon EXCEPT ![d].at = "dead"] /\ UNCHANGED socket
  /\ UNCHANGED <<hook, mode, now, passed, prompted, calls>>

\* A daemon dies; the socket file stays, its connections break.
Die(d) ==
  /\ daemon[d].at \in {"starting", "removed", "serving"}
  /\ daemon' = [daemon EXCEPT ![d] = [Unborn EXCEPT !.at = "dead"]]
  /\ passed' = [passed EXCEPT ![d] = {}] /\ prompted' = prompted \ {d}
  /\ hook' = [h \in Hooks |->
       IF hook[h].at \in {"waiting", "gone"} /\ hook[h].to = d THEN Idle ELSE hook[h]]
  /\ UNCHANGED <<socket, mode, now, calls>>

---------------------------------------------------------------------------
(* A request in the daemon (Engine.Decide).                                *)

Goto(h, rec) == hook' = [hook EXCEPT ![h] = rec]
Ask(h, pc, rule) == [hook[h] EXCEPT !.pc = pc, !.real = "ask", !.rule = rule]

\* ShadowMode is read once, before decideReal takes the stricter of Tier 1 and
\* hookify; only an allow meets the loop and budget checks.
decideReal_Tier1First(req) == IF req.tier1 = "allow" THEN req.hookify ELSE req.tier1
decideReal(req) == Stricter(req.tier1, req.hookify)
Decide(h) ==
  LET real == decideReal(hook[h].req) IN
  /\ hook[h].pc = "mode"
  /\ Goto(h, [hook[h] EXCEPT !.shadow = mode # "enforce", !.real = real,
                             !.pc = IF real = "allow" THEN "loop" ELSE "record"])
  /\ UNCHANGED <<socket, daemon, mode, now, passed, prompted, calls>>

\* LoopTracker.Check: drop what has left the window, add the call, count.  The
\* order of the history does not matter, so it is a set; events of one key and
\* one time are told apart by their rank.
Kept_Early(d) == {e \in daemon[d].history : e.ts + WindowSeconds > now + 1}
Kept(d) == {e \in daemon[d].history : e.ts + WindowSeconds > now}
Event(d, key) ==
  [key |-> key, ts |-> now,
   rank |-> Cardinality({e \in daemon[d].history : e.key = key /\ e.ts = now})]
Of(events, key) == {e \in events : e.key = key}
Check(h) ==
  LET d == hook[h].to
      key == hook[h].req.key
      event == Event(d, key)
      kept == Kept(d) \cup {event}
      isLoop == key # NoKey /\ Cardinality(Of(kept, key)) >= RepeatThreshold
  IN
  /\ hook[h].pc = "loop"
  /\ daemon' = IF key = NoKey THEN daemon ELSE [daemon EXCEPT ![d].history = kept]
  /\ Goto(h, IF isLoop THEN Ask(h, "record", "loop") ELSE [hook[h] EXCEPT !.pc = "budget"])
  /\ passed' = IF key = NoKey \/ isLoop THEN passed ELSE [passed EXCEPT ![d] = @ \cup {event}]
  /\ UNCHANGED <<socket, mode, now, prompted, calls>>

\* EvaluateSessionBudget: the flag in one lock section; then the transcript,
\* which is long and live or not.
Flagged_Never(h) == FALSE
Flagged(h) == daemon[hook[h].to].flagged
Budget(h) ==
  /\ hook[h].pc = "budget"
  /\ \E exceeded \in BOOLEAN :
       /\ exceeded => ~ Flagged(h)
       /\ Goto(h, [hook[h] EXCEPT !.pc = IF exceeded THEN "flag" ELSE "record"])
  /\ UNCHANGED <<socket, daemon, mode, now, passed, prompted, calls>>

\* The flag is raised in a second one.
Flag(h) ==
  /\ hook[h].pc = "flag"
  /\ daemon' = [daemon EXCEPT ![hook[h].to].flagged = TRUE]
  /\ Goto(h, Ask(h, "record", "budget"))
  /\ prompted' = prompted \cup {hook[h].to}
  /\ UNCHANGED <<socket, mode, now, passed, calls>>

\* The rest of Decide: Ledger.Record, whose error would be ignored, and
\* writeResponse; then decisionFor in the hook.  An allow and a shadowed decision
\* both leave Claude Code's permission flow alone.
Shadowed_Reread(h) == mode # "enforce"
Shadowed(h) == hook[h].shadow
Told(h, real, shadow, entry) ==
  Goto(h, IF hook[h].at = "gone" THEN Idle
          ELSE [Idle EXCEPT !.at = "told", !.req = hook[h].req, !.entry = entry,
                  !.rule = hook[h].rule, !.late = hook[h].late,
                  !.told = IF shadow \/ real = "allow" THEN "nothing" ELSE real])
Reply(h) ==
  /\ hook[h].pc = "record"
  /\ Told(h, hook[h].real, Shadowed(h), [outcome |-> hook[h].real, shadow |-> hook[h].shadow])
  /\ UNCHANGED <<socket, daemon, mode, now, passed, prompted, calls>>

\* handleConn recovers from a panic of Decide with "ask", by the mode as it is
\* now; nothing is recorded.
Panic(h) ==
  /\ hook[h].pc = "mode"
  /\ Told(h, "ask", mode # "enforce", None)
  /\ UNCHANGED <<socket, daemon, mode, now, passed, prompted, calls>>

\* /lelu enforce and its opposite.
FlipMode ==
  /\ mode' = IF mode = "shadow" THEN "enforce" ELSE "shadow"
  /\ UNCHANGED <<socket, daemon, hook, now, passed, prompted, calls>>
Tick ==
  /\ now < Horizon /\ now' = now + 1
  /\ UNCHANGED <<socket, daemon, hook, mode, passed, prompted, calls>>

Serve(h) == Decide(h) \/ Panic(h) \/ Check(h) \/ Budget(h) \/ Flag(h) \/ Reply(h)
Next ==
  \/ \E h \in Hooks : \/ \E req \in Requests : PreToolUse(h, req)
                      \/ Dial(h) \/ DialRefused(h) \/ GiveUp(h) \/ Serve(h)
  \/ \E d \in Daemons : RemoveSocket(d) \/ Listen(d) \/ Die(d)
  \/ FlipMode \/ Tick

Spec == Init /\ [][Next]_vars
---------------------------------------------------------------------------

\* Every variable has its type; the socket leads to a process that once served.
TypeOK ==
  /\ socket \in Daemons \cup {None}
  /\ socket # None => daemon[socket].at \in {"serving", "dead"}
  /\ \A d \in Daemons :
       /\ daemon[d].at \in {"unborn", "starting", "removed", "serving", "dead"}
       /\ daemon[d].flagged \in BOOLEAN
  /\ \A h \in Hooks :
       /\ hook[h].at \in {"idle", "dial", "waiting", "gone", "told"}
       /\ hook[h].pc \in {"none", "mode", "loop", "budget", "flag", "record"}
       /\ hook[h].pc # "none" => daemon[hook[h].to].at = "serving"
       /\ hook[h].told \in {"nothing", "ask", "deny"}
  /\ mode \in {"shadow", "enforce"} /\ now \in 0..Horizon /\ calls \in 0..MaxCalls

\* Loop detection (LoopTracker.Check): of any RepeatThreshold calls of one
\* action that a daemon decides within a window, one is sent to a human, in
\* whatever order their goroutines reach it.
LoopsMet ==
  \A d \in Daemons, key \in {r.key : r \in Requests} \ {NoKey}, t \in 0..Horizon :
    Cardinality({e \in Of(passed[d], key) : e.ts \in t..(t + WindowSeconds - 1)})
      < RepeatThreshold

\* The session budget (EvaluateSessionBudget: "one review prompt instead of one
\* on every single subsequent tool call"): a call that began after its daemon
\* prompted is not stopped for the budget again.
PromptedOnce == \A h \in Hooks : hook[h].rule = "budget" => ~ hook[h].late

\* Decide: what Claude Code is told is what the ledger records, the decision
\* and whether it was enforced, however the mode changes meanwhile; and it is
\* as strict as Tier 1 and hookify where it is enforced.
ToldAsLogged ==
  \A h \in Hooks : hook[h].at = "told" /\ hook[h].entry # None =>
    LET e == hook[h].entry
        told == IF hook[h].told = "nothing" THEN "allow" ELSE hook[h].told IN
    /\ told = IF e.shadow THEN "allow" ELSE e.outcome
    /\ ~ e.shadow => \A o \in {hook[h].req.tier1, hook[h].req.hookify} :
                      Severity[o] <= Severity[told]
=============================================================================
