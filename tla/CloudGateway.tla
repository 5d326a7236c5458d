---------------------------- MODULE CloudGateway ----------------------------
(***************************************************************************)
(* The hosted authorize API and what it is billed by: API keys             *)
(* (lib/apikeys.ts), the monthly quota (lib/quota.ts), the proxy to the    *)
(* engine (app/api/v1/authorize), the audit rows usage is counted from     *)
(* (lib/audit.ts).  A handler's awaits are its steps: plan and usage are   *)
(* two queries sent together, and the row of a call is written after its   *)
(* answer and not waited for.                                              *)
(***************************************************************************)
EXTENDS Naturals, Sequences, FiniteSets, FiniteSetsExt

CONSTANTS Users, Keys,
          Calls,       \* handlers of /v1/authorize that run at the same time
          PlanLimit,   \* PLAN_LIMITS: calls a month, by plan
          MaxCalls,    \* bound: calls forwarded in a month
          MaxSandbox,  \* bound: sandbox rows
          None

Plans == {"free", "paid"}

VARIABLES plan,      \* lelu_users.plan
          keys,      \* lelu_api_keys
          rows,      \* lelu_audit_events of this month: live ones by user, sandbox ones
          pending,   \* logAuditEvent calls not yet done
          calls,     \* the handlers
          sent,      \* history: calls of the month sent to the engine
          lost,      \* history: those that will never have a row
          peak,      \* history: most calls of the month checked and without a row
          best       \* history: best plan a call of the month was checked against

vars == <<plan, keys, rows, pending, calls, sent, lost, peak, best>>
quota == <<rows, pending, calls, sent, lost, peak, best>>

Key == [owner : Users \cup {None}, state : {"unborn", "live", "revoked", "expired"},
        expires : BOOLEAN]
Call == [at : {"idle", "touch", "check", "engine"}, user : Users \cup {None},
         plan : Plans \cup {None}, used : 0..MaxCalls \cup {None}]
Idle == [at |-> "idle", user |-> None, plan |-> None, used |-> None]

TypeOK ==
    /\ plan \in [Users -> Plans]
    /\ keys \in [Keys -> Key]
    /\ rows \in [Users \cup {None} -> Nat] /\ pending \in [Users \cup {None} -> Nat]
    /\ calls \in [Calls -> Call]
    /\ sent \in [Users -> 0..MaxCalls] /\ lost \in [Users -> 0..MaxCalls]
    /\ peak \in [Users -> Nat] /\ best \in [Users -> Plans]

Init ==
    /\ plan = [u \in Users |-> "free"]
    /\ keys = [k \in Keys |-> [owner |-> None, state |-> "unborn", expires |-> FALSE]]
    /\ rows = [u \in Users \cup {None} |-> 0] /\ pending = rows
    /\ calls = [c \in Calls |-> Idle]
    /\ sent = [u \in Users |-> 0] /\ lost = sent /\ peak = sent
    /\ best = plan

-----------------------------------------------------------------------------
(* API keys: POST /dashboard/keys and /v1/keys, DELETE /dashboard/keys/id. *)

createApiKey(u, k, expires) ==
    /\ keys[k].state = "unborn"
    /\ keys' = [keys EXCEPT ![k] = [owner |-> u, state |-> "live", expires |-> expires]]
    /\ UNCHANGED <<quota, plan>>

\* The route answers ok whether or not the UPDATE matched a row.
revokeApiKey(u, k) ==
    /\ keys[k].owner = u /\ keys[k].state \in {"live", "expired"}
    /\ keys' = [keys EXCEPT ![k].state = "revoked"]
    /\ UNCHANGED <<quota, plan>>

KeyExpires(k) ==
    /\ keys[k].state = "live" /\ keys[k].expires
    /\ keys' = [keys EXCEPT ![k].state = "expired"]
    /\ UNCHANGED <<quota, plan>>

-----------------------------------------------------------------------------
(* POST /v1/authorize with a live key.                                     *)

\* validateApiKey: the SELECT; its UPDATE of last_used_at follows.
validateApiKey(c) == \E k \in Keys :
    /\ calls[c] = Idle
    /\ keys[k].state = "live"                                 \* otherwise 401
    /\ calls' = [calls EXCEPT ![c] = [Idle EXCEPT !.at = "touch", !.user = keys[k].owner]]
    /\ UNCHANGED <<keys, rows, pending, sent, lost, peak, best, plan>>

Touch(c) ==
    /\ calls[c].at = "touch"
    /\ \/ calls' = [calls EXCEPT ![c].at = "check"]
       \/ calls' = [calls EXCEPT ![c] = Idle]                 \* 500, or a bad body: 400
    /\ UNCHANGED <<keys, rows, pending, sent, lost, peak, best, plan>>

\* Calls of u that were checked and have no row (yet, or ever).
Unrecorded(u) ==
    Cardinality({c \in Calls : calls[c].user = u /\ calls[c].used # None})
    + pending[u] + lost[u]

limitForPlan(p) == PlanLimit[p]
Better(p, q) == IF limitForPlan(p) < limitForPlan(q) THEN q ELSE p

\* checkQuota: the two queries of Promise.all, in either order.
getUserPlan(c) ==
    LET u == calls[c].user IN
    /\ calls[c].at = "check" /\ calls[c].plan = None
    /\ calls' = [calls EXCEPT ![c].plan = plan[u]]
    /\ best' = [best EXCEPT ![u] = Better(@, plan[u])]
    /\ UNCHANGED <<keys, rows, pending, sent, lost, peak, plan>>

getMonthlyUsage(c) ==
    LET u == calls[c].user IN
    /\ calls[c].at = "check" /\ calls[c].used = None
    /\ calls' = [calls EXCEPT ![c].used = rows[u]]
    /\ peak' = [peak EXCEPT ![u] = Max({@, Unrecorded(u) + 1})]
    /\ UNCHANGED <<keys, rows, pending, sent, lost, best, plan>>

checkQuota_Inclusive(q) == q.used <= limitForPlan(q.plan)
checkQuota(q) == q.used < limitForPlan(q.plan)

\* 429, or the request goes to the engine.
Forward(c) ==
    LET q == calls[c]
        u == q.user
    IN
    /\ q.at = "check" /\ q.plan # None /\ q.used # None
    /\ IF checkQuota(q)
       THEN /\ sent[u] < MaxCalls
            /\ calls' = [calls EXCEPT ![c].at = "engine"]
            /\ sent' = [sent EXCEPT ![u] = @ + 1]
       ELSE calls' = [calls EXCEPT ![c] = Idle] /\ UNCHANGED sent
    /\ UNCHANGED <<keys, rows, pending, lost, peak, best, plan>>

\* An answer is logged in the background; a timeout (503) or an unreadable
\* answer (502) is not logged at all.
EngineAnswers(c) ==
    LET u == calls[c].user IN
    /\ calls[c].at = "engine"
    /\ calls' = [calls EXCEPT ![c] = Idle]
    /\ \/ pending' = [pending EXCEPT ![u] = @ + 1] /\ UNCHANGED lost
       \/ lost' = [lost EXCEPT ![u] = @ + 1] /\ UNCHANGED pending
    /\ UNCHANGED <<keys, rows, sent, peak, best, plan>>

\* A call with a sandbox key is decided by the demo rules and logged without a
\* user.
SandboxCall ==
    /\ pending[None] + rows[None] < MaxSandbox
    /\ pending' = [pending EXCEPT ![None] = @ + 1]
    /\ UNCHANGED <<keys, rows, calls, sent, lost, peak, best, plan>>

logAuditEvent_AnyUser(u) ==
    /\ pending[u] > 0
    /\ pending' = [pending EXCEPT ![u] = @ - 1]
    /\ \E v \in Users \cup {None} : rows' = [rows EXCEPT ![v] = @ + 1]
    /\ UNCHANGED <<keys, calls, sent, lost, peak, best, plan>>

\* The INSERT; its failure is swallowed.
logAuditEvent(u) ==
    /\ pending[u] > 0
    /\ pending' = [pending EXCEPT ![u] = @ - 1]
    /\ \/ rows' = [rows EXCEPT ![u] = @ + 1] /\ UNCHANGED lost
       \/ /\ u \in Users /\ lost' = [lost EXCEPT ![u] = @ + 1]
          /\ UNCHANGED rows
       \/ u = None /\ UNCHANGED <<rows, lost>>
    /\ UNCHANGED <<keys, calls, sent, peak, best, plan>>

\* date_trunc('month', NOW()) moves on: the rows of the old month are out of
\* every later count.
NewMonth ==
    LET Flying(u) == Cardinality({c \in Calls : calls[c].user = u /\ calls[c].at = "engine"})
        Held(u) == {calls[c].plan : c \in {d \in Calls : calls[d].user = u}} \ {None}
    IN
    /\ \E u \in Users : sent[u] > 0
    /\ rows' = [u \in Users \cup {None} |-> 0]
    /\ sent' = [u \in Users |-> Flying(u) + pending[u]]
    /\ lost' = [u \in Users |-> 0]
    /\ peak' = [u \in Users |-> Unrecorded(u) - lost[u]]
    /\ best' = [u \in Users |-> IF "paid" \in Held(u) THEN "paid" ELSE plan[u]]
    /\ UNCHANGED <<keys, pending, calls, plan>>

\* A webhook sets the plan while calls are in flight (module Billing).
PlanChanges(u) ==
    /\ plan' = [plan EXCEPT ![u] = IF @ = "free" THEN "paid" ELSE "free"]
    /\ UNCHANGED <<keys, quota>>

-----------------------------------------------------------------------------
Next ==
    \/ \E u \in Users, k \in Keys :
         revokeApiKey(u, k) \/ \E x \in BOOLEAN : createApiKey(u, k, x)
    \/ \E k \in Keys : KeyExpires(k)
    \/ \E c \in Calls : \/ validateApiKey(c) \/ Touch(c) \/ getUserPlan(c)
                        \/ getMonthlyUsage(c) \/ Forward(c) \/ EngineAnswers(c)
    \/ SandboxCall \/ NewMonth
    \/ \E u \in Users \cup {None} : logAuditEvent(u)
    \/ \E u \in Users : PlanChanges(u)

Spec == Init /\ [][Next]_vars
-----------------------------------------------------------------------------
\* The calls of a month that reach the engine exceed the plan's limit by fewer
\* than the calls that were checked and not yet recorded at one time: exactly
\* the limit when every call is logged before the next, more when calls overlap
\* or their rows are late or lost (checkQuota, `void logAuditEvent`).
OvershootBounded ==
    \A u \in Users : sent[u] <= limitForPlan(best[u]) + Max({peak[u], 1}) - 1

\* Every call sent to the engine this month is in flight, waiting to be
\* logged, recorded, or known lost: usage is never counted twice and a sandbox
\* call never counts (v1/authorize, logAuditEvent, getMonthlyUsage).
UsageAccounted ==
    \A u \in Users :
        sent[u] = rows[u] + pending[u] + lost[u]
                  + Cardinality({c \in Calls : calls[c].user = u /\ calls[c].at = "engine"})
=============================================================================
