---------------------------- MODULE MCHeldCalls ----------------------------
(* A held tool call on a small instance, at both ends: a behaviour is one of *)
(*   "guard"  the call behind an SDK gate, and whoever resumes it,           *)
(*   "redis"  reviewers resolving it over Redis while nothing fails.         *)
(* Only the chosen part moves; both are checked for progress.                *)
EXTENDS ToolGuard

CONSTANTS i1, NoItem, Unbound

VARIABLES part, rFaults, rNow, rPayload, rIndex, rResolveLock, rRedeemLock, rCall, rHist

redisVars == <<rFaults, rNow, rPayload, rIndex, rResolveLock, rRedeemLock, rCall, rHist>>
allVars == <<part, vars, redisVars>>

AllGates == {"vercel", "langchain", "langgraph", "express",
             "strands", "strandsDeny", "strandsOpen", "mcp"}

\* One item and three callers, so that a claim can be lost twice.
Redis == INSTANCE RedisReviewQueue
           WITH Items <- {i1}, Callers <- {"c1", "c2", "c3"}, Prints <- {"p1"},
                Regimes <- {{}}, PendingMaxAge <- 2, ApprovalTTL <- 1,
                ResolvedRetention <- 4, CallSpan <- 1, Horizon <- 3,
                faults <- rFaults, now <- rNow, payload <- rPayload,
                index <- rIndex, resolveLock <- rResolveLock,
                redeemLock <- rRedeemLock, call <- rCall, hist <- rHist

HeldInit ==
  /\ part \in {"guard", "redis"}
  /\ Init /\ Redis!Init
  /\ part = "redis" => \A c \in Calls : call[c].gate = "mcp"

GuardStep == part = "guard" /\ Next /\ UNCHANGED <<part, redisVars>>
RedisStep == part = "redis" /\ Redis!Next /\ UNCHANGED <<part, vars>>
HeldNext == GuardStep \/ RedisStep

\* The fairness of the parts; none of it is enabled in the part at rest.
HeldSpec ==
  /\ HeldInit /\ [][HeldNext]_allVars
  /\ Fairness
  /\ \A c \in {"c1", "c2", "c3"} : WF_redisVars(part = "redis" /\ Redis!Continue(c))

\* A resolution that found the item pending leads to a stored decision when
\* nothing fails (RedisReviewQueue).
ClaimDecides == Redis!ClaimDecides
============================================================================
