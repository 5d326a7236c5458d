---------------------------- MODULE AgentTokens ----------------------------
(***************************************************************************)
(* Agent tokens (engine/internal/tokens) over Redis, with the in-memory    *)
(* cache and the fallback strategy (engine/internal/fallback) that decides *)
(* what a failed Redis command means.  A Redis command, a lock section of  *)
(* the strategy and one of the cache are one step each.                    *)
(*                                                                         *)
(* Expired tokens are left out: the signature check refuses them whatever  *)
(* the stores hold.                                                        *)
(***************************************************************************)
CONSTANTS Tokens, Slots, NoToken

VARIABLES redis,     \* lelu:token:<id>
          memory,    \* inMemoryCache
          healthy,   \* the strategy's status of Redis
          mode,      \* FALLBACK_REDIS_MODE
          call,      \* local variables
          minted,    \* history: tokens handed out
          revoked,   \* history: tokens whose revocation was answered with success
          passed     \* history: a call was passed through although Redis failed

vars == <<redis, memory, healthy, mode, call, minted, revoked, passed>>

Free == [op |-> "free", pc |-> "", token |-> NoToken, found |-> FALSE, late |-> FALSE]

Init ==
  /\ redis = {} /\ memory = {}
  /\ healthy = TRUE /\ mode \in {"open", "closed"}
  /\ call = [s \in Slots |-> Free]
  /\ minted = {} /\ revoked = {} /\ passed = FALSE

Goto(s, pc) == call' = [call EXCEPT ![s] = [@ EXCEPT !.pc = pc]]
\* An error: nothing is recorded.
End(s) == call' = [call EXCEPT ![s] = Free] /\ UNCHANGED <<minted, revoked>>
\* The call succeeds: a token is handed out, accepted or revoked.
Succeed(s) ==
  LET c == call[s] IN
  /\ call' = [call EXCEPT ![s] = IF c.op = "validate" THEN [c EXCEPT !.pc = "accepted"] ELSE Free]
  /\ minted' = IF c.op = "mint" THEN minted \cup {c.token} ELSE minted
  /\ revoked' = IF c.op = "revoke" THEN revoked \cup {c.token} ELSE revoked

Begin(s, op, t) ==
  /\ call[s] = Free
  /\ call' = [call EXCEPT ![s] = [op |-> op, pc |-> "redis", token |-> t, found |-> FALSE,
                                  late |-> t \in revoked]]
  /\ UNCHANGED <<redis, memory, healthy, mode, minted, revoked, passed>>

\* A token's ID is new.
MintAgentToken(s, t) ==
  /\ t \notin minted /\ \A u \in Slots : call[u].token # t
  /\ t \notin redis \cup memory
  /\ Begin(s, "mint", t)
\* Only a token that was handed out is known to anybody.
ValidateToken(s, t) == t \in minted /\ Begin(s, "validate", t)
RevokeToken(s, t) == t \in minted /\ Begin(s, "revoke", t)

Done(op, t) ==
  CASE op = "mint" -> redis \cup {t} [] op = "revoke" -> redis \ {t} [] OTHER -> redis

\* SET, EXISTS or DEL.  A command may fail before or after Redis executed it.
Command(s) ==
  LET c == call[s] IN
  /\ c.pc = "redis"
  /\ \/ /\ redis' = Done(c.op, c.token)
        /\ call' = [call EXCEPT ![s] = [c EXCEPT !.pc = "success", !.found = c.token \in redis]]
     \/ redis' \in {redis, Done(c.op, c.token)} /\ Goto(s, "failure")
  /\ UNCHANGED <<memory, healthy, mode, minted, revoked, passed>>

RecordSuccess_KeepMemory(s) ==
  LET c == call[s] IN
  /\ c.pc = "success"
  /\ healthy' = TRUE
  /\ IF c.op = "validate" /\ ~ c.found THEN End(s) ELSE Succeed(s)
  /\ UNCHANGED <<redis, memory, mode, passed>>
\* Redis answered.  A revocation goes on to clear the cache.
RecordSuccess(s) ==
  LET c == call[s] IN
  /\ c.pc = "success"
  /\ healthy' = TRUE
  /\ CASE c.op = "revoke" -> Goto(s, "memory") /\ UNCHANGED <<minted, revoked>>
       [] c.op = "validate" /\ ~ c.found -> End(s)
       [] OTHER -> Succeed(s)
  /\ UNCHANGED <<redis, memory, mode, passed>>

RecordFailure(s) ==
  /\ call[s].pc = "failure"
  /\ healthy' = FALSE
  /\ Goto(s, "ask")
  /\ UNCHANGED <<redis, memory, mode, minted, revoked, passed>>

\* A second lock section: Redis may have been found healthy in between.
ShouldAllow(s) ==
  /\ call[s].pc = "ask"
  /\ IF healthy \/ mode = "open"
     THEN Goto(s, "memory") /\ passed' = TRUE /\ UNCHANGED <<minted, revoked>>
     ELSE End(s) /\ UNCHANGED passed
  /\ UNCHANGED <<redis, memory, healthy, mode>>

\* The cache, in the place of Redis or after it.
InMemory(s) ==
  LET c == call[s] IN
  /\ c.pc = "memory"
  /\ memory' = CASE c.op = "mint" -> memory \cup {c.token}
                 [] c.op = "revoke" -> memory \ {c.token}
                 [] OTHER -> memory
  /\ IF c.op = "validate" /\ c.token \notin memory THEN End(s) ELSE Succeed(s)
  /\ UNCHANGED <<redis, healthy, mode, passed>>

Return(s) ==
  /\ call[s].pc = "accepted"
  /\ End(s)
  /\ UNCHANGED <<redis, memory, healthy, mode, passed>>

Next == \E s \in Slots :
  \/ \E t \in Tokens : MintAgentToken(s, t) \/ ValidateToken(s, t) \/ RevokeToken(s, t)
  \/ Command(s) \/ RecordSuccess(s) \/ RecordFailure(s) \/ ShouldAllow(s) \/ InMemory(s)
  \/ Return(s)

Spec == Init /\ [][Next]_vars
---------------------------------------------------------------------------

\* Every variable has its type.
TypeOK ==
  /\ redis \subseteq Tokens /\ memory \subseteq Tokens
  /\ minted \subseteq Tokens /\ revoked \subseteq minted
  /\ healthy \in BOOLEAN /\ passed \in BOOLEAN
  /\ \A s \in Slots : call[s].token \in Tokens \cup {NoToken}

\* Whichever store a successful revocation reached, it left no copy in the
\* cache that a later outage would bring back (RevokeToken, InMemory).
MemoryForgets == memory \cap revoked = {}

\* As long as no call was passed through in spite of Redis failing, a token is
\* accepted by no call that begins after its revocation was answered, even if
\* commands fail on the way and their outcome is unknown (ValidateToken).
RevokedRefused ==
  ~ passed => \A s \in Slots : call[s].pc = "accepted" => ~ call[s].late
============================================================================
