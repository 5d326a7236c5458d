---------------------------- MODULE PolicyStore ----------------------------
(***************************************************************************)
(* How the engine's one policy is replaced while it runs:                  *)
(*   - PUT /v1/policy (engine/internal/server/server.go, handlePolicyPut), *)
(*     as the dashboard calls it after every edit of its rules             *)
(*     (platform/ui/lib/policy-sync.ts, pushPolicyToEngine);               *)
(*   - the sync worker that polls a control plane                          *)
(*     (engine/internal/sync/sync.go);                                     *)
(*   - a restart, which loads the policy file (engine/cmd/engine/main.go). *)
(*                                                                         *)
(* A policy stands for its bytes, and also for their SHA-256 digest and    *)
(* their ETag.  NoPolicy is the empty policy of an engine without a file;  *)
(* its digest is the empty string, and an empty If-Match is no condition.  *)
(*                                                                         *)
(* An engine has a policy file for PUT, a control plane to poll, or both   *)
(* (`writers').  Answers that only report (the audit event, the previous   *)
(* digest) are left out.                                                   *)
(***************************************************************************)
EXTENDS Naturals

CONSTANTS Pushers,      \* concurrent pushPolicyToEngine calls
          Policies,     \* policy texts
          Broken,       \* those that do not parse
          NoPolicy, Nobody,
          Deployments,  \* which writers an engine may have
          MaxEdits,     \* bound: dashboard edits and control plane releases
          MaxCrashes    \* bound: engine crashes

ASSUME PolicyAssumption ==
  /\ Broken \subseteq Policies
  /\ NoPolicy \notin Policies
  /\ Nobody \notin Pushers
  /\ Deployments \subseteq SUBSET {"put", "sync"}
  /\ MaxEdits \in Nat /\ MaxCrashes \in Nat

VARIABLES
  writers,    \* what replaces the policy, fixed
  writable,   \* policyWritable, probed at start: the directory is writable
  etags,      \* the control plane sends ETags
  table,      \* the rules in the dashboard's database
  push,       \* each pushPolicyToEngine call and the PUT it is waiting for
  policyMu,   \* who holds the handler's mutex
  live,       \* the evaluator's policy and digest
  disk,       \* the policy file
  control,    \* the control plane's current policy
  worker,     \* the sync worker
  up,         \* the engine is running
  edits, crashes

vars == <<writers, writable, etags, table, push, policyMu, live, disk, control,
          worker, up, edits, crashes>>
setup == <<writers, writable, etags>>

Texts == Policies \cup {NoPolicy}
Parses(p) == p \notin Broken

\* get: about to read the digest; match: the PUT is sent; conflict: it was
\* refused; body: the If-Match was accepted; persist and swap: under the lock.
Push == [pc : {"idle", "list", "get", "match", "conflict", "body", "persist", "swap"},
         yaml : Texts, ifMatch : Texts, retry : BOOLEAN]
Worker == [pc : {"wait", "load"}, etag : Texts, got : Texts, signed : BOOLEAN]

Idle == [pc |-> "idle", yaml |-> NoPolicy, ifMatch |-> NoPolicy, retry |-> FALSE]
Fresh == [pc |-> "wait", etag |-> NoPolicy, got |-> NoPolicy, signed |-> FALSE]

At(c, pc) == push[c].pc = pc
Goto(c, pc, yaml, ifMatch, retry) ==
  push' = [push EXCEPT ![c] =
             [pc |-> pc, yaml |-> yaml, ifMatch |-> ifMatch, retry |-> retry]]
Step(c, pc) == Goto(c, pc, push[c].yaml, push[c].ifMatch, push[c].retry)
\* The call ends, with whatever answer.
Finish(c) == push' = [push EXCEPT ![c] = Idle]

Init ==
  /\ writers \in Deployments
  /\ writable \in BOOLEAN
  /\ etags \in BOOLEAN
  /\ table = NoPolicy
  /\ push = [c \in Pushers |-> Idle]
  /\ policyMu = Nobody
  /\ disk \in {NoPolicy} \cup {p \in Policies : Parses(p)}
  /\ live = disk
  /\ control \in Policies
  /\ worker = Fresh
  /\ up = TRUE
  /\ edits = 0
  /\ crashes = 0

---------------------------------------------------------------------------
(* The dashboard: the edit is stored, then pushed in the background.       *)

Edit(c, p) ==
  /\ "put" \in writers
  /\ At(c, "idle")
  /\ edits < MaxEdits
  /\ edits' = edits + 1
  /\ table' = p
  /\ Step(c, "list")
  /\ UNCHANGED <<setup, policyMu, live, disk, control, worker, up, crashes>>

listPolicies(c) ==
  /\ At(c, "list")
  /\ Goto(c, "get", table, NoPolicy, FALSE)
  /\ UNCHANGED <<setup, table, policyMu, live, disk, control, worker, up, edits, crashes>>

\* handlePolicyGet; an engine that does not answer in time leaves the PUT
\* without a condition.
handlePolicyGet(c) ==
  /\ At(c, "get")
  /\ \E digest \in IF up THEN {live, NoPolicy} ELSE {NoPolicy} :
       Goto(c, "match", push[c].yaml, digest, FALSE)
  /\ UNCHANGED <<setup, table, policyMu, live, disk, control, worker, up, edits, crashes>>

\* The database or the engine is not reachable.
Unreachable(c) ==
  /\ At(c, "list") \/ At(c, "match")
  /\ Finish(c)
  /\ UNCHANGED <<setup, table, policyMu, live, disk, control, worker, up, edits, crashes>>

\* A first refusal is retried with the digest of the moment and the same text.
Refetch(c) ==
  /\ At(c, "conflict")
  /\ \/ up /\ ~ push[c].retry /\ Goto(c, "match", push[c].yaml, live, TRUE)
     \/ Finish(c)
  /\ UNCHANGED <<setup, table, policyMu, live, disk, control, worker, up, edits, crashes>>

---------------------------------------------------------------------------
(* handlePolicyPut                                                         *)

\* The precondition is checked before the lock is taken.
CheckIfMatch(c) ==
  /\ up /\ At(c, "match")
  /\ IF push[c].ifMatch \in {NoPolicy, live} THEN Step(c, "body") ELSE Step(c, "conflict")
  /\ UNCHANGED <<setup, table, policyMu, live, disk, control, worker, up, edits, crashes>>

\* Mutant of LockAndProbe: the lock is not taken.
LockAndProbe_NoLock(c) ==
  /\ up /\ At(c, "body")
  /\ IF Parses(push[c].yaml) /\ writable THEN Step(c, "persist") ELSE Finish(c)
  /\ UNCHANGED <<setup, table, policyMu, live, disk, control, worker, up, edits, crashes>>

\* Under the lock: a text that does not parse is 400, a read-only policy
\* directory 501.
LockAndProbe(c) ==
  /\ up /\ At(c, "body") /\ policyMu = Nobody
  /\ IF Parses(push[c].yaml) /\ writable
       THEN policyMu' = c /\ Step(c, "persist")
       ELSE Finish(c) /\ UNCHANGED policyMu
  /\ UNCHANGED <<setup, table, live, disk, control, worker, up, edits, crashes>>

\* Mutant of atomicWritePolicy: a failed write is logged and the swap goes on.
atomicWritePolicy_SwapAnyway(c) ==
  /\ up /\ At(c, "persist")
  /\ Step(c, "swap")
  /\ \/ disk' = push[c].yaml
     \/ UNCHANGED disk
  /\ UNCHANGED <<setup, table, policyMu, live, control, worker, up, edits, crashes>>

\* The rename puts the text in place or leaves the file as it was (507).
atomicWritePolicy(c) ==
  /\ up /\ At(c, "persist")
  /\ \/ disk' = push[c].yaml /\ Step(c, "swap") /\ UNCHANGED policyMu
     \/ Finish(c) /\ policyMu' = Nobody /\ UNCHANGED disk
  /\ UNCHANGED <<setup, table, live, control, worker, up, edits, crashes>>

Swap(c) ==
  /\ up /\ At(c, "swap")
  /\ live' = push[c].yaml
  /\ policyMu' = Nobody
  /\ Finish(c)
  /\ UNCHANGED <<setup, table, disk, control, worker, up, edits, crashes>>

---------------------------------------------------------------------------
(* The sync worker                                                         *)

\* The control plane publishes another policy.
Release(p) ==
  /\ "sync" \in writers
  /\ p # control
  /\ edits < MaxEdits
  /\ edits' = edits + 1
  /\ control' = p
  /\ UNCHANGED <<setup, table, push, policyMu, live, disk, worker, up, crashes>>

\* A poll that is answered with a body, tampered with or not.  A poll that
\* fails, and one answered 304 because the ETag matches, change nothing.
poll(genuine) ==
  /\ "sync" \in writers /\ up
  /\ worker.pc = "wait" /\ worker.etag # control
  /\ worker' = [pc |-> "load", etag |-> worker.etag, got |-> control, signed |-> genuine]
  /\ UNCHANGED <<setup, table, push, policyMu, live, disk, control, up, edits, crashes>>

\* Mutant of Load: the ETag is remembered whether or not the body was usable.
Load_TagFirst ==
  /\ up /\ worker.pc = "load"
  /\ live' = IF worker.signed /\ Parses(worker.got) THEN worker.got ELSE live
  /\ worker' = [Fresh EXCEPT !.etag = IF etags THEN worker.got ELSE worker.etag]
  /\ UNCHANGED <<setup, table, push, policyMu, disk, control, up, edits, crashes>>

\* Verified and parsed, the policy goes live, past the handler's mutex; only
\* then is its ETag remembered.  The file is left alone.
Load ==
  /\ up /\ worker.pc = "load"
  /\ LET ok == worker.signed /\ Parses(worker.got) IN
     /\ live' = IF ok THEN worker.got ELSE live
     /\ worker' = [Fresh EXCEPT !.etag = IF ok /\ etags THEN worker.got ELSE worker.etag]
  /\ UNCHANGED <<setup, table, push, policyMu, disk, control, up, edits, crashes>>

---------------------------------------------------------------------------
(* The process                                                             *)

\* Every PUT in flight fails; the file stays.
Crash ==
  /\ up /\ crashes < MaxCrashes
  /\ crashes' = crashes + 1
  /\ up' = FALSE
  /\ push' = [c \in Pushers |->
                IF push[c].pc \in {"body", "persist", "swap"} THEN Idle ELSE push[c]]
  /\ policyMu' = Nobody
  /\ live' = NoPolicy
  /\ worker' = Fresh
  /\ UNCHANGED <<setup, table, disk, control, edits>>

\* A file that does not parse is fatal.
Restart ==
  /\ ~ up /\ Parses(disk)
  /\ up' = TRUE
  /\ live' = disk
  /\ UNCHANGED <<setup, table, push, policyMu, disk, control, worker, edits, crashes>>

Next ==
  \/ \E c \in Pushers :
       \/ \E p \in Policies : Edit(c, p)
       \/ listPolicies(c) \/ handlePolicyGet(c) \/ Unreachable(c) \/ Refetch(c)
       \/ CheckIfMatch(c) \/ LockAndProbe(c) \/ atomicWritePolicy(c) \/ Swap(c)
  \/ \E p \in Policies : Release(p)
  \/ \E genuine \in BOOLEAN : poll(genuine)
  \/ Load
  \/ Crash
  \/ Restart

Spec == Init /\ [][Next]_vars

\* The worker's loop never ends and the engine is restarted after a crash; the
\* control plane does not stay unreachable, or its answers tampered with, for
\* good.
Fairness == WF_vars(Load) /\ SF_vars(poll(TRUE)) /\ WF_vars(Restart)
FairSpec == Spec /\ Fairness

---------------------------------------------------------------------------
(* Properties                                                              *)

\* policyMu is held by the one PUT between its probe and its swap.
TypeOK ==
  /\ writers \subseteq {"put", "sync"}
  /\ writable \in BOOLEAN /\ etags \in BOOLEAN /\ up \in BOOLEAN
  /\ table \in Texts /\ live \in Texts /\ disk \in Texts /\ control \in Policies
  /\ push \in [Pushers -> Push]
  /\ policyMu \in Pushers \cup {Nobody}
  /\ \A c \in Pushers : push[c].pc \in {"persist", "swap"} <=> policyMu = c
  /\ worker \in Worker
  /\ edits \in 0..MaxEdits /\ crashes \in 0..MaxCrashes

\* "persist policy changes so they survive engine restarts" (SetPolicyPath):
\* where only PUT replaces the policy, what is enforced is what a restart
\* would load, except for the PUT that holds policyMu between its rename and
\* its swap: racing PUTs, failed writes and crashes never leave the two apart.
LiveSurvivesRestart ==
  up /\ "sync" \notin writers =>
    \/ live = disk
    \/ policyMu # Nobody /\ At(policyMu, "swap") /\ disk = push[policyMu].yaml

\* What is enforced and what a restart loads always parses: no rejected text
\* can keep the engine from starting ("failed to load policy" is fatal).
AlwaysLoadable == Parses(disk) /\ Parses(live)

\* A policy the control plane keeps publishing is enforced in the end, after
\* failed, tampered and unparsable answers and crashes, where no PUT replaces
\* it: the ETag never makes the worker skip a policy it has not loaded.
SyncCatchesUp ==
  \A p \in Policies :
    writers = {"sync"} /\ control = p /\ Parses(p) ~> live = p \/ control # p

\* "Optimistic concurrency - If-Match must equal active digest when provided"
\* (handlePolicyPut): the policy a conditional PUT replaces is the one its
\* sender has seen.
NoLostUpdate ==
  [][\A c \in Pushers : Swap(c) => push[c].ifMatch \in {NoPolicy, live}]_vars
==========================================================================
