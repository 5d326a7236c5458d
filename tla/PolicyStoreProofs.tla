------------------------- MODULE PolicyStoreProofs -------------------------
(* Proofs about PolicyStore, for any number of pushes and policies.        *)
EXTENDS PolicyStore, TLAPS

Locked(c) == push[c].pc \in {"persist", "swap"}

\* A text that got past the probe parses, and the file already holds what is
\* about to be swapped in.
PutSound ==
  \A c \in Pushers :
    /\ Locked(c) => Parses(push[c].yaml)
    /\ At(c, "swap") => disk = push[c].yaml

\* Only a configured worker loads.
WorkerConfigured == worker.pc = "load" => "sync" \in writers

\* LiveSurvivesRestart alone is not inductive: the swap needs PutSound, and the
\* worker's load is excluded by WorkerConfigured.
IInv == TypeOK /\ AlwaysLoadable /\ PutSound /\ WorkerConfigured /\ LiveSurvivesRestart

LEMMA NoPolicyParses == Parses(NoPolicy)
  BY PolicyAssumption DEF Parses

LEMMA IdleTyped == Idle \in Push /\ Fresh \in Worker
  BY DEF Idle, Fresh, Push, Worker, Texts

LEMMA InitInvariant == Init => IInv
<1> SUFFICES ASSUME Init PROVE IInv
  OBVIOUS
<1>1. TypeOK
  <2>1. push \in [Pushers -> Push] /\ worker \in Worker
    BY IdleTyped DEF Init
  <2>2. \A c \in Pushers : push[c].pc \in {"persist", "swap"} <=> policyMu = c
    BY PolicyAssumption DEF Init, Idle
  <2>3. writers \subseteq {"put", "sync"}
    BY PolicyAssumption DEF Init
  <2>4. edits \in 0..MaxEdits /\ crashes \in 0..MaxCrashes
    BY PolicyAssumption DEF Init
  <2> QED
    BY <2>1, <2>2, <2>3, <2>4 DEF Init, TypeOK, Texts
<1>2. AlwaysLoadable /\ PutSound /\ WorkerConfigured /\ LiveSurvivesRestart
  BY NoPolicyParses DEF Init, AlwaysLoadable, PutSound, WorkerConfigured,
     LiveSurvivesRestart, At, Locked, Idle, Fresh
<1> QED
  BY <1>1, <1>2 DEF IInv

\* A step of a push that stays outside the lock.
LEMMA OutsideLock ==
  ASSUME IInv, NEW c \in Pushers, NEW r \in Push, ~ Locked(c),
         r.pc \notin {"persist", "swap"},
         push' = [push EXCEPT ![c] = r],
         UNCHANGED <<setup, policyMu, live, disk, control, worker, up, crashes>>,
         table' \in Texts, edits' \in 0..MaxEdits
  PROVE  IInv'
<1>1. push \in [Pushers -> Push] /\ push' \in [Pushers -> Push]
  BY DEF IInv, TypeOK
<1>2. push'[c] = r /\ \A d \in Pushers : d # c => push'[d] = push[d]
  BY <1>1
<1>3. policyMu # c
  BY DEF IInv, TypeOK, Locked
<1>4. TypeOK'
  <2>1. \A d \in Pushers : push'[d].pc \in {"persist", "swap"} <=> policyMu' = d
    BY <1>1, <1>2, <1>3 DEF IInv, TypeOK
  <2> QED
    BY <1>1, <2>1 DEF IInv, TypeOK, setup
<1>5. PutSound'
  BY <1>1, <1>2 DEF IInv, PutSound, Locked, At
<1>6. LiveSurvivesRestart'
  BY <1>2, <1>3 DEF IInv, TypeOK, LiveSurvivesRestart, At, setup
<1> QED
  BY <1>4, <1>5, <1>6 DEF IInv, AlwaysLoadable, WorkerConfigured, setup

LEMMA LockInvariant ==
  ASSUME IInv, NEW c \in Pushers, LockAndProbe(c)
  PROVE  IInv'
<1> DEFINE r == [pc |-> "persist", yaml |-> push[c].yaml, ifMatch |-> push[c].ifMatch,
                 retry |-> push[c].retry]
<1>1. push \in [Pushers -> Push] /\ push[c] \in Push /\ ~ Locked(c)
  BY DEF IInv, TypeOK, LockAndProbe, At, Locked
<1>2. CASE Parses(push[c].yaml) /\ writable
  <2>1. /\ push' = [push EXCEPT ![c] = r] /\ policyMu = Nobody /\ policyMu' = c
        /\ UNCHANGED <<setup, table, live, disk, control, worker, up, edits, crashes>>
    BY <1>2 DEF LockAndProbe, Step, Goto
  <2>2. r \in Push /\ r.pc = "persist" /\ r.yaml = push[c].yaml
    BY <1>1 DEF Push
  <2> HIDE DEF r
  <2>3. push' \in [Pushers -> Push] /\ push'[c] = r /\ \A d \in Pushers : d # c => push'[d] = push[d]
    BY <1>1, <2>1, <2>2
  <2>4. \A d \in Pushers : push'[d].pc \in {"persist", "swap"} <=> policyMu' = d
    BY <2>1, <2>2, <2>3, PolicyAssumption DEF IInv, TypeOK
  <2>5. TypeOK'
    BY <2>1, <2>3, <2>4 DEF IInv, TypeOK, setup
  <2>6. PutSound'
    BY <1>2, <2>1, <2>2, <2>3 DEF IInv, PutSound, Locked, At
  <2>7. LiveSurvivesRestart'
    BY <2>1 DEF IInv, LiveSurvivesRestart, setup
  <2> QED
    BY <2>1, <2>5, <2>6, <2>7 DEF IInv, AlwaysLoadable, WorkerConfigured, setup
<1>3. CASE ~ (Parses(push[c].yaml) /\ writable)
  <2>1. /\ push' = [push EXCEPT ![c] = Idle]
        /\ UNCHANGED <<setup, policyMu, live, disk, control, worker, up, crashes>>
        /\ table' = table /\ edits' = edits
    BY <1>3 DEF LockAndProbe, Finish
  <2>2. Idle \in Push /\ Idle.pc \notin {"persist", "swap"}
    BY IdleTyped DEF Idle
  <2>3. table' \in Texts /\ edits' \in 0..MaxEdits
    BY <2>1 DEF IInv, TypeOK
  <2> QED
    BY <1>1, <2>1, <2>2, <2>3, OutsideLock
<1> QED
  BY <1>2, <1>3

\* The file and the evaluator part only inside the lock, and meet again there.
LEMMA PersistInvariant ==
  ASSUME IInv, NEW c \in Pushers, atomicWritePolicy(c)
  PROVE  IInv'
<1>1. push \in [Pushers -> Push] /\ push[c] \in Push /\ Locked(c) /\ policyMu = c
  BY DEF IInv, TypeOK, atomicWritePolicy, At, Locked
<1>2. UNCHANGED <<setup, table, live, control, worker, up, edits, crashes>> /\ At(c, "persist")
  BY DEF atomicWritePolicy
<1>3. CASE disk' = push[c].yaml /\ Step(c, "swap") /\ UNCHANGED policyMu
  <2> DEFINE r == [pc |-> "swap", yaml |-> push[c].yaml, ifMatch |-> push[c].ifMatch,
                   retry |-> push[c].retry]
  <2>1. push' = [push EXCEPT ![c] = r]
    BY <1>3 DEF Step, Goto
  <2>2. r \in Push /\ r.pc = "swap" /\ r.yaml = push[c].yaml
    BY <1>1 DEF Push
  <2> HIDE DEF r
  <2>3. push' \in [Pushers -> Push] /\ push'[c] = r /\ \A d \in Pushers : d # c => push'[d] = push[d]
    BY <1>1, <2>1, <2>2
  <2>4. \A d \in Pushers : d # c => ~ Locked(d)
    BY <1>1 DEF IInv, TypeOK, Locked
  <2>5. disk' \in Texts
    BY <1>1, <1>3 DEF Push
  <2>6. TypeOK'
    <3>1. \A d \in Pushers : push'[d].pc \in {"persist", "swap"} <=> policyMu' = d
      BY <1>1, <1>3, <2>2, <2>3, <2>4 DEF Locked
    <3> QED
      BY <1>2, <1>3, <2>3, <2>5, <3>1 DEF IInv, TypeOK, setup
  <2>7. PutSound' /\ AlwaysLoadable'
    BY <1>1, <1>2, <1>3, <2>2, <2>3, <2>4 DEF IInv, PutSound, AlwaysLoadable, Locked, At
  <2>8. LiveSurvivesRestart'
    BY <1>1, <1>3, <2>2, <2>3, PolicyAssumption DEF LiveSurvivesRestart, At
  <2> QED
    BY <1>2, <2>6, <2>7, <2>8 DEF IInv, WorkerConfigured, setup
<1>4. CASE Finish(c) /\ policyMu' = Nobody /\ UNCHANGED disk
  <2>1. push' \in [Pushers -> Push] /\ push'[c] = Idle /\ \A d \in Pushers : d # c => push'[d] = push[d]
    BY <1>1, <1>4, IdleTyped DEF Finish
  <2>2. \A d \in Pushers : push'[d].pc \notin {"persist", "swap"}
    BY <1>1, <2>1 DEF IInv, TypeOK, Idle
  <2>3. TypeOK'
    BY <1>2, <1>4, <2>1, <2>2, PolicyAssumption DEF IInv, TypeOK, setup
  <2>4. PutSound'
    BY <2>2 DEF PutSound, Locked, At
  <2>5. LiveSurvivesRestart'
    BY <1>1, <1>2, <1>4 DEF IInv, LiveSurvivesRestart, At, setup
  <2> QED
    BY <1>2, <1>4, <2>3, <2>4, <2>5 DEF IInv, AlwaysLoadable, WorkerConfigured, setup
<1> QED
  BY <1>3, <1>4 DEF atomicWritePolicy

LEMMA SwapInvariant ==
  ASSUME IInv, NEW c \in Pushers, Swap(c)
  PROVE  IInv'
<1>1. push \in [Pushers -> Push] /\ push[c] \in Push /\ Locked(c) /\ policyMu = c
  BY DEF IInv, TypeOK, Swap, At, Locked
<1>2. /\ UNCHANGED <<setup, table, disk, control, worker, up, edits, crashes>>
      /\ policyMu' = Nobody /\ live' = push[c].yaml /\ disk = push[c].yaml
      /\ push' = [push EXCEPT ![c] = Idle]
  BY DEF IInv, PutSound, Swap, Finish
<1>3. push' \in [Pushers -> Push] /\ push'[c] = Idle /\ \A d \in Pushers : d # c => push'[d] = push[d]
  BY <1>1, <1>2, IdleTyped
<1>4. \A d \in Pushers : push'[d].pc \notin {"persist", "swap"}
  BY <1>1, <1>3 DEF IInv, TypeOK, Idle
<1>5. TypeOK'
  BY <1>1, <1>2, <1>3, <1>4, PolicyAssumption DEF IInv, TypeOK, setup, Push
<1>6. PutSound'
  BY <1>4 DEF PutSound, Locked, At
<1>7. LiveSurvivesRestart' /\ AlwaysLoadable'
  BY <1>1, <1>2 DEF IInv, PutSound, LiveSurvivesRestart, AlwaysLoadable, setup
<1> QED
  BY <1>2, <1>5, <1>6, <1>7 DEF IInv, WorkerConfigured, setup

LEMMA WorkerInvariant ==
  ASSUME IInv, NEW genuine \in BOOLEAN, poll(genuine) \/ Load
  PROVE  IInv'
<1>1. CASE poll(genuine)
  <2>1. worker' \in Worker
    BY <1>1 DEF IInv, TypeOK, poll, Worker, Texts
  <2>2. UNCHANGED <<setup, table, push, policyMu, live, disk, control, up, edits, crashes>>
        /\ "sync" \in writers
    BY <1>1 DEF poll
  <2>3. TypeOK'
    BY <2>1, <2>2 DEF IInv, TypeOK, setup
  <2> QED
    BY <2>2, <2>3 DEF IInv, AlwaysLoadable, PutSound, WorkerConfigured, LiveSurvivesRestart,
       Locked, At, setup
<1>2. CASE Load
  <2>1. /\ UNCHANGED <<setup, table, push, policyMu, disk, control, up, edits, crashes>>
        /\ "sync" \in writers
    BY <1>2 DEF Load, IInv, WorkerConfigured
  <2>2. live' \in Texts /\ Parses(live')
    BY <1>2 DEF Load, IInv, TypeOK, AlwaysLoadable, Worker
  <2>3. worker' \in Worker
    BY <1>2 DEF Load, IInv, TypeOK, Worker, Fresh, Texts
  <2>4. TypeOK'
    BY <2>1, <2>2, <2>3 DEF IInv, TypeOK, setup
  <2> QED
    BY <2>1, <2>2, <2>4 DEF IInv, AlwaysLoadable, PutSound, WorkerConfigured,
       LiveSurvivesRestart, Locked, At, setup
<1> QED
  BY <1>1, <1>2

\* A crash loses what was swapped in but not the file, and frees the lock.
LEMMA ProcessInvariant ==
  ASSUME IInv, Crash \/ Restart
  PROVE  IInv'
<1>1. CASE Crash
  <2>1. /\ UNCHANGED <<setup, table, disk, control, edits>>
        /\ up' = FALSE /\ policyMu' = Nobody /\ live' = NoPolicy /\ worker' = Fresh
        /\ crashes' \in 0..MaxCrashes
    BY <1>1, PolicyAssumption DEF Crash, IInv, TypeOK
  <2>2. push' \in [Pushers -> Push]
    BY <1>1, IdleTyped DEF Crash, IInv, TypeOK
  <2>3. \A d \in Pushers : push'[d].pc \notin {"persist", "swap"}
    BY <1>1 DEF Crash, Idle
  <2>4. TypeOK'
    BY <2>1, <2>2, <2>3, IdleTyped, PolicyAssumption DEF IInv, TypeOK, setup, Texts
  <2>5. PutSound'
    BY <2>3 DEF PutSound, Locked, At
  <2>6. AlwaysLoadable' /\ LiveSurvivesRestart' /\ WorkerConfigured'
    BY <2>1, NoPolicyParses DEF IInv, AlwaysLoadable, LiveSurvivesRestart, WorkerConfigured, Fresh
  <2> QED
    BY <2>4, <2>5, <2>6 DEF IInv
<1>2. CASE Restart
  <2>1. /\ UNCHANGED <<setup, table, push, policyMu, disk, control, worker, edits, crashes>>
        /\ up' = TRUE /\ live' = disk
    BY <1>2 DEF Restart
  <2>2. TypeOK'
    BY <2>1 DEF IInv, TypeOK, setup
  <2> QED
    BY <2>1, <2>2 DEF IInv, AlwaysLoadable, PutSound, WorkerConfigured, LiveSurvivesRestart,
       Locked, At, setup
<1> QED
  BY <1>1, <1>2

LEMMA NextInvariant == IInv /\ [Next]_vars => IInv'
<1> SUFFICES ASSUME IInv, [Next]_vars PROVE IInv'
  OBVIOUS
<1>0. push \in [Pushers -> Push] /\ table \in Texts /\ live \in Texts /\ edits \in 0..MaxEdits
      /\ NoPolicy \in Texts /\ MaxEdits \in Nat
  BY PolicyAssumption DEF IInv, TypeOK, Texts
<1>1. ASSUME NEW c \in Pushers, NEW p \in Policies, Edit(c, p) PROVE IInv'
  <2>1. PICK r \in Push : push' = [push EXCEPT ![c] = r] /\ r.pc \notin {"persist", "swap"}
    <3> DEFINE q == [pc |-> "list", yaml |-> push[c].yaml, ifMatch |-> push[c].ifMatch,
                     retry |-> push[c].retry]
    <3>1. push' = [push EXCEPT ![c] = q]
      BY <1>1 DEF Edit, Step, Goto
    <3>2. q \in Push /\ q.pc = "list"
      BY <1>0 DEF Push
    <3> QED
      BY <3>1, <3>2
  <2>2. /\ ~ Locked(c) /\ table' \in Texts /\ edits' \in 0..MaxEdits
        /\ UNCHANGED <<setup, policyMu, live, disk, control, worker, up, crashes>>
    BY <1>0, <1>1 DEF Edit, At, Locked, Texts
  <2> QED
    BY <2>1, <2>2, OutsideLock
<1>2. ASSUME NEW c \in Pushers,
             listPolicies(c) \/ handlePolicyGet(c) \/ Unreachable(c) \/ Refetch(c) \/ CheckIfMatch(c)
      PROVE  IInv'
  <2>1. /\ ~ Locked(c) /\ table' \in Texts /\ edits' \in 0..MaxEdits
        /\ UNCHANGED <<setup, policyMu, live, disk, control, worker, up, crashes>>
    BY <1>0, <1>2 DEF listPolicies, handlePolicyGet, Unreachable, Refetch, CheckIfMatch, At, Locked
  <2>2. PICK r \in Push : push' = [push EXCEPT ![c] = r] /\ r.pc \notin {"persist", "swap"}
    <3>1. ASSUME NEW pc \in {"list", "get", "match", "conflict", "body"}, NEW y \in Texts,
                 NEW i \in Texts, NEW b \in BOOLEAN, Goto(c, pc, y, i, b)
          PROVE  \E r \in Push : push' = [push EXCEPT ![c] = r] /\ r.pc \notin {"persist", "swap"}
      <4> DEFINE q == [pc |-> pc, yaml |-> y, ifMatch |-> i, retry |-> b]
      <4>1. q \in Push /\ q.pc \notin {"persist", "swap"} /\ push' = [push EXCEPT ![c] = q]
        BY <3>1 DEF Push, Goto
      <4> QED
        BY <4>1
    <3>2. ASSUME Finish(c)
          PROVE  \E r \in Push : push' = [push EXCEPT ![c] = r] /\ r.pc \notin {"persist", "swap"}
      <4>1. Idle \in Push /\ Idle.pc \notin {"persist", "swap"}
        BY IdleTyped DEF Idle
      <4> QED
        BY <3>2, <4>1 DEF Finish
    <3>3. push[c].yaml \in Texts /\ push[c].ifMatch \in Texts /\ push[c].retry \in BOOLEAN
      BY <1>0 DEF Push
    <3>4. CASE listPolicies(c)
      BY <1>0, <3>1, <3>4 DEF listPolicies
    <3>5. CASE handlePolicyGet(c)
      BY <1>0, <3>1, <3>3, <3>5 DEF handlePolicyGet
    <3>6. CASE Unreachable(c)
      BY <3>2, <3>6 DEF Unreachable
    <3>7. CASE Refetch(c)
      BY <1>0, <3>1, <3>2, <3>3, <3>7 DEF Refetch
    <3>8. CASE CheckIfMatch(c)
      BY <1>0, <3>1, <3>3, <3>8 DEF CheckIfMatch, Step
    <3> QED
      BY <1>2, <3>4, <3>5, <3>6, <3>7, <3>8
  <2> QED
    BY <2>1, <2>2, OutsideLock
<1>3. ASSUME NEW p \in Policies, Release(p) PROVE IInv'
  <2>1. /\ UNCHANGED <<setup, table, push, policyMu, live, disk, worker, up, crashes>>
        /\ control' \in Policies /\ edits' \in 0..MaxEdits
    BY <1>0, <1>3 DEF Release
  <2>2. TypeOK'
    BY <2>1 DEF IInv, TypeOK, setup
  <2> QED
    BY <2>1, <2>2 DEF IInv, AlwaysLoadable, PutSound, WorkerConfigured, LiveSurvivesRestart,
       Locked, At, setup
<1>4. CASE UNCHANGED vars
  <2>1. TypeOK'
    BY <1>4 DEF IInv, TypeOK, vars
  <2> QED
    BY <1>4, <2>1 DEF IInv, AlwaysLoadable, PutSound, WorkerConfigured, LiveSurvivesRestart,
       Locked, At, vars
<1>5. CASE Next
  BY <1>1, <1>2, <1>3, <1>5, LockInvariant, PersistInvariant, SwapInvariant, WorkerInvariant,
     ProcessInvariant DEF Next
<1> QED
  BY <1>4, <1>5

\* The inductive invariant holds in every behaviour of the policy store.
THEOREM Invariance == Spec => []IInv
  BY InitInvariant, NextInvariant, PTL DEF Spec

\* Every reachable state is well typed, and policyMu excludes: at most one PUT
\* is between its probe and its swap (handlePolicyPut).
THEOREM TypeCorrect == Spec => []TypeOK
<1>1. IInv => TypeOK
  BY DEF IInv
<1> QED
  BY <1>1, Invariance, PTL

\* Where only PUT replaces the policy, a restart changes nothing, for any
\* number of racing PUTs, failed writes and crashes (handlePolicyPut,
\* atomicWritePolicy, SetPolicyPath).
THEOREM PutsSurviveRestart == Spec => []LiveSurvivesRestart
<1>1. IInv => LiveSurvivesRestart
  BY DEF IInv
<1> QED
  BY <1>1, Invariance, PTL

\* Neither the file nor the evaluator ever holds a text that does not parse.
THEOREM StartNeverFails == Spec => []AlwaysLoadable
<1>1. IInv => AlwaysLoadable
  BY DEF IInv
<1> QED
  BY <1>1, Invariance, PTL
==========================================================================
