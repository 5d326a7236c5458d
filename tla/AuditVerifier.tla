-------------------------- MODULE AuditVerifier --------------------------
(***************************************************************************)
(* What an independent verifier computes from an audit log: the chain and  *)
(* completeness checks of engine/internal/audit/audit.go, as operators on  *)
(* a sequence of written events.                                           *)
(*                                                                         *)
(* A written event is [seq, id, prev].  `id' stands for the event's        *)
(* content and for its chain hash: SHA-256 of the content and of the       *)
(* previous hash is injective, and every event is hashed once.  Genesis is *)
(* the empty hash of a fresh chain.                                        *)
(***************************************************************************)
EXTENDS Naturals, Sequences, FiniteSets, FiniteSetsExt

Genesis == 0

\* The sequence numbers on the log.
Numbers(log) == {log[k].seq : k \in 1 .. Len(log)}

\* SeqGaps: an event more than one above the event written just before it
\* opens a gap.  Gaps are positions; the gap's numbers lie strictly between.
SeqGaps(log) == {k \in 2 .. Len(log) : log[k].seq > log[k - 1].seq + 1}
GapNumbers(log, k) == log[k - 1].seq + 1 .. log[k].seq - 1

\* The sizes of the gaps added up: a number counts once in each gap it lies in.
Missing(log) == Cardinality(UNION {{k} \X GapNumbers(log, k) : k \in SeqGaps(log)})

\* VerifyChain returns -1: every PrevHash is the hash of the event before it.
\* The signature covers the event's own PrevHash and always verifies here.
VerifyChain(log) ==
  \A k \in 1 .. Len(log) :
    log[k].prev = IF k = 1 THEN Genesis ELSE log[k - 1].id

\* VerifyChainReportAt: how many numbers were assigned after the last one on
\* the log.
Truncated(log, highWater) ==
  LET last == Max({0} \cup Numbers(log))
  IN  IF highWater > last THEN highWater - last ELSE 0

\* ChainReport.Complete: the log can be certified whole.
Complete(log, highWater) ==
  /\ VerifyChain(log)
  /\ Missing(log) = 0
  /\ Truncated(log, highWater) = 0
==========================================================================
