---------------------------- MODULE EngineProofs ----------------------------
(***************************************************************************)
(* Proofs about module Engine: the review queue in the process and in      *)
(* SQLite, the parts that hand out and keep credentials (the OAuth server  *)
(* for MCP clients, the OAuth token vault and agent tokens), the launchers *)
(* of a local engine and the daemons of the Claude Code plugin, each for   *)
(* any size of its sets and any bounds, and then all of them together.     *)
(***************************************************************************)
EXTENDS Engine, SequenceTheorems, FiniteSetTheorems, TLAPS

---------------------------------------------------------------------------
(* LocalReviewQueue: the inductive invariant                             *)

\* A stopped engine has neither a map nor calls.
StoppedIsEmpty ==
  ~ up => (\A i \in Items : mem[i] = Absent) /\ (\A c \in Callers : call[c] = NoCall)

\* Between its two steps a redemption relies on what it read: the item can
\* meanwhile be redeemed by somebody else, and nothing more.
CopyHolds(c) ==
  LET i == call[c].id
  IN  i # NoItem => /\ up
                    /\ mem[i] = disk[i]
                    /\ disk[i].status = "approved"
                    /\ disk[i].fingerprint = call[c].print
                    /\ call[c].print # Unbound

\* A row that was never written is empty, a waiting one is never deleted (load
\* deletes decided ones only), and what callers were told is on the row.
RowTells(i) ==
  /\ disk[i].status = "absent" => disk[i] = Absent /\ i \notin rows
  /\ disk[i].status = "pending" => i \in rows
  /\ disk[i].status \notin Verdicts => hist[i].wins = 0 /\ hist[i].told = {}
  /\ disk[i].redeemed => disk[i].status = "approved"
  /\ ~ disk[i].redeemed => hist[i].spends = 0 /\ hist[i].paid = {}

QueueInv ==
  /\ TypeOK
  /\ StoppedIsEmpty
  /\ \A c \in Callers : CopyHolds(c)
  /\ \A i \in Items : RowTells(i)
  /\ QueueKeeps

\* QueueKeeps, item by item.
Keeps(i) ==
  /\ up => mem[i] = disk[i] \/ (mem[i] = Absent /\ disk[i].status \in Verdicts)
  /\ hist[i].wins <= 1 /\ hist[i].told \subseteq {disk[i].status}
  /\ hist[i].spends <= 1
  /\ hist[i].spends = 1 => /\ disk[i].status = "approved"
                           /\ disk[i].redeemed
                           /\ hist[i].paid = {disk[i].fingerprint}
                           /\ disk[i].fingerprint # Unbound

LEMMA KeepsAll == QueueKeeps <=> \A i \in Items : Keeps(i)
BY DEF QueueKeeps, MemoryMatchesDisk, DecisionSurvives, RedeemSound, Keeps

LEMMA Symbols ==
  /\ Absent \in ReviewRequest /\ NoCall \in Call
  /\ Absent.status = "absent" /\ ~ Absent.redeemed
  /\ NoItem \notin Items /\ NoCall.id = NoItem
  /\ "absent" \notin Verdicts /\ "pending" \notin Verdicts /\ "approved" \in Verdicts
BY LocalSymbolsAssumption DEF Absent, ReviewRequest, NoCall, Call, Verdicts

LEMMA InitInvariant == Init => QueueInv
<1> SUFFICES ASSUME Init PROVE QueueInv
  OBVIOUS
<1>1. [wins |-> 0, told |-> {}, spends |-> 0, paid |-> {}] \in History
  BY DEF History
<1>2. TypeOK
  BY <1>1, Symbols DEF Init, TypeOK
<1>3. StoppedIsEmpty /\ \A c \in Callers : CopyHolds(c)
  BY Symbols DEF Init, StoppedIsEmpty, CopyHolds
<1>4. \A i \in Items : RowTells(i) /\ Keeps(i)
  <2> TAKE i \in Items
  <2>1. /\ mem[i] = Absent /\ disk[i] = Absent /\ i \notin rows
        /\ hist[i].wins = 0 /\ hist[i].told = {} /\ hist[i].spends = 0 /\ hist[i].paid = {}
    BY DEF Init
  <2> QED
    BY <2>1, Symbols DEF RowTells, Keeps
<1> QED
  BY <1>2, <1>3, <1>4, KeepsAll DEF QueueInv

---------------------------------------------------------------------------
(* LocalReviewQueue: what a step leaves alone                            *)

\* Nothing of item i changes.
SameItem(i) == mem'[i] = mem[i] /\ disk'[i] = disk[i] /\ hist'[i] = hist[i]

LEMMA ItemFrame ==
  ASSUME NEW i \in Items, RowTells(i), Keeps(i), SameItem(i), i \in rows' <=> i \in rows, up' = up
  PROVE  RowTells(i)' /\ Keeps(i)'
BY DEF RowTells, Keeps, SameItem

\* A call whose item stays as it was, but for the mark of a redemption.
LEMMA CopyFrame ==
  ASSUME NEW c \in Callers, CopyHolds(c), call'[c] = call[c], up' = up,
         call[c].id # NoItem => /\ mem'[call[c].id] = disk'[call[c].id]
                                /\ disk'[call[c].id].status = disk[call[c].id].status
                                /\ disk'[call[c].id].fingerprint = disk[call[c].id].fingerprint
  PROVE  CopyHolds(c)'
BY DEF CopyHolds

\* A write-through either happens or leaves no trace.
LEMMA WriteThrough ==
  ASSUME TypeOK, NEW i \in Items, NEW r \in ReviewRequest, persist(i, r)
  PROVE  /\ mem' \in [Items -> ReviewRequest] /\ disk' \in [Items -> ReviewRequest]
         /\ rows' \in SUBSET Items
         /\ \/ /\ mem'[i] = r /\ disk'[i] = r /\ rows' = rows \cup {i}
               /\ \A j \in Items : j # i => mem'[j] = mem[j] /\ disk'[j] = disk[j]
            \/ UNCHANGED <<mem, disk, rows>>
BY DEF TypeOK, persist

\* What is noted when the first reviewer is told, and at the first spending.
LEMMA FirstDecision ==
  ASSUME NEW x \in History, x.wins = 0, x.told = {}, NEW v \in Verdicts
  PROVE  LET h == [x EXCEPT !.wins = @ + 1, !.told = @ \cup {v}]
         IN  /\ h \in History /\ h.wins = 1 /\ h.told = {v}
             /\ h.spends = x.spends /\ h.paid = x.paid
<1> DEFINE h == [x EXCEPT !.wins = @ + 1, !.told = @ \cup {v}]
<1>1. h = [x EXCEPT !.wins = x.wins + 1, !.told = x.told \cup {v}]
  BY DEF History
<1>2. x.told \cup {v} = {v} /\ {v} \in SUBSET Verdicts /\ x.wins + 1 = 1
  OBVIOUS
<1> HIDE DEF h
<1>3. h = [x EXCEPT !.wins = 1, !.told = {v}]
  BY <1>1, <1>2
<1>4. /\ h \in History /\ h.wins = 1 /\ h.told = {v}
      /\ h.spends = x.spends /\ h.paid = x.paid
  BY <1>2, <1>3 DEF History
<1> QED
  BY <1>4 DEF h

LEMMA FirstSpending ==
  ASSUME NEW x \in History, x.spends = 0, x.paid = {}, NEW f \in Prints \cup {Unbound}
  PROVE  LET h == [x EXCEPT !.spends = @ + 1, !.paid = @ \cup {f}]
         IN  /\ h \in History /\ h.spends = 1 /\ h.paid = {f}
             /\ h.wins = x.wins /\ h.told = x.told
<1> DEFINE h == [x EXCEPT !.spends = @ + 1, !.paid = @ \cup {f}]
<1>1. h = [x EXCEPT !.spends = x.spends + 1, !.paid = x.paid \cup {f}]
  BY DEF History
<1>2. x.paid \cup {f} = {f} /\ {f} \in SUBSET (Prints \cup {Unbound}) /\ x.spends + 1 = 1
  OBVIOUS
<1> HIDE DEF h
<1>3. h = [x EXCEPT !.spends = 1, !.paid = {f}]
  BY <1>1, <1>2
<1>4. /\ h \in History /\ h.spends = 1 /\ h.paid = {f}
      /\ h.wins = x.wins /\ h.told = x.told
  BY <1>2, <1>3 DEF History
<1> QED
  BY <1>4 DEF h

\* The invariant after a step, from its parts.
LEMMA Assemble ==
  ASSUME TypeOK', StoppedIsEmpty',
         \A c \in Callers : CopyHolds(c)',
         \A i \in Items : RowTells(i)' /\ Keeps(i)'
  PROVE  QueueInv'
BY DEF QueueInv, QueueKeeps, MemoryMatchesDisk, DecisionSurvives, RedeemSound, Keeps

\* A step that changes neither memory nor database nor what callers know.
LEMMA SameInvariant ==
  ASSUME QueueInv, TypeOK', UNCHANGED <<up, mem, disk, rows, call, hist>>
  PROVE  QueueInv'
BY DEF QueueInv, StoppedIsEmpty, CopyHolds, RowTells, QueueKeeps, MemoryMatchesDisk,
   DecisionSurvives, RedeemSound

---------------------------------------------------------------------------
(* LocalReviewQueue: one lemma per action                                *)

LEMMA SetInvariant ==
  ASSUME QueueInv, NEW i \in Items, NEW f \in Prints \cup {Unbound}, set(i, f)
  PROVE  QueueInv'
<1> DEFINE r == [Absent EXCEPT !.status = "pending", !.enqueuedAt = now, !.fingerprint = f]
<1>1. r \in ReviewRequest /\ r.status = "pending" /\ ~ r.redeemed
  BY DEF QueueInv, TypeOK, Absent, ReviewRequest
<1>2. up /\ disk[i].status = "absent" /\ persist(i, r) /\ UNCHANGED <<now, up, call, hist>>
  BY DEF set
<1> HIDE DEF r
<1>3. TypeOK'
  BY <1>1, <1>2, WriteThrough DEF QueueInv, TypeOK
<1>4. CASE UNCHANGED <<mem, disk, rows>>
  BY <1>2, <1>3, <1>4, SameInvariant
<1>5. CASE /\ mem'[i] = r /\ disk'[i] = r /\ rows' = rows \cup {i}
           /\ \A j \in Items : j # i => mem'[j] = mem[j] /\ disk'[j] = disk[j]
  <2>1. \A j \in Items : RowTells(j) /\ Keeps(j)
    BY KeepsAll DEF QueueInv
  <2>2. RowTells(i)' /\ Keeps(i)'
    <3>1. disk[i] = Absent /\ hist[i].wins = 0 /\ hist[i].told = {} /\ hist[i].spends = 0 /\ hist[i].paid = {}
      BY <1>2, <2>1, Symbols DEF RowTells
    <3> QED
      BY <1>1, <1>2, <1>5, <3>1, Symbols DEF RowTells, Keeps
  <2>3. ASSUME NEW j \in Items PROVE RowTells(j)' /\ Keeps(j)'
    <3>1. CASE j # i
      BY <1>2, <1>5, <2>1, <3>1, ItemFrame DEF SameItem
    <3> QED
      BY <2>2, <3>1
  <2>4. ASSUME NEW c \in Callers PROVE CopyHolds(c)'
    <3>1. CopyHolds(c) /\ call[c].id \in Items \cup {NoItem}
      BY DEF QueueInv, TypeOK, Call
    <3>2. call[c].id # i
      BY <1>2, <3>1, Symbols DEF CopyHolds
    <3> QED
      BY <1>2, <1>5, <3>1, <3>2, CopyFrame DEF CopyHolds
  <2> QED
    BY <1>2, <1>3, <2>3, <2>4, Assemble DEF StoppedIsEmpty
<1> QED
  BY <1>1, <1>2, <1>4, <1>5, WriteThrough DEF QueueInv

LEMMA ResolveInvariant ==
  ASSUME QueueInv, NEW i \in Items, NEW v \in Verdicts, resolveIfPending(i, v)
  PROVE  QueueInv'
<1> DEFINE r == [mem[i] EXCEPT !.status = v, !.resolvedAt = now]
           h == [hist[i] EXCEPT !.wins = @ + 1, !.told = @ \cup {v}]
<1>0. TypeOK /\ RowTells(i) /\ Keeps(i)
  BY KeepsAll DEF QueueInv
<1>1. /\ up /\ mem[i].status = "pending" /\ persist(i, r) /\ UNCHANGED <<now, up, call>>
      /\ hist' = IF mem' = mem THEN hist ELSE [hist EXCEPT ![i] = h]
  BY DEF resolveIfPending, expiredIfStale
<1>2. mem[i] = disk[i] /\ ~ disk[i].redeemed /\ mem[i] \in ReviewRequest
  BY <1>0, <1>1, Symbols DEF Keeps, RowTells, TypeOK, Verdicts
<1>3. r \in ReviewRequest /\ r.status = v /\ ~ r.redeemed
  BY <1>0, <1>2 DEF TypeOK, ReviewRequest, Verdicts
<1>4. /\ hist[i] \in History /\ hist[i].wins = 0 /\ hist[i].told = {}
      /\ hist[i].spends = 0 /\ hist[i].paid = {}
  BY <1>0, <1>1, <1>2, Symbols DEF RowTells, TypeOK
<1>5. h \in History /\ h.wins = 1 /\ h.told = {v} /\ h.spends = 0 /\ h.paid = {}
  BY <1>4, FirstDecision
<1> HIDE DEF r, h
<1>6. TypeOK'
  <2>1. hist' \in [Items -> History]
    BY <1>0, <1>1, <1>5 DEF TypeOK
  <2> QED
    BY <1>0, <1>1, <1>3, <2>1, WriteThrough DEF TypeOK
<1>7. CASE UNCHANGED <<mem, disk, rows>>
  BY <1>1, <1>6, <1>7, SameInvariant
<1>8. CASE /\ mem'[i] = r /\ disk'[i] = r /\ rows' = rows \cup {i}
           /\ \A j \in Items : j # i => mem'[j] = mem[j] /\ disk'[j] = disk[j]
  <2>1. hist'[i] = h /\ \A j \in Items : j # i => hist'[j] = hist[j]
    <3>1. mem' # mem
      BY <1>1, <1>3, <1>8, Symbols
    <3> QED
      BY <1>0, <1>1, <3>1 DEF TypeOK
  <2>2. RowTells(i)' /\ Keeps(i)'
    BY <1>1, <1>3, <1>5, <1>8, <2>1, Symbols DEF RowTells, Keeps
  <2>3. ASSUME NEW j \in Items PROVE RowTells(j)' /\ Keeps(j)'
    <3>1. CASE j # i
      <4>1. RowTells(j) /\ Keeps(j)
        BY KeepsAll DEF QueueInv
      <4> QED
        BY <1>1, <1>8, <2>1, <3>1, <4>1, ItemFrame DEF SameItem
    <3> QED
      BY <2>2, <3>1
  <2>4. ASSUME NEW c \in Callers PROVE CopyHolds(c)'
    <3>1. CopyHolds(c) /\ call[c].id \in Items \cup {NoItem}
      BY DEF QueueInv, TypeOK, Call
    <3>2. call[c].id # i
      BY <1>1, <1>2, <3>1, Symbols DEF CopyHolds
    <3> QED
      BY <1>1, <1>8, <3>1, <3>2, CopyFrame DEF CopyHolds
  <2> QED
    BY <1>1, <1>6, <2>3, <2>4, Assemble DEF StoppedIsEmpty
<1> QED
  BY <1>0, <1>1, <1>3, <1>7, <1>8, WriteThrough

LEMMA RedeemGetInvariant ==
  ASSUME QueueInv, NEW c \in Callers, NEW i \in Items, NEW f \in Prints \cup {Unbound},
         RedeemGet(c, i, f)
  PROVE  QueueInv'
<1>0. TypeOK /\ RowTells(i) /\ Keeps(i)
  BY KeepsAll DEF QueueInv
<1>1. /\ up /\ mem[i].status = "approved" /\ mem[i].fingerprint = f /\ f # Unbound
      /\ call' = [call EXCEPT ![c] = [id |-> i, print |-> f]]
      /\ UNCHANGED <<now, up, mem, disk, rows, hist>>
  BY DEF RedeemGet, expiredIfStale
<1>2. mem[i] = disk[i]
  BY <1>0, <1>1, Symbols DEF Keeps
<1>3. TypeOK'
  BY <1>0, <1>1 DEF TypeOK, Call
<1>4. call'[c].id = i /\ call'[c].print = f /\ \A d \in Callers : d # c => call'[d] = call[d]
  BY <1>0, <1>1 DEF TypeOK
<1>5. ASSUME NEW d \in Callers PROVE CopyHolds(d)'
  <2>1. CASE d = c
    BY <1>1, <1>2, <1>4, <2>1 DEF CopyHolds
  <2>2. CASE d # c
    BY <1>1, <1>4, <2>2 DEF CopyHolds, QueueInv
  <2> QED
    BY <2>1, <2>2
<1>6. \A j \in Items : RowTells(j)' /\ Keeps(j)'
  BY <1>1, KeepsAll DEF QueueInv, RowTells, Keeps
<1> QED
  BY <1>1, <1>3, <1>5, <1>6, Assemble DEF StoppedIsEmpty

LEMMA MarkInvariant ==
  ASSUME QueueInv, NEW c \in Callers, markRedeemed(c)
  PROVE  QueueInv'
<1>i. PICK i \in Items : i = call[c].id
  BY DEF QueueInv, markRedeemed, TypeOK, Call
<1> DEFINE r == [mem[i] EXCEPT !.redeemed = TRUE]
           h == [hist[i] EXCEPT !.spends = @ + 1, !.paid = @ \cup {call[c].print}]
<1>0. TypeOK /\ call[c] \in Call /\ CopyHolds(c) /\ RowTells(i) /\ Keeps(i)
  BY KeepsAll DEF QueueInv, TypeOK
<1>1. /\ up /\ mem[i] = disk[i] /\ disk[i].status = "approved"
      /\ disk[i].fingerprint = call[c].print /\ call[c].print # Unbound
      /\ call' = [call EXCEPT ![c] = NoCall] /\ UNCHANGED <<now, up>>
  BY <1>i, <1>0, Symbols DEF markRedeemed, CopyHolds
<1>2. /\ call' \in [Callers -> Call] /\ call'[c] = NoCall
      /\ \A d \in Callers : d # c => call'[d] = call[d]
  BY <1>0, <1>1, Symbols DEF TypeOK
<1>3. CASE UNCHANGED <<mem, disk, rows, hist>>
  <2>1. \A d \in Callers : CopyHolds(d)'
    BY <1>1, <1>2, <1>3, Symbols DEF CopyHolds, QueueInv
  <2>2. \A j \in Items : RowTells(j)' /\ Keeps(j)'
    BY <1>1, <1>3, KeepsAll DEF QueueInv, RowTells, Keeps
  <2>3. TypeOK'
    BY <1>0, <1>1, <1>2, <1>3 DEF TypeOK
  <2> QED
    BY <1>1, <2>1, <2>2, <2>3, Assemble DEF StoppedIsEmpty
<1>4. CASE /\ ~ mem[i].redeemed /\ persist(i, r)
           /\ hist' = IF mem' = mem THEN hist ELSE [hist EXCEPT ![i] = h]
  <2>1. r \in ReviewRequest /\ r.status = "approved" /\ r.redeemed /\ r.fingerprint = call[c].print
    BY <1>0, <1>1 DEF TypeOK, ReviewRequest
  <2>2. hist[i] \in History /\ hist[i].spends = 0 /\ hist[i].paid = {}
    BY <1>0, <1>1, <1>4 DEF RowTells, TypeOK
  <2>3. /\ h \in History /\ h.spends = 1 /\ h.paid = {call[c].print}
        /\ h.wins = hist[i].wins /\ h.told = hist[i].told
    BY <1>0, <2>2, FirstSpending DEF Call
  <2> HIDE DEF r, h
  <2>4. TypeOK'
    <3>1. hist' \in [Items -> History]
      BY <1>0, <1>4, <2>3 DEF TypeOK
    <3> QED
      BY <1>0, <1>1, <1>2, <1>4, <2>1, <3>1, WriteThrough DEF TypeOK
  <2>5. CASE UNCHANGED <<mem, disk, rows>>
    BY <1>3, <1>4, <2>5
  <2>6. CASE /\ mem'[i] = r /\ disk'[i] = r /\ rows' = rows \cup {i}
             /\ \A j \in Items : j # i => mem'[j] = mem[j] /\ disk'[j] = disk[j]
    <3>1. hist'[i] = h /\ \A j \in Items : j # i => hist'[j] = hist[j]
      <4>1. mem' # mem
        BY <1>4, <2>1, <2>6
      <4> QED
        BY <1>0, <1>4, <4>1 DEF TypeOK
    <3>2. RowTells(i)' /\ Keeps(i)'
      <4>1. hist[i].wins <= 1 /\ hist[i].told \subseteq {"approved"}
        BY <1>0, <1>1 DEF Keeps
      <4>2. disk'[i] = r /\ mem'[i] = r /\ i \in rows' /\ hist'[i] = h
        BY <1>0, <2>6, <3>1
      <4>3. RowTells(i)'
        BY <2>1, <4>2, Symbols DEF RowTells
      <4>4. Keeps(i)'
        BY <1>1, <2>1, <2>3, <4>1, <4>2 DEF Keeps
      <4> QED
        BY <4>3, <4>4
    <3>3. ASSUME NEW j \in Items PROVE RowTells(j)' /\ Keeps(j)'
      <4>1. CASE j # i
        <5>1. RowTells(j) /\ Keeps(j)
          BY KeepsAll DEF QueueInv
        <5> QED
          BY <1>1, <2>6, <3>1, <4>1, <5>1, ItemFrame DEF SameItem
      <4>2. CASE j = i
        BY <3>2, <4>2
      <4> QED
        BY <4>1, <4>2
    <3>4. ASSUME NEW d \in Callers PROVE CopyHolds(d)'
      <4>1. CopyHolds(d) /\ call[d].id \in Items \cup {NoItem}
        BY DEF QueueInv, TypeOK, Call
      <4>2. CASE d = c
        BY <1>2, <4>2, Symbols DEF CopyHolds
      <4>3. CASE d # c
        BY <1>i, <1>1, <1>2, <2>1, <2>6, <4>1, <4>3, CopyFrame DEF CopyHolds
      <4> QED
        BY <4>2, <4>3
    <3> QED
      BY <1>1, <2>4, <3>3, <3>4, Assemble DEF StoppedIsEmpty
  <2> QED
    BY <1>0, <1>4, <2>1, <2>5, <2>6, WriteThrough
<1> QED
  BY <1>i, <1>3, <1>4 DEF markRedeemed

LEMMA StopInvariant == QueueInv /\ Stop => QueueInv'
<1> SUFFICES ASSUME QueueInv, Stop PROVE QueueInv'
  OBVIOUS
<1>1. /\ ~ up' /\ \A i \in Items : mem'[i] = Absent
      /\ \A c \in Callers : call'[c] = NoCall
      /\ UNCHANGED <<now, disk, rows, hist>>
  BY DEF Stop
<1>2. TypeOK'
  BY Symbols DEF QueueInv, TypeOK, Stop
<1>3. \A i \in Items : RowTells(i)' /\ Keeps(i)'
  BY <1>1, KeepsAll DEF QueueInv, RowTells, Keeps
<1>4. StoppedIsEmpty' /\ \A c \in Callers : CopyHolds(c)'
  BY <1>1, Symbols DEF StoppedIsEmpty, CopyHolds
<1> QED
  BY <1>2, <1>3, <1>4, Assemble

\* What load does not read back is decided: a row that waits is always there.
LEMMA LoadInvariant == QueueInv /\ load => QueueInv'
<1> SUFFICES ASSUME QueueInv, load PROVE QueueInv'
  OBVIOUS
<1>1. ~ up /\ up' = TRUE /\ UNCHANGED <<now, disk, call, hist>>
  BY DEF load
<1>2. ASSUME NEW i \in Items
      PROVE  /\ mem'[i] = disk[i] \/ (mem'[i] = Absent /\ (i \notin rows \/ disk[i].status \in Verdicts))
             /\ i \in rows' => i \in rows
             /\ i \in rows \ rows' => disk[i].status \in Verdicts
  BY <1>2 DEF load
<1>3. TypeOK'
  <2>1. mem' \in [Items -> ReviewRequest]
    BY Symbols DEF load, QueueInv, TypeOK
  <2>2. rows' \in SUBSET Items
    BY DEF load, QueueInv, TypeOK
  <2> QED
    BY <1>1, <2>1, <2>2 DEF QueueInv, TypeOK
<1>4. ASSUME NEW i \in Items PROVE RowTells(i)' /\ Keeps(i)'
  <2>1. RowTells(i) /\ Keeps(i)
    BY KeepsAll DEF QueueInv
  <2>2. disk[i].status \in {"absent", "pending"} \cup Verdicts
    BY DEF QueueInv, TypeOK, ReviewRequest
  <2>3. RowTells(i)'
    BY <1>1, <1>2, <2>1, Symbols DEF RowTells
  <2>4. mem'[i] = disk[i] \/ (mem'[i] = Absent /\ disk[i].status \in Verdicts)
    BY <1>2, <2>1, <2>2 DEF RowTells
  <2> QED
    BY <1>1, <2>1, <2>3, <2>4 DEF Keeps
<1>5. \A c \in Callers : CopyHolds(c)'
  BY <1>1, Symbols DEF QueueInv, StoppedIsEmpty, CopyHolds
<1> QED
  BY <1>1, <1>3, <1>4, <1>5, Assemble DEF StoppedIsEmpty

LEMMA StepInvariant == QueueInv /\ [Next]_vars => QueueInv'
<1> SUFFICES ASSUME QueueInv, [Next]_vars PROVE QueueInv'
  OBVIOUS
<1>1. CASE Tick
  BY <1>1, SameInvariant DEF Tick, QueueInv, TypeOK
<1>2. CASE UNCHANGED vars
  BY <1>2, SameInvariant DEF vars, QueueInv, TypeOK
<1>3. ASSUME NEW i \in Items, NEW f \in Prints \cup {Unbound}, set(i, f) PROVE QueueInv'
  BY <1>3, SetInvariant
<1>4. ASSUME NEW i \in Items, NEW v \in Verdicts, resolveIfPending(i, v) PROVE QueueInv'
  BY <1>4, ResolveInvariant
<1>5. ASSUME NEW i \in Items, NEW c \in Callers, NEW f \in Prints \cup {Unbound},
             RedeemGet(c, i, f)
      PROVE  QueueInv'
  BY <1>5, RedeemGetInvariant
<1>6. ASSUME NEW c \in Callers, markRedeemed(c) PROVE QueueInv'
  BY <1>6, MarkInvariant
<1> QED
  BY <1>1, <1>2, <1>3, <1>4, <1>5, <1>6, StopInvariant, LoadInvariant DEF Next

LEMMA Invariance == Spec => []QueueInv
BY InitInvariant, StepInvariant, PTL DEF Spec

---------------------------------------------------------------------------
(* LocalReviewQueue: the theorems                                        *)

\* Every variable of the queue keeps its type.
THEOREM TypeCorrect == Spec => []TypeOK
<1>1. QueueInv => TypeOK
  BY DEF QueueInv
<1> QED
  BY <1>1, Invariance, PTL

\* A running engine serves what SQLite holds, a reviewer who was told yes is
\* the only one and finds the verdict after any restart, and an approval buys
\* one execution of the payload it was bound to (persist, resolveIfPending,
\* markRedeemed, load).
THEOREM QueueSound == Spec => []QueueKeeps
<1>1. QueueInv => QueueKeeps
  BY DEF QueueInv
<1> QED
  BY <1>1, Invariance, PTL

---------------------------------------------------------------------------
(* LocalReviewQueue: the refinement                                      *)

\* What the lifecycle sees of a write-through.
LEMMA WrittenStatus ==
  ASSUME TypeOK, NEW i \in Items, NEW r \in ReviewRequest, persist(i, r)
  PROVE  \/ UNCHANGED disk
         \/ disk' = [disk EXCEPT ![i] = r]
BY DEF persist

\* set submits, resolveIfPending decides, markRedeemed spends, and a failed
\* write or any other step is a stutter.
LEMMA StepRefines ==
  ASSUME QueueInv, [Next]_vars
  PROVE  [Lifecycle!Next]_(Lifecycle!vars)
<1> DEFINE verdict == [i \in Items |-> disk[i].status]
           spent == {i \in Items : disk[i].redeemed}
<1> USE DEF Lifecycle!vars
<1>0. TypeOK /\ \A i \in Items : RowTells(i) /\ Keeps(i)
  BY KeepsAll DEF QueueInv
<1>1. ASSUME UNCHANGED disk PROVE UNCHANGED Lifecycle!vars
  BY <1>1
<1>2. ASSUME NEW i \in Items, NEW r \in ReviewRequest, disk' = [disk EXCEPT ![i] = r]
      PROVE  /\ verdict' = [verdict EXCEPT ![i] = r.status]
             /\ spent' = IF r.redeemed THEN spent \cup {i} ELSE spent \ {i}
  BY <1>0, <1>2 DEF TypeOK
<1>3. ASSUME NEW i \in Items, NEW f \in Prints \cup {Unbound}, set(i, f)
      PROVE  [Lifecycle!Next]_(Lifecycle!vars)
  <2> DEFINE r == [Absent EXCEPT !.status = "pending", !.enqueuedAt = now, !.fingerprint = f]
  <2>1. r \in ReviewRequest /\ r.status = "pending" /\ ~ r.redeemed
    BY <1>0 DEF TypeOK, Absent, ReviewRequest
  <2>2. disk[i].status = "absent" /\ persist(i, r)
    BY <1>3 DEF set
  <2>3. ~ disk[i].redeemed
    BY <1>0, <2>2 DEF RowTells
  <2> HIDE DEF r
  <2>4. CASE disk' = [disk EXCEPT ![i] = r]
    <3>1. verdict' = [verdict EXCEPT ![i] = "pending"] /\ spent' = spent
      BY <1>2, <2>1, <2>3, <2>4
    <3>2. Lifecycle!Submit(i)
      BY <2>2, <3>1 DEF Lifecycle!Submit
    <3> QED
      BY <3>2 DEF Lifecycle!Next
  <2> QED
    BY <1>0, <1>1, <2>1, <2>2, <2>4, WrittenStatus
<1>4. ASSUME NEW i \in Items, NEW v \in Verdicts, resolveIfPending(i, v)
      PROVE  [Lifecycle!Next]_(Lifecycle!vars)
  <2> DEFINE r == [mem[i] EXCEPT !.status = v, !.resolvedAt = now]
  <2>1. up /\ mem[i].status = "pending" /\ persist(i, r)
    BY <1>4 DEF resolveIfPending, expiredIfStale
  <2>2. mem[i] = disk[i] /\ ~ disk[i].redeemed /\ mem[i] \in ReviewRequest
    BY <1>0, <2>1, Symbols DEF Keeps, RowTells, TypeOK, Verdicts
  <2>3. r \in ReviewRequest /\ r.status = v /\ ~ r.redeemed
    BY <1>0, <2>2 DEF TypeOK, ReviewRequest, Verdicts
  <2> HIDE DEF r
  <2>4. CASE disk' = [disk EXCEPT ![i] = r]
    <3>1. verdict' = [verdict EXCEPT ![i] = v] /\ spent' = spent
      BY <1>2, <2>2, <2>3, <2>4
    <3>2. Lifecycle!Decide(i, v)
      BY <2>1, <2>2, <3>1 DEF Lifecycle!Decide
    <3> QED
      BY <3>2 DEF Lifecycle!Next
  <2> QED
    BY <1>0, <1>1, <2>1, <2>3, <2>4, WrittenStatus
<1>5. ASSUME NEW c \in Callers, markRedeemed(c)
      PROVE  [Lifecycle!Next]_(Lifecycle!vars)
  <2>1. PICK i \in Items : i = call[c].id
    BY <1>5, <1>0 DEF markRedeemed, TypeOK, Call
  <2> DEFINE r == [mem[i] EXCEPT !.redeemed = TRUE]
  <2>2. disk[i] = mem[i] /\ disk[i].status = "approved" /\ mem[i] \in ReviewRequest
    BY <1>0, <2>1, Symbols DEF QueueInv, CopyHolds, TypeOK
  <2>3. UNCHANGED disk \/ (~ mem[i].redeemed /\ persist(i, r))
    BY <1>5, <2>1 DEF markRedeemed
  <2>4. r \in ReviewRequest /\ r.status = "approved" /\ r.redeemed
    BY <2>2 DEF ReviewRequest
  <2> HIDE DEF r
  <2>5. CASE ~ mem[i].redeemed /\ disk' = [disk EXCEPT ![i] = r]
    <3>1. verdict' = [verdict EXCEPT ![i] = r.status] /\ spent' = spent \cup {i}
      BY <1>2, <2>4, <2>5
    <3>2. verdict' = verdict
      BY <2>2, <2>4, <3>1
    <3>3. Lifecycle!Spend(i)
      BY <2>2, <2>5, <3>1, <3>2 DEF Lifecycle!Spend
    <3> QED
      BY <3>3 DEF Lifecycle!Next
  <2> QED
    BY <1>0, <1>1, <2>3, <2>4, <2>5, WrittenStatus
<1>6. CASE UNCHANGED disk
  BY <1>1, <1>6
<1> QED
  BY <1>3, <1>4, <1>5, <1>6 DEF Next, Tick, Stop, load, RedeemGet, vars

\* The queue in process implements the lifecycle of ReviewLifecycle, over any
\* number of failed writes and restarts.
THEOREM RefinesLifecycle == Spec => ImplementsLifecycle
<1>1. Init => Lifecycle!Init
  BY DEF Init, Lifecycle!Init, Absent
<1>2. QueueInv /\ [Next]_vars => [Lifecycle!Next]_(Lifecycle!vars)
  BY StepRefines
<1> QED
  BY <1>1, <1>2, Invariance, PTL DEF Spec, ImplementsLifecycle, Lifecycle!Spec

---------------------------------------------------------------------------
(* OAuthServer: the inductive invariant                                    *)

\* The statements of each handler after its first, and its answers.
PCs(kind) ==
  CASE kind = "authorize" -> {"insert", "code"}
    [] kind = "exchange" -> {"delete", "client", "issue", "token"}
    [] kind = "credentials" -> {"issue", "token"}
    [] kind = "refresh" -> {"expired", "client", "rotate", "issue", "token",
                            "killTokens", "killCodes"}
    [] kind = "revokeClient" -> {"killTokens", "killCodes"}
    [] kind = "introspect" -> {"look", "owner", "active"}
    [] OTHER -> {""}

\* The grant a handler works on.
GrantsOf(kind) ==
  CASE kind = "exchange" -> {OAuth!Code(k) : k \in DOMAIN code}
    [] kind \in {"refresh", "introspect"} -> {OAuth!Token(t) : t \in DOMAIN token}
    [] OTHER -> {<<>>}

Within(scope, c) == scope \subseteq SupportedScopes \cap OAuth!Ceiling(c)

\* A call is about a registered client.  A client that was revoked before the
\* call never gets as far as a statement that hands something out, and the
\* scope in hand is within the ceiling.
CallSane(s) ==
  LET x == ocall[s]
  IN  x # OAuth!Free =>
        /\ x.kind # "free"
        /\ x.pc \in PCs(x.kind)
        /\ x.grant \in GrantsOf(x.kind)
        /\ x.client \in Clients /\ client[x.client].status # "none"
        /\ x.gone => OAuth!Revoked(x.client)
        /\ x.pc \in {"insert", "rotate", "issue"} \cup OAuth!Answered => ~ x.gone
        /\ x.pc \in {"insert", "delete", "client", "rotate", "issue"} => Within(x.scope, x.client)
        /\ x.late => x.grant \in ended

\* When no statement fails unseen, the row of a grant is gone or marked before
\* a call goes on to the statement that makes use of it.
GrantSane(s) ==
  LET x == ocall[s]
  IN  /\ x.kind = "exchange" =>
           /\ ~ x.late
           /\ x.pc # "delete" => \A k \in DOMAIN code : x.grant = OAuth!Code(k) => ~ code[k].row
      /\ x.kind = "refresh" =>
           /\ ~ x.late
           /\ x.pc \in {"issue", "token"} =>
                \A t \in DOMAIN token : x.grant = OAuth!Token(t) => token[t].revoked
      /\ x.kind = "introspect" /\ x.pc \in {"owner", "active"} => ~ x.late

\* What was answered for cannot be used again.
EndedSane ==
  /\ \A k \in DOMAIN code : OAuth!Code(k) \in ended => ~ code[k].row
  /\ \A t \in DOMAIN token : OAuth!Token(t) \in ended => token[t].revoked

RowsWithin ==
  /\ \A k \in DOMAIN code : /\ client[code[k].client].status # "none"
                            /\ Within(code[k].scope, code[k].client)
  /\ \A t \in DOMAIN token : /\ client[token[t].client].status # "none"
                             /\ Within(token[t].scope, token[t].client)

OAuthInv ==
  /\ OAuth!TypeOK
  /\ RowsWithin
  /\ \A s \in Slots : CallSane(s)
  /\ ~ fails => EndedSane /\ \A s \in Slots : GrantSane(s)

---------------------------------------------------------------------------
(* OAuthServer: names and statements                                       *)

LEMMA GrantNames ==
  \A j, k : /\ OAuth!Code(j) # OAuth!Token(k) /\ OAuth!Code(k) # <<>> /\ OAuth!Token(k) # <<>>
            /\ OAuth!Code(k)[2] = k /\ OAuth!Token(k)[2] = k
            /\ OAuth!Code(j) = OAuth!Code(k) => j = k
            /\ OAuth!Token(j) = OAuth!Token(k) => j = k
BY DEF OAuth!Code, OAuth!Token

LEMMA Statements ==
  /\ PCs("authorize") = {"insert", "code"}
  /\ PCs("exchange") = {"delete", "client", "issue", "token"}
  /\ PCs("credentials") = {"issue", "token"}
  /\ PCs("refresh") = {"expired", "client", "rotate", "issue", "token", "killTokens", "killCodes"}
  /\ PCs("revokeClient") = {"killTokens", "killCodes"}
  /\ PCs("introspect") = {"look", "owner", "active"}
BY DEF PCs

LEMMA Grants ==
  /\ GrantsOf("exchange") = {OAuth!Code(k) : k \in DOMAIN code}
  /\ GrantsOf("refresh") = {OAuth!Token(t) : t \in DOMAIN token}
  /\ GrantsOf("introspect") = {OAuth!Token(t) : t \in DOMAIN token}
  /\ GrantsOf("authorize") = {<<>>} /\ GrantsOf("credentials") = {<<>>}
  /\ GrantsOf("revokeClient") = {<<>>}
BY DEF GrantsOf

LEMMA FreeRow == OAuth!Free \in OAuth!CallRow /\ OAuth!Free.kind = "free" /\ OAuth!Free.pc = ""
BY DEF OAuth!Free, OAuth!CallRow

\* The handler a statement belongs to, and what a call knows at it.
LEMMA StatementOf ==
  ASSUME NEW kind \in {"authorize", "exchange", "credentials", "refresh", "revokeClient",
                       "introspect"},
         NEW pc \in PCs(kind)
  PROVE  /\ pc = "insert" => kind = "authorize"
         /\ pc = "delete" => kind = "exchange"
         /\ pc = "client" => kind \in {"exchange", "refresh"}
         /\ pc \in {"rotate", "expired"} => kind = "refresh"
         /\ pc = "issue" => kind \in {"exchange", "credentials", "refresh"}
         /\ pc \in {"killTokens", "killCodes"} => kind \in {"refresh", "revokeClient"}
         /\ pc \in {"look", "owner"} => kind = "introspect"
BY Statements

LEMMA Handler ==
  ASSUME OAuthInv, NEW s \in Slots, ocall[s].pc # ""
  PROVE  /\ ocall[s] \in OAuth!CallRow /\ ocall[s] # OAuth!Free /\ CallSane(s)
         /\ ocall[s].client \in Clients /\ client[ocall[s].client].status # "none"
         /\ ocall[s].pc = "insert" => ocall[s].kind = "authorize"
         /\ ocall[s].pc = "delete" => ocall[s].kind = "exchange"
         /\ ocall[s].pc = "client" => ocall[s].kind \in {"exchange", "refresh"}
         /\ ocall[s].pc \in {"rotate", "expired"} => ocall[s].kind = "refresh"
         /\ ocall[s].pc = "issue" => ocall[s].kind \in {"exchange", "credentials", "refresh"}
         /\ ocall[s].pc \in {"killTokens", "killCodes"} => ocall[s].kind \in {"refresh", "revokeClient"}
         /\ ocall[s].pc \in {"look", "owner"} => ocall[s].kind = "introspect"
<1>1. ocall[s] \in OAuth!CallRow /\ ocall[s] # OAuth!Free /\ CallSane(s)
  BY FreeRow DEF OAuthInv, OAuth!TypeOK
<1>2. ocall[s].kind \in {"authorize", "exchange", "credentials", "refresh", "revokeClient", "introspect"}
  BY <1>1 DEF CallSane, OAuth!CallRow
<1>3. ocall[s].pc \in PCs(ocall[s].kind)
  BY <1>1 DEF CallSane
<1>4. ocall[s].client \in Clients /\ client[ocall[s].client].status # "none"
  BY <1>1 DEF CallSane
<1> QED
  BY <1>1, <1>2, <1>3, <1>4, StatementOf

\* What is granted is within the ceiling.
LEMMA GrantedIsWithin ==
  \A asked, c : \A S \in OAuth!grantableScope(asked, c) : S \in SUBSET SupportedScopes /\ Within(S, c)
BY DEF OAuth!grantableScope, Within, OAuth!Ceiling

---------------------------------------------------------------------------
(* OAuthServer: how the tables change                                      *)

\* A client is registered once, and revoked for good.
ClientsEvolve ==
  /\ client' \in [Clients -> OAuth!ClientRow]
  /\ \A c \in Clients :
       client[c].status # "none" => /\ client'[c].status # "none"
                                    /\ client'[c].scopes = client[c].scopes
                                    /\ OAuth!Revoked(c) => client'[c].status = "revoked"

\* Rows are added, lose their place in the table or are marked, and keep what
\* they say.
CodesEvolve ==
  /\ code' \in Seq(OAuth!CodeRow)
  /\ \A k \in DOMAIN code : /\ k \in DOMAIN code'
                            /\ code'[k].client = code[k].client /\ code'[k].scope = code[k].scope
                            /\ code'[k].row => code[k].row
TokensEvolve ==
  /\ token' \in Seq(OAuth!TokenRow)
  /\ \A t \in DOMAIN token : /\ t \in DOMAIN token'
                             /\ token'[t].client = token[t].client
                             /\ token'[t].scope = token[t].scope
                             /\ token[t].revoked => token'[t].revoked

TablesEvolve == ClientsEvolve /\ CodesEvolve /\ TokensEvolve

LEMMA SameTables ==
  /\ OAuth!TypeOK /\ UNCHANGED client => ClientsEvolve
  /\ OAuth!TypeOK /\ UNCHANGED code => CodesEvolve
  /\ OAuth!TypeOK /\ UNCHANGED token => TokensEvolve
BY DEF OAuth!TypeOK, ClientsEvolve, CodesEvolve, TokensEvolve, OAuth!Revoked

LEMMA IssuedGrows ==
  ASSUME TablesEvolve
  PROVE  /\ OAuth!Issued \subseteq OAuth!Issued'
         /\ \A kind : GrantsOf(kind) \subseteq GrantsOf(kind)'
         /\ OAuth!CallRow \subseteq OAuth!CallRow'
<1>1. OAuth!Issued \subseteq OAuth!Issued'
  BY DEF OAuth!Issued, TablesEvolve, CodesEvolve, TokensEvolve, OAuth!Code, OAuth!Token
<1>2. \A kind : GrantsOf(kind) \subseteq GrantsOf(kind)'
  BY DEF GrantsOf, TablesEvolve, CodesEvolve, TokensEvolve, OAuth!Code, OAuth!Token
<1>3. OAuth!CallRow \subseteq OAuth!CallRow'
  BY <1>1 DEF OAuth!CallRow
<1> QED
  BY <1>1, <1>2, <1>3

LEMMA CeilingKept ==
  ASSUME TablesEvolve, NEW c \in Clients, client[c].status # "none", NEW S, Within(S, c)
  PROVE  client'[c].status # "none" /\ Within(S, c)'
BY DEF TablesEvolve, ClientsEvolve, Within, OAuth!Ceiling

\* Calls that do not move.
LEMMA CallKept ==
  ASSUME TablesEvolve, NEW s \in Slots, CallSane(s), ocall'[s] = ocall[s], ended \subseteq ended'
  PROVE  CallSane(s)'
<1>1. CASE ocall[s] = OAuth!Free
  BY <1>1 DEF CallSane
<1>2. CASE ocall[s] # OAuth!Free
  <2> DEFINE x == ocall[s]
  <2>1. x.client \in Clients /\ client'[x.client].status # "none"
    BY <1>2 DEF CallSane, TablesEvolve, ClientsEvolve
  <2>2. x.gone => client'[x.client].status = "revoked"
    BY <1>2 DEF CallSane, TablesEvolve, ClientsEvolve
  <2>3. Within(x.scope, x.client) => Within(x.scope, x.client)'
    BY <1>2, CeilingKept DEF CallSane, Within, OAuth!Ceiling, TablesEvolve, ClientsEvolve
  <2>4. x.grant \in GrantsOf(x.kind)'
    BY <1>2, IssuedGrows DEF CallSane
  <2> QED
    BY <1>2, <2>1, <2>2, <2>3, <2>4 DEF CallSane, OAuth!Revoked, PCs, Within, OAuth!Ceiling
<1> QED
  BY <1>1, <1>2

LEMMA GrantKept ==
  ASSUME TablesEvolve, NEW s \in Slots, CallSane(s), GrantSane(s), ocall'[s] = ocall[s]
  PROVE  GrantSane(s)'
<1>1. CASE ocall[s].kind = "exchange"
  <2>1. PICK k \in DOMAIN code : ocall[s].grant = OAuth!Code(k)
    <3>1. ocall[s].grant \in GrantsOf(ocall[s].kind)
      BY <1>1, FreeRow DEF CallSane
    <3> QED
      BY <1>1, <3>1, Grants
  <2> QED
    BY <1>1, <2>1, GrantNames DEF GrantSane, TablesEvolve, CodesEvolve
<1>2. CASE ocall[s].kind = "refresh"
  <2>1. PICK t \in DOMAIN token : ocall[s].grant = OAuth!Token(t)
    <3>1. ocall[s].grant \in GrantsOf(ocall[s].kind)
      BY <1>2, FreeRow DEF CallSane
    <3> QED
      BY <1>2, <3>1, Grants
  <2> QED
    BY <1>2, <2>1, GrantNames DEF GrantSane, TablesEvolve, TokensEvolve
<1>3. CASE ocall[s].kind \notin {"exchange", "refresh"}
  BY <1>3 DEF GrantSane
<1> QED
  BY <1>1, <1>2, <1>3

LEMMA RowTypes ==
  ASSUME OAuth!TypeOK
  PROVE  /\ \A k \in DOMAIN code : code[k] \in OAuth!CodeRow
         /\ \A t \in DOMAIN token : token[t] \in OAuth!TokenRow
BY DEF OAuth!TypeOK

\* The tables stay within the ceiling unless a row is added.
LEMMA NoNewRows ==
  ASSUME OAuthInv, TablesEvolve, DOMAIN code' = DOMAIN code, DOMAIN token' = DOMAIN token
  PROVE  RowsWithin'
<1>1. ASSUME NEW c \in Clients, client[c].status # "none"
      PROVE  client'[c].status # "none" /\ client'[c].scopes = client[c].scopes
  BY <1>1 DEF TablesEvolve, ClientsEvolve
<1>2. ASSUME NEW k \in DOMAIN code
      PROVE  /\ code[k].client \in Clients
             /\ code'[k].client = code[k].client /\ code'[k].scope = code[k].scope
  BY <1>2, RowTypes DEF OAuthInv, OAuth!CodeRow, TablesEvolve, CodesEvolve
<1>3. ASSUME NEW t \in DOMAIN token
      PROVE  /\ token[t].client \in Clients
             /\ token'[t].client = token[t].client /\ token'[t].scope = token[t].scope
  BY <1>3, RowTypes DEF OAuthInv, OAuth!TokenRow, TablesEvolve, TokensEvolve
<1>4. RowsWithin
  BY DEF OAuthInv
<1> QED
  <2>1. ASSUME NEW k \in DOMAIN code
        PROVE  /\ client'[code'[k].client].status # "none"
               /\ code'[k].scope \subseteq SupportedScopes \cap (IF client'[code'[k].client].scopes = {} THEN SupportedScopes
                                                           ELSE client'[code'[k].client].scopes)
    BY <1>1, <1>2, <1>4, <2>1 DEF RowsWithin, Within, OAuth!Ceiling
  <2>2. ASSUME NEW t \in DOMAIN token
        PROVE  /\ client'[token'[t].client].status # "none"
               /\ token'[t].scope \subseteq SupportedScopes \cap (IF client'[token'[t].client].scopes = {} THEN SupportedScopes
                                                            ELSE client'[token'[t].client].scopes)
    BY <1>1, <1>3, <1>4, <2>2 DEF RowsWithin, Within, OAuth!Ceiling
  <2> QED
    BY <1>2, <1>3, <2>1, <2>2 DEF RowsWithin, Within, OAuth!Ceiling

\* No answer is given for a row that is new.
LEMMA EndedKept ==
  ASSUME OAuthInv, TablesEvolve, ~ fails, ended' = ended
  PROVE  EndedSane'
<1>1. ASSUME NEW k \in DOMAIN code', OAuth!Code(k) \in ended PROVE ~ code'[k].row
  <2>1. k \in DOMAIN code
    BY <1>1, GrantNames DEF OAuthInv, OAuth!TypeOK, OAuth!Issued
  <2> QED
    BY <1>1, <2>1 DEF OAuthInv, EndedSane, TablesEvolve, CodesEvolve
<1>2. ASSUME NEW t \in DOMAIN token', OAuth!Token(t) \in ended PROVE token'[t].revoked
  <2>1. t \in DOMAIN token
    BY <1>2, GrantNames DEF OAuthInv, OAuth!TypeOK, OAuth!Issued
  <2> QED
    BY <1>2, <2>1 DEF OAuthInv, EndedSane, TablesEvolve, TokensEvolve
<1> QED
  BY <1>1, <1>2 DEF EndedSane, OAuth!Code, OAuth!Token

---------------------------------------------------------------------------
(* OAuthServer: the steps of a call                                        *)

\* The invariant after a step in which one call moves to x.
LEMMA Moved ==
  ASSUME OAuthInv, TablesEvolve, NEW s \in Slots, NEW x, x \in OAuth!CallRow', ocall' = [ocall EXCEPT ![s] = x],
         CallSane(s)', ~ fails => GrantSane(s)',
         RowsWithin', ~ fails => EndedSane',
         ended \subseteq ended', ended' \subseteq OAuth!Issued', begun' \in Nat, fails' = fails
  PROVE  OAuthInv'
<1>1. ocall'[s] = x /\ \A u \in Slots : u # s => ocall'[u] = ocall[u]
  BY DEF OAuthInv, OAuth!TypeOK
<1>2. OAuth!TypeOK'
  <2>1. ocall' \in [Slots -> OAuth!CallRow']
    BY IssuedGrows DEF OAuthInv, OAuth!TypeOK
  <2> QED
    BY <2>1 DEF OAuthInv, OAuth!TypeOK, TablesEvolve, ClientsEvolve, CodesEvolve, TokensEvolve
<1>3. ASSUME NEW u \in Slots PROVE CallSane(u)'
  BY <1>1, CallKept DEF OAuthInv
<1>4. ASSUME NEW u \in Slots, ~ fails PROVE GrantSane(u)'
  BY <1>1, <1>4, GrantKept DEF OAuthInv
<1> QED
  BY <1>2, <1>3, <1>4 DEF OAuthInv

\* A call ends.
LEMMA EndStep ==
  ASSUME OAuthInv, TablesEvolve, NEW s \in Slots, OAuth!End(s),
         RowsWithin', ~ fails => EndedSane',
         ended \subseteq ended', ended' \subseteq OAuth!Issued', UNCHANGED <<begun, fails>>
  PROVE  OAuthInv'
<1>1. ocall' = [ocall EXCEPT ![s] = OAuth!Free] /\ ocall'[s] = OAuth!Free /\ OAuth!Free \in OAuth!CallRow'
  BY FreeRow, IssuedGrows DEF OAuth!End, OAuthInv, OAuth!TypeOK
<1>2. CallSane(s)' /\ GrantSane(s)'
  BY <1>1, FreeRow DEF CallSane, GrantSane
<1> QED
  BY <1>1, <1>2, Moved DEF OAuthInv, OAuth!TypeOK

\* A call goes on to its next statement, pc, or answers.
LEMMA GotoStep ==
  ASSUME OAuthInv, TablesEvolve, NEW s \in Slots, NEW pc, OAuth!Goto(s, pc),
         ocall[s].pc # "", pc # "", pc \in PCs(ocall[s].kind),
         pc \in {"insert", "rotate", "issue"} \cup OAuth!Answered => ~ ocall[s].gone,
         pc \in {"insert", "delete", "client", "rotate", "issue"} => Within(ocall[s].scope, ocall[s].client),
         ~ fails /\ ocall[s].kind = "exchange" /\ pc # "delete" =>
           \A k \in DOMAIN code' : ocall[s].grant = OAuth!Code(k) => ~ code'[k].row,
         ~ fails /\ ocall[s].kind = "refresh" /\ pc \in {"issue", "token"} =>
           \A t \in DOMAIN token' : ocall[s].grant = OAuth!Token(t) => token'[t].revoked,
         ~ fails /\ ocall[s].kind = "introspect" /\ pc \in {"owner", "active"} => ~ ocall[s].late,
         RowsWithin', ~ fails => EndedSane',
         ended \subseteq ended', ended' \subseteq OAuth!Issued', UNCHANGED <<begun, fails>>
  PROVE  OAuthInv'
<1>0. PICK x : x = [ocall[s] EXCEPT !.pc = pc]
  OBVIOUS
<1>1. ocall[s] \in OAuth!CallRow /\ ocall[s] # OAuth!Free /\ CallSane(s)
  BY Handler
<1>2. pc \in {"insert", "delete", "client", "rotate", "expired", "issue", "killTokens",
              "killCodes", "look", "owner"} \cup OAuth!Answered
  BY <1>1, Statements DEF CallSane, OAuth!CallRow, OAuth!Answered
<1>3. x \in OAuth!CallRow /\ x.pc = pc /\ x.kind = ocall[s].kind /\ x.client = ocall[s].client
      /\ x.grant = ocall[s].grant /\ x.scope = ocall[s].scope
      /\ x.late = ocall[s].late /\ x.gone = ocall[s].gone
  BY <1>0, <1>1, <1>2 DEF OAuth!CallRow
<1>4. ocall' = [ocall EXCEPT ![s] = x]
  BY <1>0 DEF OAuth!Goto
<1>5. ocall'[s] = x /\ x \in OAuth!CallRow'
  BY <1>3, <1>4, IssuedGrows DEF OAuthInv, OAuth!TypeOK
<1>6. CallSane(s)'
  <2>1. x.grant \in GrantsOf(x.kind)' /\ x.kind # "free"
    BY <1>1, <1>3, IssuedGrows DEF CallSane
  <2>2. /\ x.client \in Clients /\ client'[x.client].status # "none"
        /\ x.gone => client'[x.client].status = "revoked"
    BY <1>1, <1>3 DEF CallSane, TablesEvolve, ClientsEvolve
  <2>3. Within(x.scope, x.client) => Within(x.scope, x.client)'
    BY <1>1, <1>3 DEF CallSane, Within, OAuth!Ceiling, TablesEvolve, ClientsEvolve
  <2>4. x.late => x.grant \in ended'
    BY <1>1, <1>3 DEF CallSane
  <2> QED
    BY <1>3, <1>5, <2>1, <2>2, <2>3, <2>4 DEF CallSane, OAuth!Revoked, PCs, Within, OAuth!Ceiling
<1>7. ASSUME ~ fails PROVE GrantSane(s)'
  <2>1. GrantSane(s)
    BY <1>7 DEF OAuthInv
  <2> QED
    BY <1>3, <1>5, <1>7, <2>1 DEF GrantSane, OAuth!Code, OAuth!Token
<1> QED
  BY <1>4, <1>5, <1>6, <1>7, Moved DEF OAuthInv, OAuth!TypeOK

\* A call begins.
LEMMA BeginStep ==
  ASSUME OAuthInv, TablesEvolve, NEW s \in Slots, NEW kind, NEW pc, NEW c \in Clients,
         NEW grant, NEW scope \in SUBSET SupportedScopes,
         OAuth!Begin(s, kind, pc, c, grant, scope),
         kind \in {"authorize", "exchange", "credentials", "refresh", "revokeClient", "introspect"},
         pc \in PCs(kind), pc \notin OAuth!Answered \cup {"rotate"}, grant \in GrantsOf(kind),
         client[c].status # "none",
         pc \in {"insert", "issue"} => ~ OAuth!Revoked(c) /\ kind \notin {"exchange", "refresh"},
         pc \in {"insert", "delete", "client", "issue"} => Within(scope, c),
         kind = "exchange" => pc = "delete",
         kind = "introspect" => pc = "look",
         ~ fails /\ kind \in {"exchange", "refresh"} => grant \notin ended,
         RowsWithin', UNCHANGED <<ended, fails>>
  PROVE  OAuthInv'
<1>a. PICK x : x = [kind |-> kind, pc |-> pc, client |-> c, grant |-> grant, scope |-> scope,
                    late |-> grant \in ended, gone |-> OAuth!Revoked(c)]
  OBVIOUS
<1>0. ocall' = [ocall EXCEPT ![s] = x] /\ begun' \in Nat
  BY <1>a DEF OAuth!Begin, OAuthInv, OAuth!TypeOK
<1>1. grant \in {<<>>} \cup OAuth!Issued
  BY DEF GrantsOf, OAuth!Issued
<1>2. pc \in {"insert", "delete", "client", "rotate", "expired", "issue", "killTokens",
              "killCodes", "look", "owner"} \cup OAuth!Answered
  BY Statements DEF OAuth!Answered
<1>3. x \in OAuth!CallRow
  <2>1. (grant \in ended) \in BOOLEAN /\ OAuth!Revoked(c) \in BOOLEAN
    BY DEF OAuth!Revoked
  <2>2. kind \in {"free", "authorize", "exchange", "credentials", "refresh", "revokeClient",
                  "introspect"}
    OBVIOUS
  <2> QED
    BY <1>a, <1>1, <1>2, <2>1, <2>2 DEF OAuth!CallRow
<1>4. /\ x.kind = kind /\ x.pc = pc /\ x.client = c /\ x.grant = grant /\ x.scope = scope
      /\ x.late = (grant \in ended) /\ x.gone = OAuth!Revoked(c)
  BY <1>a
<1>5. ocall'[s] = x /\ x \in OAuth!CallRow'
  BY <1>0, <1>3, IssuedGrows DEF OAuthInv, OAuth!TypeOK
<1>6. CallSane(s)'
  <2>1. x.grant \in GrantsOf(x.kind)'
    BY <1>4, IssuedGrows
  <2>2. /\ client'[x.client].status # "none"
        /\ x.gone => client'[x.client].status = "revoked"
    BY <1>4 DEF TablesEvolve, ClientsEvolve, OAuth!Revoked
  <2>3. x.pc \in {"insert", "delete", "client", "rotate", "issue"} => Within(x.scope, x.client)'
    <3>1. pc \in {"insert", "delete", "client", "issue"} => Within(scope, c)'
      BY DEF Within, OAuth!Ceiling, TablesEvolve, ClientsEvolve
    <3> QED
      BY <1>4, <3>1 DEF Within, OAuth!Ceiling
  <2> QED
    BY <1>4, <1>5, <2>1, <2>2, <2>3 DEF CallSane, OAuth!Revoked, PCs, Within, OAuth!Ceiling
<1>7. ~ fails => GrantSane(s)'
  BY <1>4, <1>5 DEF GrantSane, OAuth!Answered
<1> QED
  BY <1>0, <1>5, <1>6, <1>7, EndedKept, IssuedGrows, Moved DEF OAuthInv, OAuth!TypeOK

---------------------------------------------------------------------------
(* OAuthServer: one lemma per action, first those that begin a call        *)

LEMMA OAuthInit == OAuth!Init => OAuthInv
<1> SUFFICES ASSUME OAuth!Init PROVE OAuthInv
  OBVIOUS
<1>1. /\ code = <<>> /\ token = <<>> /\ ended = {} /\ begun = 0 /\ fails \in BOOLEAN
      /\ client \in [Clients -> OAuth!ClientRow]
  BY DEF OAuth!Init, OAuth!ClientRow
<1>2. DOMAIN code = {} /\ DOMAIN token = {} /\ code \in Seq(OAuth!CodeRow) /\ token \in Seq(OAuth!TokenRow)
  BY <1>1
<1>3. \A s \in Slots : ocall[s] = OAuth!Free
  BY DEF OAuth!Init
<1>4. OAuth!TypeOK
  <2>1. ocall \in [Slots -> OAuth!CallRow]
    BY FreeRow DEF OAuth!Init
  <2> QED
    BY <1>1, <1>2, <2>1 DEF OAuth!TypeOK
<1>5. \A s \in Slots : CallSane(s) /\ GrantSane(s)
  BY <1>3, FreeRow DEF CallSane, GrantSane
<1> QED
  BY <1>1, <1>2, <1>4, <1>5 DEF OAuthInv, RowsWithin, EndedSane

LEMMA RestTables == OAuthInv /\ UNCHANGED <<client, code, token>> => TablesEvolve /\ RowsWithin'
<1> SUFFICES ASSUME OAuthInv, UNCHANGED <<client, code, token>> PROVE TablesEvolve /\ RowsWithin'
  OBVIOUS
<1>1. TablesEvolve
  BY SameTables DEF OAuthInv, TablesEvolve
<1> QED
  BY <1>1, NoNewRows

LEMMA AuthorizeInvariant ==
  ASSUME OAuthInv, NEW s \in Slots, NEW c \in Clients, NEW asked,
         OAuth!handleAuthorize(s, c, asked) \/ OAuth!handleClientCredentials(s, c, asked)
  PROVE  OAuthInv'
<1>1. /\ client[c].status = "live" /\ UNCHANGED <<client, code, token, ended, fails>>
      /\ \E scope \in OAuth!grantableScope(asked, c) :
           \/ OAuth!Begin(s, "authorize", "insert", c, <<>>, scope)
           \/ OAuth!Begin(s, "credentials", "issue", c, <<>>, scope)
  BY DEF OAuth!handleAuthorize, OAuth!handleClientCredentials
<1>2. PICK scope \in SUBSET SupportedScopes :
        /\ Within(scope, c)
        /\ \/ OAuth!Begin(s, "authorize", "insert", c, <<>>, scope)
           \/ OAuth!Begin(s, "credentials", "issue", c, <<>>, scope)
  BY <1>1, GrantedIsWithin
<1>3. /\ "insert" \notin OAuth!Answered \cup {"rotate"} /\ "issue" \notin OAuth!Answered \cup {"rotate"}
      /\ ~ OAuth!Revoked(c)
  BY <1>1 DEF OAuth!Answered, OAuth!Revoked
<1>4. TablesEvolve /\ RowsWithin'
  BY <1>1, RestTables
<1>5. CASE OAuth!Begin(s, "authorize", "insert", c, <<>>, scope)
  BY <1>1, <1>2, <1>3, <1>4, <1>5, Statements, Grants, BeginStep
<1>6. CASE OAuth!Begin(s, "credentials", "issue", c, <<>>, scope)
  BY <1>1, <1>2, <1>3, <1>4, <1>6, Statements, Grants, BeginStep
<1> QED
  BY <1>2, <1>5, <1>6

\* A code whose row is there was not answered for.
LEMMA ExchangeInvariant ==
  ASSUME OAuthInv, NEW s \in Slots, NEW k \in DOMAIN code, OAuth!handleAuthCodeExchange(s, k)
  PROVE  OAuthInv'
<1>1. /\ code[k].row /\ UNCHANGED <<client, code, token, ended, fails>>
      /\ OAuth!Begin(s, "exchange", "delete", code[k].client, OAuth!Code(k), code[k].scope)
  BY DEF OAuth!handleAuthCodeExchange
<1>2. /\ code[k].client \in Clients /\ code[k].scope \in SUBSET SupportedScopes
      /\ client[code[k].client].status # "none" /\ Within(code[k].scope, code[k].client)
  BY RowTypes DEF OAuthInv, OAuth!CodeRow, RowsWithin
<1>3. ~ fails => OAuth!Code(k) \notin ended
  BY <1>1 DEF OAuthInv, EndedSane
<1>4. TablesEvolve /\ RowsWithin' /\ "delete" \notin OAuth!Answered \cup {"rotate"}
  BY <1>1, RestTables DEF OAuth!Answered
<1>5. PICK c \in Clients, g \in GrantsOf("exchange"), S \in SUBSET SupportedScopes :
         c = code[k].client /\ g = OAuth!Code(k) /\ S = code[k].scope
  BY <1>2, Grants
<1>6. OAuth!Begin(s, "exchange", "delete", c, g, S) /\ client[c].status # "none" /\ Within(S, c)
  BY <1>1, <1>2, <1>5
<1>7. "delete" \in PCs("exchange") /\ g \in GrantsOf("exchange") /\ UNCHANGED <<ended, fails>>
  BY <1>1, <1>5, Statements
<1> QED
  BY <1>3, <1>4, <1>5, <1>6, <1>7, BeginStep

\* A token that is not marked was not answered for.
LEMMA RefreshInvariant ==
  ASSUME OAuthInv, NEW s \in Slots, NEW t \in DOMAIN token, OAuth!handleRefreshToken(s, t)
  PROVE  OAuthInv'
<1>1. /\ ~ token[t].revoked /\ UNCHANGED <<client, code, token, ended, fails>>
      /\ \/ OAuth!Begin(s, "refresh", "expired", token[t].client, OAuth!Token(t), token[t].scope)
         \/ OAuth!Begin(s, "refresh", "client", token[t].client, OAuth!Token(t), token[t].scope)
  BY DEF OAuth!handleRefreshToken
<1>2. /\ token[t].client \in Clients /\ token[t].scope \in SUBSET SupportedScopes
      /\ client[token[t].client].status # "none" /\ Within(token[t].scope, token[t].client)
  BY RowTypes DEF OAuthInv, OAuth!TokenRow, RowsWithin
<1>3. ~ fails => OAuth!Token(t) \notin ended
  BY <1>1 DEF OAuthInv, EndedSane
<1>4. /\ TablesEvolve /\ RowsWithin'
      /\ "expired" \notin OAuth!Answered \cup {"rotate"} /\ "client" \notin OAuth!Answered \cup {"rotate"}
  BY <1>1, RestTables DEF OAuth!Answered
<1>5. PICK c \in Clients, g \in GrantsOf("refresh"), S \in SUBSET SupportedScopes :
         c = token[t].client /\ g = OAuth!Token(t) /\ S = token[t].scope
  BY <1>2, Grants
<1>6. client[c].status # "none" /\ Within(S, c) /\ (~ fails => g \notin ended)
  BY <1>2, <1>3, <1>5
<1>7. CASE OAuth!Begin(s, "refresh", "expired", c, g, S)
  <2>1. "expired" \in PCs("refresh")
    BY Statements
  <2> QED
    BY <1>1, <1>4, <1>6, <1>7, <2>1, BeginStep
<1>8. CASE OAuth!Begin(s, "refresh", "client", c, g, S)
  BY <1>1, <1>4, <1>6, <1>8, Statements, BeginStep
<1> QED
  BY <1>1, <1>5, <1>7, <1>8

LEMMA IntrospectInvariant ==
  ASSUME OAuthInv, NEW s \in Slots, NEW t \in DOMAIN token, OAuth!handleIntrospect(s, t)
  PROVE  OAuthInv'
<1>1. /\ UNCHANGED <<client, code, token, ended, fails>>
      /\ OAuth!Begin(s, "introspect", "look", token[t].client, OAuth!Token(t), {})
  BY DEF OAuth!handleIntrospect
<1>2. token[t].client \in Clients /\ client[token[t].client].status # "none"
  BY RowTypes DEF OAuthInv, OAuth!TokenRow, RowsWithin
<1>3. TablesEvolve /\ RowsWithin' /\ "look" \notin OAuth!Answered \cup {"rotate"}
  BY <1>1, RestTables DEF OAuth!Answered
<1>4. PICK c \in Clients, g \in GrantsOf("introspect"), S \in SUBSET SupportedScopes :
         c = token[t].client /\ g = OAuth!Token(t) /\ S = {}
  BY <1>2, Grants
<1>5. OAuth!Begin(s, "introspect", "look", c, g, S) /\ client[c].status # "none"
  BY <1>1, <1>2, <1>4
<1> QED
  BY <1>1, <1>3, <1>5, Statements, BeginStep

LEMMA RevokeClientInvariant ==
  ASSUME OAuthInv, NEW s \in Slots, NEW c \in Clients, OAuth!handleRevokeClient(s, c)
  PROVE  OAuthInv'
<1>1. /\ client[c].status # "none" /\ UNCHANGED <<code, token, ended, fails>>
      /\ client' = [client EXCEPT ![c].status = "revoked"]
      /\ OAuth!Begin(s, "revokeClient", "killTokens", c, <<>>, {})
  BY DEF OAuth!handleRevokeClient
<1>2. ClientsEvolve
  BY <1>1 DEF OAuthInv, OAuth!TypeOK, ClientsEvolve, OAuth!ClientRow, OAuth!Revoked
<1>3. TablesEvolve /\ RowsWithin' /\ "killTokens" \notin OAuth!Answered \cup {"rotate"}
  BY <1>1, <1>2, SameTables, NoNewRows DEF OAuthInv, TablesEvolve, OAuth!Answered
<1>4. PICK g \in GrantsOf("revokeClient"), S \in SUBSET SupportedScopes : g = <<>> /\ S = {}
  BY Grants
<1>5. OAuth!Begin(s, "revokeClient", "killTokens", c, g, S)
  BY <1>1, <1>4
<1> QED
  BY <1>1, <1>3, <1>5, Statements, BeginStep

---------------------------------------------------------------------------
(* OAuthServer: what statements do to the rows                             *)

\* A statement on rows that are there keeps the table a table.
LEMMA CodeRewrite ==
  ASSUME OAuth!TypeOK, DOMAIN code' = DOMAIN code, code' = [k \in DOMAIN code |-> code'[k]],
         \A k \in DOMAIN code : /\ code'[k] \in OAuth!CodeRow
                                /\ code'[k].client = code[k].client
                                /\ code'[k].scope = code[k].scope
                                /\ code'[k].row => code[k].row
  PROVE  CodesEvolve
<1>1. Len(code) \in Nat /\ DOMAIN code = 1..Len(code)
  BY DEF OAuth!TypeOK
<1>2. code' \in [1..Len(code) -> OAuth!CodeRow]
  BY <1>1
<1>3. code' \in Seq(OAuth!CodeRow)
  BY <1>1, <1>2, SeqDef
<1> QED
  BY <1>3 DEF CodesEvolve

LEMMA TokenRewrite ==
  ASSUME OAuth!TypeOK, DOMAIN token' = DOMAIN token, token' = [t \in DOMAIN token |-> token'[t]],
         \A t \in DOMAIN token : /\ token'[t] \in OAuth!TokenRow
                                 /\ token'[t].client = token[t].client
                                 /\ token'[t].scope = token[t].scope
                                 /\ token[t].revoked => token'[t].revoked
  PROVE  TokensEvolve
<1>1. Len(token) \in Nat /\ DOMAIN token = 1..Len(token)
  BY DEF OAuth!TypeOK
<1>2. token' \in [1..Len(token) -> OAuth!TokenRow]
  BY <1>1
<1>3. token' \in Seq(OAuth!TokenRow)
  BY <1>1, <1>2, SeqDef
<1> QED
  BY <1>3 DEF TokensEvolve

\* DELETE of one code.
LEMMA CodeDeleted ==
  ASSUME OAuth!TypeOK, NEW k \in DOMAIN code, code' = [code EXCEPT ![k].row = FALSE]
  PROVE  CodesEvolve /\ DOMAIN code' = DOMAIN code /\ ~ code'[k].row
<1>1. \A j \in DOMAIN code : code[j] \in OAuth!CodeRow
  BY RowTypes
<1>2. DOMAIN code' = DOMAIN code /\ code' = [j \in DOMAIN code |-> code'[j]]
  OBVIOUS
<1>3. \A j \in DOMAIN code : code'[j] = IF j = k THEN [code[j] EXCEPT !.row = FALSE] ELSE code[j]
  OBVIOUS
<1>4. ASSUME NEW j \in DOMAIN code
      PROVE  /\ code'[j] \in OAuth!CodeRow
             /\ code'[j].client = code[j].client /\ code'[j].scope = code[j].scope
             /\ code'[j].row => code[j].row
             /\ j = k => ~ code'[j].row
  BY <1>1, <1>3 DEF OAuth!CodeRow
<1> QED
  BY <1>2, <1>4, CodeRewrite

\* UPDATE of one token, or its DELETE.
LEMMA TokenMarked ==
  ASSUME OAuth!TypeOK, NEW t \in DOMAIN token, token' = [token EXCEPT ![t].revoked = TRUE]
  PROVE  TokensEvolve /\ DOMAIN token' = DOMAIN token /\ token'[t].revoked
<1>1. \A j \in DOMAIN token : token[j] \in OAuth!TokenRow
  BY RowTypes
<1>2. DOMAIN token' = DOMAIN token /\ token' = [j \in DOMAIN token |-> token'[j]]
  OBVIOUS
<1>3. \A j \in DOMAIN token :
        token'[j] = IF j = t THEN [token[j] EXCEPT !.revoked = TRUE] ELSE token[j]
  OBVIOUS
<1>4. ASSUME NEW j \in DOMAIN token
      PROVE  /\ token'[j] \in OAuth!TokenRow
             /\ token'[j].client = token[j].client /\ token'[j].scope = token[j].scope
             /\ token[j].revoked => token'[j].revoked
             /\ j = t => token'[j].revoked
  BY <1>1, <1>3 DEF OAuth!TokenRow
<1> QED
  BY <1>2, <1>4, TokenRewrite

LEMMA TokenDeleted ==
  ASSUME OAuth!TypeOK, NEW t \in DOMAIN token, token' = [token EXCEPT ![t].row = FALSE]
  PROVE  TokensEvolve /\ DOMAIN token' = DOMAIN token
<1>1. \A j \in DOMAIN token : token[j] \in OAuth!TokenRow
  BY RowTypes
<1>2. DOMAIN token' = DOMAIN token /\ token' = [j \in DOMAIN token |-> token'[j]]
  OBVIOUS
<1>3. \A j \in DOMAIN token :
        token'[j] = IF j = t THEN [token[j] EXCEPT !.row = FALSE] ELSE token[j]
  OBVIOUS
<1>4. ASSUME NEW j \in DOMAIN token
      PROVE  /\ token'[j] \in OAuth!TokenRow
             /\ token'[j].client = token[j].client /\ token'[j].scope = token[j].scope
             /\ token[j].revoked => token'[j].revoked
  BY <1>1, <1>3 DEF OAuth!TokenRow
<1> QED
  BY <1>2, <1>4, TokenRewrite

---------------------------------------------------------------------------
(* OAuthServer: the actions that move a call                               *)

\* A grant for which an answer is given: its row must be gone, or marked.
LEMMA EndedAdded ==
  ASSUME OAuthInv, TablesEvolve, NEW g \in OAuth!Issued, ended' = ended \cup {g},
         ~ fails => /\ \A k \in DOMAIN code : g = OAuth!Code(k) => ~ code'[k].row
                    /\ \A t \in DOMAIN token : g = OAuth!Token(t) => token'[t].revoked
  PROVE  ended' \subseteq OAuth!Issued' /\ (~ fails => EndedSane')
<1>1. ended' \subseteq OAuth!Issued'
  BY IssuedGrows DEF OAuthInv, OAuth!TypeOK
<1>2. ASSUME ~ fails, NEW k \in DOMAIN code', OAuth!Code(k) \in ended' PROVE ~ code'[k].row
  <2>1. k \in DOMAIN code
    BY <1>2, GrantNames DEF OAuthInv, OAuth!TypeOK, OAuth!Issued
  <2> QED
    BY <1>2, <2>1 DEF OAuthInv, EndedSane, TablesEvolve, CodesEvolve
<1>3. ASSUME ~ fails, NEW t \in DOMAIN token', OAuth!Token(t) \in ended' PROVE token'[t].revoked
  <2>1. t \in DOMAIN token
    BY <1>3, GrantNames DEF OAuthInv, OAuth!TypeOK, OAuth!Issued
  <2> QED
    BY <1>3, <2>1 DEF OAuthInv, EndedSane, TablesEvolve, TokensEvolve
<1> QED
  BY <1>1, <1>2, <1>3 DEF EndedSane, OAuth!Code, OAuth!Token

LEMMA InsertCodeInvariant ==
  ASSUME OAuthInv, NEW s \in Slots, OAuth!InsertCode(s)
  PROVE  OAuthInv'
<1>1. /\ ocall[s].pc = "insert" /\ OAuth!Goto(s, "code")
      /\ code' = Append(code, [client |-> ocall[s].client, scope |-> ocall[s].scope,
                               row |-> TRUE, expired |-> FALSE])
      /\ UNCHANGED <<client, token, ended, begun, fails>>
  BY DEF OAuth!InsertCode, OAuth!Answer
<1>2. /\ ocall[s] \in OAuth!CallRow /\ CallSane(s) /\ ocall[s] # OAuth!Free /\ ocall[s].kind = "authorize"
      /\ ocall[s].client \in Clients /\ client[ocall[s].client].status # "none"
      /\ ~ ocall[s].gone /\ Within(ocall[s].scope, ocall[s].client)
  BY <1>1, Handler DEF CallSane
<1>3. PICK r \in OAuth!CodeRow : /\ r.client = ocall[s].client /\ r.scope = ocall[s].scope
                           /\ code' = Append(code, r)
  BY <1>1, <1>2 DEF OAuth!CodeRow, OAuth!CallRow
<1>4. /\ code' \in Seq(OAuth!CodeRow) /\ Len(code') = Len(code) + 1 /\ Len(code) \in Nat
      /\ DOMAIN code = 1..Len(code) /\ DOMAIN code' = 1..(Len(code) + 1)
      /\ \A k \in DOMAIN code : code'[k] = code[k]
      /\ code'[Len(code) + 1] = r
  BY <1>3 DEF OAuthInv, OAuth!TypeOK
<1>5. TablesEvolve
  <2>1. CodesEvolve
    BY <1>4 DEF CodesEvolve
  <2> QED
    BY <1>1, <2>1, SameTables DEF OAuthInv, TablesEvolve
<1>6. RowsWithin'
  <2>1. ASSUME NEW k \in DOMAIN code' PROVE k \in DOMAIN code \/ code'[k] = r
    BY <1>4
  <2>2. RowsWithin
    BY DEF OAuthInv
  <2> QED
    <3>1. ASSUME NEW k \in DOMAIN code'
          PROVE  /\ client[code'[k].client].status # "none"
                 /\ Within(code'[k].scope, code'[k].client)
      BY <1>2, <1>3, <1>4, <2>1, <2>2 DEF RowsWithin
    <3>2. UNCHANGED <<client, token>>
      BY <1>1
    <3>3. \A S, c : Within(S, c)' <=> Within(S, c)
      BY <3>2 DEF Within, OAuth!Ceiling
    <3> QED
      BY <2>2, <3>1, <3>2 DEF RowsWithin, Within, OAuth!Ceiling
<1>7. ~ fails => EndedSane'
  BY <1>1, <1>5, EndedKept
<1> QED
  BY <1>1, <1>2, <1>5, <1>6, <1>7, Statements, IssuedGrows, GotoStep DEF OAuthInv, OAuth!TypeOK, OAuth!Answered

\* The code or token a call works on.
LEMMA GrantRow ==
  ASSUME OAuthInv, NEW s \in Slots, ocall[s] # OAuth!Free
  PROVE  /\ ocall[s].kind = "exchange" =>
              \E k \in DOMAIN code : ocall[s].grant = OAuth!Code(k) /\ ocall[s].grant[2] = k
         /\ ocall[s].kind \in {"refresh", "introspect"} =>
              \E t \in DOMAIN token : ocall[s].grant = OAuth!Token(t) /\ ocall[s].grant[2] = t
<1>1. ocall[s].grant \in GrantsOf(ocall[s].kind)
  BY DEF OAuthInv, CallSane
<1> QED
  BY <1>1, Grants, GrantNames

\* The code's row is gone before anything is checked.
LEMMA DeleteCodeInvariant ==
  ASSUME OAuthInv, NEW s \in Slots, NEW proof, OAuth!DeleteCode(s, proof)
  PROVE  OAuthInv'
<1>0. ocall[s].pc = "delete" /\ UNCHANGED <<client, token, begun, fails>>
  BY DEF OAuth!DeleteCode
<1>1. /\ ocall[s].kind = "exchange" /\ CallSane(s) /\ ocall[s] # OAuth!Free
      /\ Within(ocall[s].scope, ocall[s].client)
  BY <1>0, Handler DEF CallSane
<1>2. PICK k \in DOMAIN code : ocall[s].grant = OAuth!Code(k) /\ ocall[s].grant[2] = k
  BY <1>1, GrantRow
<1>3. /\ code' = [code EXCEPT ![k].row = FALSE] \/ (fails /\ code' = code)
      /\ \/ OAuth!Goto(s, "client") /\ UNCHANGED ended
         \/ OAuth!End(s) /\ ended' = ended \cup {OAuth!Code(k)}
  BY <1>2 DEF OAuth!DeleteCode
<1>4. CodesEvolve /\ DOMAIN code' = DOMAIN code /\ (~ fails => ~ code'[k].row)
  BY <1>3, CodeDeleted, SameTables DEF OAuthInv
<1>5. TablesEvolve /\ RowsWithin'
  BY <1>0, <1>4, SameTables, NoNewRows DEF OAuthInv, TablesEvolve
<1>6. CASE OAuth!Goto(s, "client") /\ UNCHANGED ended
  <2>1. ~ fails => \A j \in DOMAIN code' : ocall[s].grant = OAuth!Code(j) => ~ code'[j].row
    BY <1>2, <1>4, GrantNames
  <2>2. /\ ~ fails => EndedSane'
        /\ ended' \subseteq OAuth!Issued'
    BY <1>5, <1>6, EndedKept, IssuedGrows DEF OAuthInv, OAuth!TypeOK
  <2>3. "client" \in PCs(ocall[s].kind) /\ "client" \notin {"insert", "rotate", "issue"} \cup OAuth!Answered
    BY <1>1, Statements DEF OAuth!Answered
  <2> QED
    BY <1>0, <1>1, <1>5, <1>6, <2>1, <2>2, <2>3, GotoStep
<1>7. CASE OAuth!End(s) /\ ended' = ended \cup {OAuth!Code(k)}
  <2>1. OAuth!Code(k) \in OAuth!Issued
    BY DEF OAuth!Issued
  <2>2. /\ ~ fails => \A j \in DOMAIN code : OAuth!Code(k) = OAuth!Code(j) => ~ code'[j].row
        /\ \A t \in DOMAIN token : OAuth!Code(k) # OAuth!Token(t)
    BY <1>4, GrantNames
  <2>3. ended' \subseteq OAuth!Issued' /\ (~ fails => EndedSane')
    BY <1>5, <1>7, <2>1, <2>2, EndedAdded
  <2> QED
    BY <1>0, <1>5, <1>7, <2>3, EndStep
<1> QED
  BY <1>3, <1>6, <1>7

LEMMA DeleteExpiredInvariant ==
  ASSUME OAuthInv, NEW s \in Slots, OAuth!DeleteExpired(s)
  PROVE  OAuthInv'
<1>0. ocall[s].pc = "expired" /\ OAuth!End(s) /\ UNCHANGED <<client, code, ended, begun, fails>>
  BY DEF OAuth!DeleteExpired
<1>1. PICK t \in DOMAIN token : ocall[s].grant[2] = t
  BY <1>0, Handler, GrantRow
<1>2. token' = [token EXCEPT ![t].row = FALSE] \/ token' = token
  BY <1>1 DEF OAuth!DeleteExpired
<1>3. TokensEvolve /\ DOMAIN token' = DOMAIN token
  BY <1>2, TokenDeleted, SameTables DEF OAuthInv
<1>4. TablesEvolve /\ RowsWithin'
  BY <1>0, <1>3, SameTables, NoNewRows DEF OAuthInv, TablesEvolve
<1> QED
  BY <1>0, <1>4, EndedKept, IssuedGrows, EndStep DEF OAuthInv, OAuth!TypeOK

\* The mark that keeps later calls out is set before the successor is issued.
LEMMA RotateInvariant ==
  ASSUME OAuthInv, NEW s \in Slots, OAuth!Rotate(s)
  PROVE  OAuthInv'
<1>0. ocall[s].pc = "rotate" /\ OAuth!Goto(s, "issue") /\ UNCHANGED <<client, code, ended, begun, fails>>
  BY DEF OAuth!Rotate
<1>1. /\ ocall[s].kind = "refresh" /\ CallSane(s) /\ ocall[s] # OAuth!Free
      /\ Within(ocall[s].scope, ocall[s].client) /\ ~ ocall[s].gone
  BY <1>0, Handler DEF CallSane
<1>2. PICK t \in DOMAIN token : ocall[s].grant = OAuth!Token(t) /\ ocall[s].grant[2] = t
  BY <1>1, GrantRow
<1>3. token' = [token EXCEPT ![t].revoked = TRUE] \/ (fails /\ token' = token)
  BY <1>2 DEF OAuth!Rotate
<1>4. TokensEvolve /\ DOMAIN token' = DOMAIN token /\ (~ fails => token'[t].revoked)
  BY <1>3, TokenMarked, SameTables DEF OAuthInv
<1>5. TablesEvolve /\ RowsWithin'
  BY <1>0, <1>4, SameTables, NoNewRows DEF OAuthInv, TablesEvolve
<1>6. ~ fails => \A j \in DOMAIN token' : ocall[s].grant = OAuth!Token(j) => token'[j].revoked
  BY <1>2, <1>4, GrantNames
<1>7. (~ fails => EndedSane') /\ ended' \subseteq OAuth!Issued'
  BY <1>0, <1>5, EndedKept, IssuedGrows DEF OAuthInv, OAuth!TypeOK
<1>8. "issue" \in PCs(ocall[s].kind)
  BY <1>1, Statements
<1> QED
  BY <1>0, <1>1, <1>5, <1>6, <1>7, <1>8, GotoStep

\* A client that is not live gets no further.
LEMMA LiveClientInvariant ==
  ASSUME OAuthInv, NEW s \in Slots, NEW secret, OAuth!getLiveClient(s, secret)
  PROVE  OAuthInv'
<1> DEFINE c == ocall[s].client
<1>0. ocall[s].pc = "client" /\ UNCHANGED <<client, code, token, begun, fails>>
  BY DEF OAuth!getLiveClient
<1>1. /\ ocall[s].kind \in {"exchange", "refresh"} /\ CallSane(s) /\ ocall[s] # OAuth!Free
      /\ ocall[s] \in OAuth!CallRow /\ c \in Clients
  BY <1>0, Handler
<1>2. TablesEvolve /\ RowsWithin'
  BY <1>0, RestTables
<1>3. \/ OAuth!End(s)
      \/ ocall[s].kind = "refresh" /\ OAuth!Goto(s, "killTokens")
      \/ /\ client[c].status = "live"
         /\ \E S \in OAuth!grantableScope(ocall[s].scope, c) :
              ocall' = [ocall EXCEPT ![s].pc = IF ocall[s].kind = "refresh" THEN "rotate" ELSE "issue",
                                   ![s].scope = S]
  BY DEF OAuth!getLiveClient
<1>4. ended' = IF ocall[s].kind = "exchange" /\ ocall'[s] = OAuth!Free
               THEN ended \cup {ocall[s].grant} ELSE ended
  BY DEF OAuth!getLiveClient
<1>5. /\ ended \subseteq ended' /\ ended' \subseteq OAuth!Issued'
      /\ ~ fails => EndedSane'
  <2>1. CASE ended' = ended
    BY <1>2, <2>1, EndedKept, IssuedGrows DEF OAuthInv, OAuth!TypeOK
  <2>2. CASE ended' # ended
    <3>1. ocall[s].kind = "exchange" /\ ended' = ended \cup {ocall[s].grant}
      BY <1>4, <2>2
    <3>2. PICK k \in DOMAIN code : ocall[s].grant = OAuth!Code(k)
      BY <1>1, <3>1, GrantRow
    <3>3. ~ fails => ~ code[k].row
      BY <1>0, <3>1, <3>2 DEF OAuthInv, GrantSane
    <3>4. OAuth!Code(k) \in OAuth!Issued
      BY DEF OAuth!Issued
    <3>5. /\ ~ fails => \A j \in DOMAIN code : OAuth!Code(k) = OAuth!Code(j) => ~ code'[j].row
          /\ \A t \in DOMAIN token : OAuth!Code(k) # OAuth!Token(t)
      BY <1>0, <3>3, GrantNames
    <3>6. ended' = ended \cup {OAuth!Code(k)}
      BY <3>1, <3>2
    <3> QED
      BY <1>2, <3>4, <3>5, <3>6, EndedAdded
  <2> QED
    BY <2>1, <2>2
<1>6. CASE OAuth!End(s)
  BY <1>0, <1>2, <1>5, <1>6, EndStep
<1>7. CASE ocall[s].kind = "refresh" /\ OAuth!Goto(s, "killTokens")
  <2>1. "killTokens" \in PCs(ocall[s].kind) /\ "killTokens" \notin {"insert", "rotate", "issue"} \cup OAuth!Answered
    BY <1>7, Statements DEF OAuth!Answered
  <2> QED
    BY <1>0, <1>1, <1>2, <1>5, <1>7, <2>1, GotoStep
<1>8. ASSUME client[c].status = "live", NEW S \in OAuth!grantableScope(ocall[s].scope, c),
             ocall' = [ocall EXCEPT ![s].pc = IF ocall[s].kind = "refresh" THEN "rotate" ELSE "issue",
                                  ![s].scope = S]
      PROVE  OAuthInv'
  <2>0. PICK pc : pc = IF ocall[s].kind = "refresh" THEN "rotate" ELSE "issue"
    OBVIOUS
  <2>1. PICK x : x = [ocall[s] EXCEPT !.pc = pc, !.scope = S]
    OBVIOUS
  <2>2. S \in SUBSET SupportedScopes /\ Within(S, c)
    BY GrantedIsWithin
  <2>3. ~ ocall[s].gone
    BY <1>1, <1>8 DEF CallSane, OAuth!Revoked
  <2>4. /\ x \in OAuth!CallRow /\ x.pc = pc /\ x.scope = S /\ x.kind = ocall[s].kind
        /\ x.client = c /\ x.grant = ocall[s].grant /\ x.late = ocall[s].late /\ x.gone = ocall[s].gone
    BY <1>1, <2>0, <2>1, <2>2 DEF OAuth!CallRow
  <2>5. ocall' = [ocall EXCEPT ![s] = x] /\ ocall'[s] = x /\ x \in OAuth!CallRow'
    BY <1>0, <1>2, <1>8, <2>0, <2>1, <2>4, IssuedGrows DEF OAuthInv, OAuth!TypeOK
  <2>6. pc \in {"rotate", "issue"} /\ pc \in PCs(x.kind) /\ (pc = "issue" => x.kind = "exchange")
    BY <1>1, <2>0, <2>4, Statements
  <2>7. CallSane(s)'
    <3>1. x.grant \in GrantsOf(x.kind)'
      BY <1>1, <1>2, <2>4, IssuedGrows DEF CallSane
    <3>2. x.client \in Clients /\ client'[x.client].status # "none" /\ Within(x.scope, x.client)'
      BY <1>0, <1>1, <2>2, <2>4 DEF CallSane, Within, OAuth!Ceiling
    <3>3. x.kind # "free" /\ ~ x.gone /\ (x.late => x.grant \in ended')
      BY <1>1, <1>5, <2>3, <2>4 DEF CallSane
    <3> QED
      BY <2>4, <2>5, <2>6, <3>1, <3>2, <3>3 DEF CallSane, Within, OAuth!Ceiling, PCs
  <2>8. ~ fails => GrantSane(s)'
    <3>1. ~ fails => GrantSane(s)
      BY DEF OAuthInv
    <3> QED
      BY <1>0, <1>1, <2>4, <2>5, <2>6, <3>1 DEF GrantSane, OAuth!Code, OAuth!Token
  <2> QED
    BY <1>0, <1>2, <1>5, <2>5, <2>7, <2>8, Moved DEF OAuthInv, OAuth!TypeOK
<1> QED
  BY <1>3, <1>6, <1>7, <1>8

\* A token is issued for a client that was live when the call began, within
\* its ceiling, and the grant it was issued for is used up.
LEMMA IssueInvariant ==
  ASSUME OAuthInv, NEW s \in Slots, OAuth!issueTokenResponse(s)
  PROVE  OAuthInv'
<1>0. ocall[s].pc = "issue" /\ UNCHANGED <<client, code, begun, fails>>
  BY DEF OAuth!issueTokenResponse
<1>1. /\ ocall[s].kind \in {"exchange", "credentials", "refresh"} /\ CallSane(s) /\ ocall[s] # OAuth!Free
      /\ ocall[s] \in OAuth!CallRow /\ ocall[s].client \in Clients
      /\ client[ocall[s].client].status # "none"
      /\ Within(ocall[s].scope, ocall[s].client) /\ ~ ocall[s].gone
  BY <1>0, Handler DEF CallSane
<1>2. PICK r \in OAuth!TokenRow : r = [client |-> ocall[s].client, scope |-> ocall[s].scope,
                                 revoked |-> FALSE, age |-> 0, row |-> TRUE]
  <2>1. ocall[s].scope \in SUBSET SupportedScopes
    BY <1>1 DEF Within
  <2>2. 0 \in 0..2
    OBVIOUS
  <2>3. [client |-> ocall[s].client, scope |-> ocall[s].scope,
         revoked |-> FALSE, age |-> 0, row |-> TRUE] \in OAuth!TokenRow
    BY <1>1, <2>1, <2>2 DEF OAuth!TokenRow
  <2> QED
    BY <2>3
<1>3. \/ token' = Append(token, r) /\ OAuth!Goto(s, "token")
      \/ token' = token /\ OAuth!End(s)
  BY <1>2 DEF OAuth!issueTokenResponse, OAuth!Answer
<1>4. CodesEvolve /\ ClientsEvolve
  BY <1>0, SameTables DEF OAuthInv
<1>5. /\ TokensEvolve
      /\ \A t \in DOMAIN token' : t \in DOMAIN token \/ token'[t] = r
      /\ \A t \in DOMAIN token : t \in DOMAIN token' /\ token'[t] = token[t]
  <2>1. CASE token' = token
    BY <2>1, SameTables DEF OAuthInv
  <2>2. CASE token' = Append(token, r)
    <3>1. /\ token' \in Seq(OAuth!TokenRow) /\ Len(token) \in Nat
          /\ DOMAIN token = 1..Len(token) /\ DOMAIN token' = 1..(Len(token) + 1)
          /\ \A t \in DOMAIN token : token'[t] = token[t]
          /\ token'[Len(token) + 1] = r
      BY <2>2 DEF OAuthInv, OAuth!TypeOK
    <3> QED
      BY <3>1 DEF TokensEvolve
  <2> QED
    BY <1>3, <2>1, <2>2
<1>6. TablesEvolve
  BY <1>4, <1>5 DEF TablesEvolve
<1>7. RowsWithin'
  <2>1. /\ RowsWithin /\ client[r.client].status # "none" /\ Within(r.scope, r.client)
    BY <1>1, <1>2 DEF OAuthInv
  <2> QED
    BY <1>0, <1>5, <2>1 DEF RowsWithin, Within, OAuth!Ceiling
<1>8. ended' = IF ocall[s].grant = <<>> THEN ended ELSE ended \cup {ocall[s].grant}
  BY DEF OAuth!issueTokenResponse
<1>9. /\ ended \subseteq ended' /\ ended' \subseteq OAuth!Issued'
      /\ ~ fails => EndedSane'
  <2>1. CASE ended' = ended
    BY <1>6, <2>1, EndedKept, IssuedGrows DEF OAuthInv, OAuth!TypeOK
  <2>2. CASE ocall[s].kind = "exchange"
    <3>1. PICK k \in DOMAIN code : ocall[s].grant = OAuth!Code(k)
      BY <1>1, <2>2, GrantRow
    <3>2. ~ fails => ~ code[k].row
      BY <1>0, <2>2, <3>1 DEF OAuthInv, GrantSane
    <3>3. OAuth!Code(k) \in OAuth!Issued /\ ended' = ended \cup {OAuth!Code(k)}
      BY <1>8, <3>1, GrantNames DEF OAuth!Issued
    <3>4. /\ ~ fails => \A j \in DOMAIN code : OAuth!Code(k) = OAuth!Code(j) => ~ code'[j].row
          /\ \A t \in DOMAIN token : OAuth!Code(k) # OAuth!Token(t)
      BY <1>0, <3>2, GrantNames
    <3> QED
      BY <1>6, <3>3, <3>4, EndedAdded
  <2>3. CASE ocall[s].kind = "refresh"
    <3>1. PICK t \in DOMAIN token : ocall[s].grant = OAuth!Token(t)
      BY <1>1, <2>3, GrantRow
    <3>2. ~ fails => token[t].revoked
      BY <1>0, <2>3, <3>1 DEF OAuthInv, GrantSane
    <3>3. OAuth!Token(t) \in OAuth!Issued /\ ended' = ended \cup {OAuth!Token(t)}
      BY <1>8, <3>1, GrantNames DEF OAuth!Issued
    <3>4. /\ ~ fails => \A j \in DOMAIN token : OAuth!Token(t) = OAuth!Token(j) => token'[j].revoked
          /\ \A k \in DOMAIN code : OAuth!Token(t) # OAuth!Code(k)
      BY <1>5, <3>2, GrantNames
    <3> QED
      BY <1>6, <3>3, <3>4, EndedAdded
  <2>4. CASE ocall[s].kind = "credentials"
    <3>1. ocall[s].grant \in GrantsOf("credentials")
      BY <1>1, <2>4 DEF CallSane
    <3> QED
      BY <1>8, <2>1, <3>1, Grants
  <2> QED
    BY <1>1, <2>2, <2>3, <2>4
<1>10. CASE OAuth!End(s)
  BY <1>0, <1>6, <1>7, <1>9, <1>10, EndStep
<1>11. CASE OAuth!Goto(s, "token")
  <2>1. "token" \in PCs(ocall[s].kind)
    BY <1>1, Statements
  <2>2. ~ fails /\ ocall[s].kind = "exchange" =>
           \A k \in DOMAIN code' : ocall[s].grant = OAuth!Code(k) => ~ code'[k].row
    BY <1>0 DEF OAuthInv, GrantSane
  <2>3. ~ fails /\ ocall[s].kind = "refresh" =>
           \A t \in DOMAIN token' : ocall[s].grant = OAuth!Token(t) => token'[t].revoked
    <3>1. SUFFICES ASSUME ~ fails, ocall[s].kind = "refresh", NEW t \in DOMAIN token',
                          ocall[s].grant = OAuth!Token(t)
                   PROVE  token'[t].revoked
      OBVIOUS
    <3>2. t \in DOMAIN token
      BY <1>1, <3>1, GrantRow, GrantNames
    <3> QED
      BY <1>0, <1>5, <3>1, <3>2 DEF OAuthInv, GrantSane
  <2> QED
    BY <1>0, <1>1, <1>6, <1>7, <1>9, <1>11, <2>1, <2>2, <2>3, GotoStep DEF OAuth!Answered
<1> QED
  BY <1>3, <1>10, <1>11

LEMMA KillInvariant ==
  ASSUME OAuthInv, NEW s \in Slots, OAuth!revokeClientTokens(s) \/ OAuth!DeleteCodes(s)
  PROVE  OAuthInv'
<1>1. CASE OAuth!revokeClientTokens(s)
  <2>0. ocall[s].pc = "killTokens" /\ OAuth!Goto(s, "killCodes") /\ UNCHANGED <<client, code, ended, begun, fails>>
    BY <1>1 DEF OAuth!revokeClientTokens
  <2>1. \A t \in DOMAIN token : token[t] \in OAuth!TokenRow
    BY RowTypes DEF OAuthInv
  <2>2. ASSUME token' = [t \in DOMAIN token |-> IF token[t].client = ocall[s].client
                                              THEN [token[t] EXCEPT !.revoked = TRUE] ELSE token[t]]
        PROVE  TokensEvolve /\ DOMAIN token' = DOMAIN token
    <3>1. DOMAIN token' = DOMAIN token /\ token' = [t \in DOMAIN token |-> token'[t]]
      BY <2>2
    <3>2. ASSUME NEW t \in DOMAIN token
          PROVE  /\ token'[t] \in OAuth!TokenRow
                 /\ token'[t].client = token[t].client /\ token'[t].scope = token[t].scope
                 /\ token[t].revoked => token'[t].revoked
      BY <2>1, <2>2 DEF OAuth!TokenRow
    <3>3. TokensEvolve
      BY <3>1, <3>2, TokenRewrite DEF OAuthInv
    <3> QED
      BY <3>1, <3>3
  <2>3. TokensEvolve /\ DOMAIN token' = DOMAIN token
    <3>1. CASE token' = token
      BY <3>1, SameTables DEF OAuthInv
    <3> QED
      BY <1>1, <2>2, <3>1 DEF OAuth!revokeClientTokens
  <2>4. TablesEvolve /\ RowsWithin'
    BY <2>0, <2>3, SameTables, NoNewRows DEF OAuthInv, TablesEvolve
  <2>5. /\ ocall[s].kind \in {"refresh", "revokeClient"}
        /\ "killCodes" \in PCs(ocall[s].kind)
        /\ "killCodes" \notin {"insert", "rotate", "issue"} \cup OAuth!Answered
    BY <2>0, Handler, Statements DEF OAuth!Answered
  <2>6. (~ fails => EndedSane') /\ ended' \subseteq OAuth!Issued'
    BY <2>0, <2>4, EndedKept, IssuedGrows DEF OAuthInv, OAuth!TypeOK
  <2> QED
    BY <2>0, <2>4, <2>5, <2>6, GotoStep
<1>2. CASE OAuth!DeleteCodes(s)
  <2>0. OAuth!End(s) /\ UNCHANGED <<client, token, ended, begun, fails>>
    BY <1>2 DEF OAuth!DeleteCodes
  <2>1. \A k \in DOMAIN code : code[k] \in OAuth!CodeRow
    BY RowTypes DEF OAuthInv
  <2>2. CASE code' = [k \in DOMAIN code |-> IF code[k].client = ocall[s].client
                                            THEN [code[k] EXCEPT !.row = FALSE] ELSE code[k]]
    <3>1. DOMAIN code' = DOMAIN code /\ code' = [k \in DOMAIN code |-> code'[k]]
      BY <2>2
    <3>2. ASSUME NEW k \in DOMAIN code
          PROVE  /\ code'[k] \in OAuth!CodeRow
                 /\ code'[k].client = code[k].client /\ code'[k].scope = code[k].scope
                 /\ code'[k].row => code[k].row
      BY <2>1, <2>2 DEF OAuth!CodeRow
    <3>3. CodesEvolve /\ DOMAIN code' = DOMAIN code
      BY <3>1, <3>2, CodeRewrite DEF OAuthInv
    <3>4. TablesEvolve /\ RowsWithin'
      BY <2>0, <3>3, SameTables, NoNewRows DEF OAuthInv, TablesEvolve
    <3> QED
      BY <2>0, <3>4, EndedKept, IssuedGrows, EndStep DEF OAuthInv, OAuth!TypeOK
  <2>3. CASE code' = code
    <3>1. TablesEvolve /\ RowsWithin'
      BY <2>0, <2>3, RestTables
    <3> QED
      BY <2>0, <3>1, EndedKept, IssuedGrows, EndStep DEF OAuthInv, OAuth!TypeOK
  <2> QED
    BY <1>2, <2>2, <2>3 DEF OAuth!DeleteCodes
<1> QED
  BY <1>1, <1>2

LEMMA IntrospectionInvariant ==
  ASSUME OAuthInv, NEW s \in Slots, OAuth!LookUp(s) \/ OAuth!CheckOwner(s)
  PROVE  OAuthInv'
<1>0. /\ ocall[s].pc \in {"look", "owner"} /\ UNCHANGED <<client, code, token, ended, begun, fails>>
      /\ \/ OAuth!End(s)
         \/ /\ ocall[s].pc = "look" /\ OAuth!Goto(s, "owner")
            /\ ~ token[ocall[s].grant[2]].revoked
         \/ /\ ocall[s].pc = "owner" /\ OAuth!Goto(s, "active")
            /\ client[ocall[s].client].status = "live"
  BY DEF OAuth!LookUp, OAuth!CheckOwner, OAuth!Answer
<1>1. ocall[s].kind = "introspect" /\ CallSane(s) /\ ocall[s] # OAuth!Free
  BY <1>0, Handler
<1>2. TablesEvolve /\ RowsWithin' /\ (~ fails => EndedSane') /\ ended' \subseteq OAuth!Issued'
  BY <1>0, RestTables, EndedKept, IssuedGrows DEF OAuthInv, OAuth!TypeOK
<1>3. CASE OAuth!End(s)
  BY <1>0, <1>2, <1>3, EndStep
<1>4. CASE ocall[s].pc = "look" /\ OAuth!Goto(s, "owner") /\ ~ token[ocall[s].grant[2]].revoked
  <2>1. PICK t \in DOMAIN token : ocall[s].grant = OAuth!Token(t) /\ ocall[s].grant[2] = t
    BY <1>1, GrantRow
  <2>2. ~ fails => ~ ocall[s].late
    BY <1>1, <1>4, <2>1 DEF OAuthInv, EndedSane, CallSane
  <2>3. "owner" \in PCs(ocall[s].kind) /\ "owner" \notin {"insert", "rotate", "issue"} \cup OAuth!Answered
    BY <1>1, Statements DEF OAuth!Answered
  <2> QED
    BY <1>0, <1>1, <1>2, <1>4, <2>2, <2>3, GotoStep
<1>5. CASE /\ ocall[s].pc = "owner" /\ OAuth!Goto(s, "active") /\ client[ocall[s].client].status = "live"
  <2>1. ~ ocall[s].gone
    BY <1>1, <1>5 DEF CallSane, OAuth!Revoked
  <2>2. ~ fails => ~ ocall[s].late
    BY <1>1, <1>5 DEF OAuthInv, GrantSane
  <2>3. "active" \in PCs(ocall[s].kind)
    BY <1>1, Statements
  <2> QED
    BY <1>0, <1>1, <1>2, <1>5, <2>1, <2>2, <2>3, GotoStep
<1> QED
  BY <1>0, <1>3, <1>4, <1>5

---------------------------------------------------------------------------
(* OAuthServer: steps that move no call                                    *)

\* The invariant after such a step.
LEMMA TableStep ==
  ASSUME OAuthInv, TablesEvolve, DOMAIN code' = DOMAIN code, DOMAIN token' = DOMAIN token,
         ended \subseteq ended', ended' \subseteq OAuth!Issued', ~ fails => EndedSane',
         UNCHANGED <<ocall, begun, fails>>
  PROVE  OAuthInv'
<1>1. RowsWithin'
  BY NoNewRows
<1>2. OAuth!TypeOK'
  BY IssuedGrows DEF OAuthInv, OAuth!TypeOK, TablesEvolve, ClientsEvolve, CodesEvolve, TokensEvolve
<1>3. \A s \in Slots : CallSane(s)'
  BY CallKept DEF OAuthInv
<1>4. ~ fails => \A s \in Slots : GrantSane(s)'
  BY GrantKept DEF OAuthInv
<1> QED
  BY <1>1, <1>2, <1>3, <1>4 DEF OAuthInv

LEMMA RegisterInvariant ==
  ASSUME OAuthInv, NEW c \in Clients, NEW scopes, NEW secret \in BOOLEAN,
         OAuth!handleRegisterClient(c, scopes, secret)
  PROVE  OAuthInv'
<1>0. /\ client[c].status = "none" /\ scopes \in SUBSET SupportedScopes
      /\ client' = [client EXCEPT ![c] = [status |-> "live", scopes |-> scopes, secret |-> secret]]
      /\ UNCHANGED <<code, token, ocall, ended, begun, fails>>
  BY DEF OAuth!handleRegisterClient
<1>1. [status |-> "live", scopes |-> scopes, secret |-> secret] \in OAuth!ClientRow
  BY <1>0 DEF OAuth!ClientRow
<1>2. ClientsEvolve
  BY <1>0, <1>1 DEF OAuthInv, OAuth!TypeOK, ClientsEvolve, OAuth!Revoked
<1>3. TablesEvolve
  BY <1>0, <1>2, SameTables DEF OAuthInv, TablesEvolve
<1> QED
  BY <1>0, <1>3, EndedKept, IssuedGrows, TableStep DEF OAuthInv, OAuth!TypeOK

LEMMA RevokeInvariant ==
  ASSUME OAuthInv, NEW t \in DOMAIN token, OAuth!handleRevoke(t)
  PROVE  OAuthInv'
<1>0. /\ token' = [token EXCEPT ![t].revoked = TRUE] \/ (fails /\ token' = token)
      /\ ended' = ended \cup {OAuth!Token(t)}
      /\ UNCHANGED <<client, code, ocall, begun, fails>>
  BY DEF OAuth!handleRevoke
<1>1. TokensEvolve /\ DOMAIN token' = DOMAIN token /\ (~ fails => token'[t].revoked)
  BY <1>0, TokenMarked, SameTables DEF OAuthInv
<1>2. TablesEvolve
  BY <1>0, <1>1, SameTables DEF OAuthInv, TablesEvolve
<1>3. /\ ~ fails => \A j \in DOMAIN token : OAuth!Token(t) = OAuth!Token(j) => token'[j].revoked
      /\ \A k \in DOMAIN code : OAuth!Token(t) # OAuth!Code(k)
  BY <1>1, GrantNames
<1>4. OAuth!Token(t) \in OAuth!Issued
  BY DEF OAuth!Issued
<1>5. ended' \subseteq OAuth!Issued' /\ (~ fails => EndedSane')
  BY <1>0, <1>2, <1>3, <1>4, EndedAdded
<1> QED
  BY <1>0, <1>1, <1>2, <1>5, TableStep

LEMMA AgeInvariant == OAuthInv /\ OAuth!Age => OAuthInv'
<1> SUFFICES ASSUME OAuthInv, OAuth!Age PROVE OAuthInv'
  OBVIOUS
<1>0. /\ code' = [k \in DOMAIN code |-> [code[k] EXCEPT !.expired = TRUE]]
      /\ token' = [t \in DOMAIN token |-> [token[t] EXCEPT !.age = IF @ < 2 THEN @ + 1 ELSE 2]]
      /\ UNCHANGED <<client, ocall, ended, begun, fails>>
  BY DEF OAuth!Age
<1>1. (\A k \in DOMAIN code : code[k] \in OAuth!CodeRow) /\ (\A t \in DOMAIN token : token[t] \in OAuth!TokenRow)
  BY RowTypes DEF OAuthInv
<1>2. CodesEvolve /\ DOMAIN code' = DOMAIN code
  <2>1. DOMAIN code' = DOMAIN code /\ code' = [k \in DOMAIN code |-> code'[k]]
    BY <1>0
  <2>2. ASSUME NEW k \in DOMAIN code
        PROVE  /\ code'[k] \in OAuth!CodeRow
               /\ code'[k].client = code[k].client /\ code'[k].scope = code[k].scope
               /\ code'[k].row => code[k].row
    <3>1. code'[k] = [code[k] EXCEPT !.expired = TRUE]
      BY <1>0
    <3> QED
      BY <1>1, <3>1 DEF OAuth!CodeRow
  <2> QED
    BY <2>1, <2>2, CodeRewrite DEF OAuthInv
<1>3. TokensEvolve /\ DOMAIN token' = DOMAIN token
  <2>1. DOMAIN token' = DOMAIN token /\ token' = [t \in DOMAIN token |-> token'[t]]
    BY <1>0
  <2>2. ASSUME NEW t \in DOMAIN token
        PROVE  /\ token'[t] \in OAuth!TokenRow
               /\ token'[t].client = token[t].client /\ token'[t].scope = token[t].scope
               /\ token[t].revoked => token'[t].revoked
    <3>1. PICK a \in 0..2 : token'[t] = [token[t] EXCEPT !.age = a]
      BY <1>0, <1>1 DEF OAuth!TokenRow
    <3> QED
      BY <1>1, <3>1 DEF OAuth!TokenRow
  <2> QED
    BY <2>1, <2>2, TokenRewrite DEF OAuthInv
<1>4. TablesEvolve
  BY <1>0, <1>2, <1>3, SameTables DEF OAuthInv, TablesEvolve
<1> QED
  BY <1>0, <1>2, <1>3, <1>4, EndedKept, IssuedGrows, TableStep DEF OAuthInv, OAuth!TypeOK

LEMMA OAuthKeeps == OAuthInv /\ [OAuth!Next]_(OAuth!vars) => OAuthInv'
<1> SUFFICES ASSUME OAuthInv, [OAuth!Next]_(OAuth!vars) PROVE OAuthInv'
  OBVIOUS
<1>1. CASE UNCHANGED OAuth!vars
  <2>1. UNCHANGED <<client, code, token, ocall, ended, begun, fails>>
    BY <1>1 DEF OAuth!vars
  <2> QED
    BY <2>1, RestTables, EndedKept, IssuedGrows, TableStep DEF OAuthInv, OAuth!TypeOK
<1>2. ASSUME NEW c \in Clients, NEW a \in Asked, NEW b \in BOOLEAN, OAuth!handleRegisterClient(c, a, b)
      PROVE  OAuthInv'
  BY <1>2, RegisterInvariant
<1>3. ASSUME NEW t \in DOMAIN token, OAuth!handleRevoke(t) PROVE OAuthInv'
  BY <1>3, RevokeInvariant
<1>4. ASSUME NEW s \in Slots,
             \/ \E c \in Clients, a \in Asked : OAuth!handleAuthorize(s, c, a) \/ OAuth!handleClientCredentials(s, c, a)
             \/ \E k \in DOMAIN code : OAuth!handleAuthCodeExchange(s, k)
             \/ \E t \in DOMAIN token : OAuth!handleRefreshToken(s, t) \/ OAuth!handleIntrospect(s, t)
             \/ \E c \in Clients : OAuth!handleRevokeClient(s, c)
      PROVE  OAuthInv'
  BY <1>4, AuthorizeInvariant, ExchangeInvariant, RefreshInvariant, IntrospectInvariant,
     RevokeClientInvariant
<1>5. ASSUME NEW s \in Slots, NEW right \in BOOLEAN, OAuth!DeleteCode(s, right) \/ OAuth!getLiveClient(s, right)
      PROVE  OAuthInv'
  BY <1>5, DeleteCodeInvariant, LiveClientInvariant
<1>6. ASSUME NEW s \in Slots,
             \/ OAuth!InsertCode(s) \/ OAuth!DeleteExpired(s) \/ OAuth!Rotate(s) \/ OAuth!issueTokenResponse(s)
             \/ OAuth!revokeClientTokens(s) \/ OAuth!DeleteCodes(s) \/ OAuth!LookUp(s) \/ OAuth!CheckOwner(s)
      PROVE  OAuthInv'
  BY <1>6, InsertCodeInvariant, DeleteExpiredInvariant, RotateInvariant, IssueInvariant,
     KillInvariant, IntrospectionInvariant
<1>7. ASSUME NEW s \in Slots, OAuth!Return(s) PROVE OAuthInv'
  <2>1. OAuth!End(s) /\ UNCHANGED <<client, code, token, ended, begun, fails>>
    BY <1>7 DEF OAuth!Return
  <2> QED
    BY <2>1, RestTables, EndedKept, IssuedGrows, EndStep DEF OAuthInv, OAuth!TypeOK
<1> QED
  BY <1>1, <1>2, <1>3, <1>4, <1>5, <1>6, <1>7, AgeInvariant DEF OAuth!Next

LEMMA OAuthInvariance == OAuth!Spec => []OAuthInv
BY OAuthInit, OAuthKeeps, PTL DEF OAuth!Spec

---------------------------------------------------------------------------
(* OAuthServer: the theorems                                               *)

\* Every variable of the OAuth server keeps its type.
THEOREM OAuthTypes == OAuth!Spec => []OAuth!TypeOK
<1>1. OAuthInv => OAuth!TypeOK
  BY DEF OAuthInv
<1> QED
  BY <1>1, OAuthInvariance, PTL

\* However calls overlap, a grant that was used or revoked yields nothing to
\* later calls unless a statement failed unseen, a revoked client gets nothing
\* at all, and no scope grows (handleAuthCodeExchange, handleRefreshToken,
\* handleRevoke, handleRevokeClient, handleIntrospect, grantableScope).
THEOREM OAuthSound == OAuth!Spec => []OAuthSafe
<1>1. OAuthInv => OAuth!GrantsOnce
  <2> SUFFICES ASSUME OAuthInv, ~ fails, NEW s \in Slots, ocall[s].pc \in {"token", "active"}
               PROVE  ~ ocall[s].late
    BY DEF OAuth!GrantsOnce
  <2>1. ocall[s] # OAuth!Free /\ CallSane(s) /\ GrantSane(s) /\ ocall[s] \in OAuth!CallRow
    BY FreeRow DEF OAuthInv, OAuth!TypeOK
  <2>2. ocall[s].kind \in {"exchange", "credentials", "refresh", "introspect"}
    BY <2>1, Statements DEF CallSane, OAuth!CallRow
  <2>3. CASE ocall[s].kind = "credentials"
    <3>1. ocall[s].grant = <<>>
      BY <2>1, <2>3, Grants DEF CallSane
    <3>2. <<>> \notin ended
      BY GrantNames DEF OAuthInv, OAuth!TypeOK, OAuth!Issued
    <3> QED
      BY <2>1, <3>1, <3>2 DEF CallSane
  <2>4. CASE ocall[s].kind = "introspect"
    <3>1. ocall[s].pc = "active"
      BY <2>1, <2>4, Statements DEF CallSane
    <3> QED
      BY <2>1, <2>4, <3>1 DEF GrantSane
  <2> QED
    BY <2>1, <2>2, <2>3, <2>4 DEF GrantSane
<1>2. OAuthInv => OAuth!RevokedInert
  <2> SUFFICES ASSUME OAuthInv, NEW s \in Slots, ocall[s].pc \in {"token", "active", "code"}
               PROVE  ~ ocall[s].gone
    BY DEF OAuth!RevokedInert
  <2> QED
    BY FreeRow DEF OAuthInv, CallSane, OAuth!Answered
<1>3. OAuthInv => OAuth!WithinCeiling
  BY DEF OAuthInv, RowsWithin, Within, OAuth!WithinCeiling
<1>4. OAuthInv => OAuthSafe
  BY <1>1, <1>2, <1>3 DEF OAuthSafe, OAuth!OAuthSafe
<1> QED
  BY <1>4, OAuthInvariance, PTL

---------------------------------------------------------------------------
(* CredentialVault                                                         *)

Entry == [store : 0..MaxStores, nth : 0..MaxGets, refresh : BOOLEAN, soon : BOOLEAN]
VaultCall == [pc : {"free", "exchange", "upsert", "select", "answer"}, entry : Entry,
              failed : BOOLEAN]
Underway == {"exchange", "upsert", "select"}

\* Everything read from the row or written to it.
Entries == {Vault!None, row, last} \cup {vcall[s].entry : s \in Slots}

SameStored(e, f) == e.store = f.store /\ e.refresh = f.refresh

\* A refresh under way works on what was stored last, unless something crossed
\* it; an answer about to expire could not have been refreshed.
VaultCallSane(s) ==
  LET x == vcall[s]
  IN  /\ x.entry.nth <= gets
      /\ x.pc \in Underway =>
           x.entry.nth < gets /\ (~ crossed => SameStored(x.entry, last))
      /\ x.pc = "answer" /\ ~ x.failed /\ x.entry.soon => ~ x.entry.refresh

\* Whether there is a refresh token is settled by the Store an entry comes from.
VaultInv ==
  /\ row \in Entry /\ last \in Entry /\ vcall \in [Slots -> VaultCall]
  /\ stores \in 0..MaxStores /\ gets \in 0..MaxGets /\ crossed \in BOOLEAN
  /\ row.nth <= gets /\ last.nth <= gets
  /\ \A e \in Entries : e.store <= stores
  /\ \A e, f \in Entries : e.store = f.store => e.refresh = f.refresh
  /\ \A s \in Slots : VaultCallSane(s)
  /\ ~ crossed => SameStored(row, last)

LEMMA NoneFacts ==
  /\ Vault!None \in Entry
  /\ Vault!None.store = 0 /\ Vault!None.nth = 0 /\ Vault!None.refresh = FALSE
  /\ Vault!Free \in VaultCall
  /\ Vault!Free.pc = "free" /\ Vault!Free.entry = Vault!None /\ Vault!Free.failed = FALSE
<1>1. /\ Vault!None \in Entry
      /\ Vault!None.store = 0 /\ Vault!None.nth = 0 /\ Vault!None.refresh = FALSE
  BY CredentialsAssumption DEF Vault!None, Entry
<1>2. /\ Vault!Free \in VaultCall
      /\ Vault!Free.pc = "free" /\ Vault!Free.entry = Vault!None /\ Vault!Free.failed = FALSE
  BY <1>1 DEF Vault!Free, VaultCall
<1> QED
  BY <1>1, <1>2

LEMMA VaultInit == Vault!Init => VaultInv
<1> SUFFICES ASSUME Vault!Init PROVE VaultInv
  OBVIOUS
<1>1. /\ row = Vault!None /\ last = Vault!None /\ vcall = [s \in Slots |-> Vault!Free]
      /\ stores = 0 /\ gets = 0 /\ crossed = FALSE
  BY DEF Vault!Init
<1>2. vcall \in [Slots -> VaultCall] /\ \A s \in Slots : vcall[s] = Vault!Free
  BY <1>1, NoneFacts
<1>3. \A e \in Entries : e = Vault!None
  BY <1>1, <1>2, NoneFacts DEF Entries
<1>4. \A s \in Slots : VaultCallSane(s)
  <2> SUFFICES ASSUME NEW s \in Slots PROVE VaultCallSane(s)
    OBVIOUS
  <2>1. vcall[s].pc = "free" /\ vcall[s].entry = Vault!None /\ vcall[s].failed = FALSE
    BY <1>2, NoneFacts
  <2>2. vcall[s].entry.nth <= gets /\ ~ vcall[s].entry.refresh
    BY <1>1, <2>1, NoneFacts
  <2> QED
    BY <2>1, <2>2 DEF VaultCallSane, Underway
<1>5. \A e \in Entries : e.store <= stores
  BY <1>1, <1>3, NoneFacts
<1>6. \A e, f \in Entries : e.store = f.store => e.refresh = f.refresh
  BY <1>3
<1>7. row \in Entry /\ last \in Entry /\ row.nth <= gets /\ last.nth <= gets /\ SameStored(row, last)
  BY <1>1, NoneFacts DEF SameStored
<1>8. stores \in 0..MaxStores /\ gets \in 0..MaxGets
  <2>1. stores = 0 /\ gets = 0
    BY <1>1
  <2> QED
    BY <2>1, CredentialsAssumption
<1>9. crossed \in BOOLEAN
  BY <1>1
<1> QED
  BY <1>2, <1>4, <1>5, <1>6, <1>7, <1>8, <1>9 DEF VaultInv

\* A step of call s that writes the record c, and what it may do to the row.
VaultWrites(s, c) ==
  /\ vcall' = [vcall EXCEPT ![s] = c]
  /\ UNCHANGED <<stores, last, crossed>>
  /\ gets' \in 0..MaxGets /\ gets <= gets'
  /\ row' \in Entry /\ row'.nth <= gets' /\ \E f \in Entries : SameStored(row', f)
  /\ ~ crossed => SameStored(row', last)
  /\ \E f \in Entries : SameStored(c.entry, f)
  /\ c.entry.nth <= gets'
  /\ c.pc \in Underway => c.entry.nth < gets' /\ (~ crossed => SameStored(c.entry, last))
  /\ c.pc = "answer" /\ ~ c.failed /\ c.entry.soon => ~ c.entry.refresh

LEMMA VaultMoves ==
  ASSUME VaultInv, NEW s \in Slots, NEW c \in VaultCall, VaultWrites(s, c)
  PROVE  VaultInv'
<1>1. /\ vcall' \in [Slots -> VaultCall] /\ vcall'[s] = c
      /\ \A u \in Slots : u # s => vcall'[u] = vcall[u]
  BY DEF VaultInv, VaultWrites
<1>2. ASSUME NEW e \in Entries' PROVE \E f \in Entries : SameStored(e, f)
  <2>1. CASE e \in Entries
    BY <2>1 DEF SameStored
  <2>2. CASE e = row'
    BY <2>2 DEF VaultWrites
  <2>3. CASE e = c.entry
    BY <2>3 DEF VaultWrites
  <2>4. ASSUME NEW u \in Slots, e = vcall'[u].entry PROVE e \in Entries \/ e = c.entry
    <3>1. CASE u = s
      BY <1>1, <2>4, <3>1
    <3>2. CASE u # s
      BY <1>1, <2>4, <3>2 DEF Entries
    <3> QED
      BY <3>1, <3>2
  <2>5. e = Vault!None \/ e = row' \/ e = last' \/ \E u \in Slots : e = vcall'[u].entry
    BY DEF Entries
  <2>6. Vault!None \in Entries /\ last' \in Entries
    BY DEF Entries, VaultWrites
  <2> QED
    BY <2>1, <2>2, <2>3, <2>4, <2>5, <2>6
<1>3. \A e \in Entries' : e.store <= stores'
  BY <1>2 DEF VaultInv, VaultWrites, SameStored
<1>4. ASSUME NEW e \in Entries', NEW f \in Entries', e.store = f.store PROVE e.refresh = f.refresh
  <2>1. PICK g \in Entries : SameStored(e, g)
    BY <1>2
  <2>2. PICK h \in Entries : SameStored(f, h)
    BY <1>2
  <2> QED
    BY <1>4, <2>1, <2>2 DEF VaultInv, SameStored
<1>5. ASSUME NEW u \in Slots PROVE VaultCallSane(u)'
  <2>1. CASE u = s
    BY <1>1, <2>1 DEF VaultCallSane, VaultWrites, SameStored
  <2>2. CASE u # s
    <3>1. PICK x \in VaultCall : x = vcall[u] /\ x = vcall'[u]
      BY <1>1, <2>2
    <3>2. /\ x.entry.nth <= gets
          /\ x.pc \in Underway =>
               x.entry.nth < gets /\ (~ crossed => SameStored(x.entry, last))
          /\ x.pc = "answer" /\ ~ x.failed /\ x.entry.soon => ~ x.entry.refresh
      BY <3>1 DEF VaultInv, VaultCallSane
    <3>3. PICK n \in Nat : n = x.entry.nth
      BY CredentialsAssumption DEF VaultCall, Entry
    <3>4. gets \in Nat /\ gets' \in Nat /\ gets <= gets'
      BY CredentialsAssumption DEF VaultInv, VaultWrites
    <3>5. n <= gets' /\ (n < gets => n < gets')
      BY <3>2, <3>3, <3>4
    <3>6. last' = last /\ crossed' = crossed
      BY DEF VaultWrites
    <3> QED
      BY <3>1, <3>2, <3>3, <3>5, <3>6 DEF VaultCallSane, SameStored
  <2> QED
    BY <2>1, <2>2
<1>6. last'.nth <= gets'
  <2>1. last \in Entry /\ last.nth <= gets /\ last' = last
    BY DEF VaultInv, VaultWrites
  <2>2. PICK n \in Nat : n = last.nth
    BY <2>1, CredentialsAssumption DEF Entry
  <2>3. gets \in Nat /\ gets' \in Nat /\ gets <= gets'
    BY CredentialsAssumption DEF VaultInv, VaultWrites
  <2> QED
    BY <2>1, <2>2, <2>3
<1>7. /\ row' \in Entry /\ row'.nth <= gets' /\ gets' \in 0..MaxGets
      /\ last' = last /\ stores' = stores /\ crossed' = crossed
      /\ ~ crossed => SameStored(row', last)
  BY DEF VaultWrites
<1> QED
  BY <1>1, <1>3, <1>4, <1>5, <1>6, <1>7 DEF VaultInv, SameStored

\* What is known of the call that takes a step.
LEMMA VaultKnown ==
  ASSUME VaultInv, NEW s \in Slots
  PROVE  \E x \in VaultCall :
           /\ x = vcall[s] /\ x.entry \in Entry /\ x.entry \in Entries
           /\ x.entry.nth \in 0..MaxGets /\ x.entry.nth <= gets
           /\ x.pc \in Underway =>
                x.entry.nth < gets /\ (~ crossed => SameStored(x.entry, last))
           /\ x.pc = "answer" /\ ~ x.failed /\ x.entry.soon => ~ x.entry.refresh
<1>1. PICK x \in VaultCall : x = vcall[s]
  BY DEF VaultInv
<1>2. x.entry \in Entry /\ x.entry.nth \in 0..MaxGets
  BY DEF VaultCall, Entry
<1>3. x.entry \in Entries
  BY <1>1 DEF Entries
<1>4. VaultCallSane(s)
  BY DEF VaultInv
<1> QED
  BY <1>1, <1>2, <1>3, <1>4 DEF VaultCallSane

\* A call's record when it fails.
LEMMA AtFailure ==
  ASSUME NEW x \in VaultCall
  PROVE  LET c == [x EXCEPT !.pc = "answer", !.failed = TRUE]
         IN  c \in VaultCall /\ c.pc = "answer" /\ c.entry = x.entry /\ c.failed = TRUE
BY DEF VaultCall

LEMMA VaultGet ==
  ASSUME VaultInv, NEW s \in Slots, Vault!Get(s)
  PROVE  VaultInv'
<1>1. PICK x \in VaultCall : x = vcall[s]
  BY DEF VaultInv
<1>2. PICK r \in Entry : r = row /\ r \in Entries /\ (~ crossed => SameStored(r, last))
  BY DEF VaultInv, Entries
<1>3. PICK n \in 0..MaxGets : n = r.nth /\ n <= gets
  BY <1>2 DEF VaultInv, Entry
<1>4. /\ gets \in 0..MaxGets /\ gets < MaxGets /\ gets' = gets + 1
      /\ UNCHANGED <<row, stores, last, crossed>>
  BY DEF Vault!Get, VaultInv
<1>5. PICK p \in {"exchange", "answer"} :
        /\ p = IF r.soon /\ r.refresh THEN "exchange" ELSE "answer"
        /\ vcall' = [vcall EXCEPT ![s] = [x EXCEPT !.pc = p, !.entry = r]]
  BY <1>1, <1>2 DEF Vault!Get, Vault!Goto, Vault!shouldRefresh
<1>6. PICK c \in VaultCall : c.pc = p /\ c.entry = r /\ vcall' = [vcall EXCEPT ![s] = c]
  <2>1. PICK c : c = [x EXCEPT !.pc = p, !.entry = r]
    OBVIOUS
  <2>2. c \in VaultCall /\ c.pc = p /\ c.entry = r
    BY <2>1 DEF VaultCall
  <2> QED
    BY <1>5, <2>1, <2>2
<1>7. gets' \in 0..MaxGets /\ gets <= gets' /\ n <= gets' /\ n < gets'
  BY <1>3, <1>4, CredentialsAssumption
<1>8. SameStored(r, r)
  BY DEF SameStored
<1>9. c.pc = "answer" /\ c.entry.soon => ~ c.entry.refresh
  BY <1>5, <1>6 DEF Entry
<1>10. VaultWrites(s, c)
  BY <1>2, <1>3, <1>4, <1>6, <1>7, <1>8, <1>9 DEF VaultWrites
<1> QED
  BY <1>10, VaultMoves

\* A step of a refresh that leaves the row alone.
LEMMA VaultGoesOn ==
  ASSUME VaultInv, NEW s \in Slots, NEW c \in VaultCall,
         NEW x \in VaultCall, x = vcall[s], x.pc \in Underway,
         vcall' = [vcall EXCEPT ![s] = c], UNCHANGED <<row, stores, gets, last, crossed>>,
         c.entry = x.entry, c.pc \in Underway \/ c.failed
  PROVE  VaultInv'
<1>1. /\ x.entry \in Entry /\ x.entry \in Entries
      /\ x.entry.nth \in 0..MaxGets /\ x.entry.nth <= gets
      /\ x.entry.nth < gets /\ (~ crossed => SameStored(x.entry, last))
  BY VaultKnown
<1>2. PICK r \in Entry : r = row /\ r \in Entries /\ (~ crossed => SameStored(r, last))
                        /\ r.nth <= gets /\ gets \in 0..MaxGets
  BY DEF VaultInv, Entries
<1>3. SameStored(r, r) /\ SameStored(x.entry, x.entry)
  BY DEF SameStored
<1>4. VaultWrites(s, c)
  BY <1>1, <1>2, <1>3, CredentialsAssumption DEF VaultWrites, Underway
<1> QED
  BY <1>4, VaultMoves

LEMMA VaultExchange ==
  ASSUME VaultInv, NEW s \in Slots, Vault!ExchangeRefreshToken(s)
  PROVE  VaultInv'
<1>1. PICK x \in VaultCall : x = vcall[s] /\ x.entry \in Entry
  BY VaultKnown
<1>2. x.pc = "exchange" /\ UNCHANGED <<row, stores, gets, last, crossed>>
  BY <1>1 DEF Vault!ExchangeRefreshToken
<1>3. CASE Vault!Goto(s, "upsert", vcall[s].entry)
  <2>1. PICK e \in Entry : e = x.entry
    BY <1>1
  <2>2. PICK c : c = [x EXCEPT !.pc = "upsert", !.entry = e]
    OBVIOUS
  <2>3. c \in VaultCall /\ c.pc = "upsert" /\ c.entry = e
    BY <2>2 DEF VaultCall
  <2>4. vcall' = [vcall EXCEPT ![s] = c]
    BY <1>1, <1>3, <2>1, <2>2 DEF Vault!Goto
  <2> QED
    BY <1>1, <1>2, <2>1, <2>3, <2>4, VaultGoesOn DEF Underway
<1>4. CASE Vault!Fail(s)
  <2>1. PICK c \in VaultCall : c.failed /\ c.entry = x.entry
                             /\ c = [x EXCEPT !.pc = "answer", !.failed = TRUE]
    BY AtFailure
  <2>2. vcall' = [vcall EXCEPT ![s] = c]
    BY <1>1, <1>4, <2>1 DEF Vault!Fail
  <2> QED
    BY <1>1, <1>2, <2>1, <2>2, VaultGoesOn DEF Underway
<1> QED
  BY <1>3, <1>4 DEF Vault!ExchangeRefreshToken

LEMMA VaultStoreFresh ==
  ASSUME VaultInv, NEW s \in Slots, Vault!StoreFresh(s)
  PROVE  VaultInv'
<1>1. PICK x \in VaultCall :
        /\ x = vcall[s] /\ x.entry \in Entry /\ x.entry \in Entries
        /\ x.entry.nth \in 0..MaxGets /\ x.entry.nth <= gets
        /\ x.pc \in Underway =>
             x.entry.nth < gets /\ (~ crossed => SameStored(x.entry, last))
  BY VaultKnown
<1>2. x.pc = "upsert" /\ UNCHANGED <<stores, gets, last, crossed>>
  BY <1>1 DEF Vault!StoreFresh
<1>3. PICK e \in Entry : e = x.entry
  BY <1>1
<1>4. CASE row' = Vault!Fresh(s) /\ Vault!Goto(s, "select", vcall[s].entry)
  <2>1. PICK f : f = [e EXCEPT !.nth = @ + 1, !.soon = FALSE]
    OBVIOUS
  <2>2. e.nth \in 0..MaxGets /\ e.nth < gets /\ gets \in 0..MaxGets
    BY <1>1, <1>2, <1>3 DEF VaultInv, Underway
  <2>3. f \in Entry /\ f.nth = e.nth + 1 /\ f.store = e.store /\ f.refresh = e.refresh
    <3>1. e.nth + 1 \in 0..MaxGets
      BY <2>2, CredentialsAssumption
    <3> QED
      BY <2>1, <3>1 DEF Entry
  <2>4. f.nth <= gets
    BY <2>2, <2>3, CredentialsAssumption
  <2>5. row' = f
    BY <1>1, <1>3, <1>4, <2>1 DEF Vault!Fresh
  <2>6. PICK c : c = [x EXCEPT !.pc = "select", !.entry = e]
    OBVIOUS
  <2>7. c \in VaultCall /\ c.pc = "select" /\ c.entry = e
    BY <2>6 DEF VaultCall
  <2>8. vcall' = [vcall EXCEPT ![s] = c]
    BY <1>1, <1>3, <1>4, <2>6 DEF Vault!Goto
  <2>9. e \in Entries /\ SameStored(f, e) /\ SameStored(e, e) /\ (~ crossed => SameStored(e, last))
        /\ (~ crossed => SameStored(f, last))
    BY <1>1, <1>2, <1>3, <2>3 DEF SameStored, Underway
  <2>10. VaultWrites(s, c)
    BY <1>2, <2>2, <2>3, <2>4, <2>5, <2>7, <2>8, <2>9, CredentialsAssumption DEF VaultWrites
  <2> QED
    BY <2>7, <2>10, VaultMoves
<1>5. CASE row' = row /\ Vault!Fail(s)
  <2>1. PICK c \in VaultCall : c.failed /\ c.entry = x.entry
                             /\ c = [x EXCEPT !.pc = "answer", !.failed = TRUE]
    BY AtFailure
  <2>2. vcall' = [vcall EXCEPT ![s] = c]
    BY <1>1, <1>5, <2>1 DEF Vault!Fail
  <2> QED
    BY <1>1, <1>2, <1>5, <2>1, <2>2, VaultGoesOn DEF Underway
<1> QED
  BY <1>4, <1>5 DEF Vault!StoreFresh

LEMMA VaultCanonicalID ==
  ASSUME VaultInv, NEW s \in Slots, Vault!CanonicalID(s)
  PROVE  VaultInv'
<1>1. PICK x \in VaultCall :
        /\ x = vcall[s] /\ x.entry \in Entry /\ x.entry \in Entries
        /\ x.entry.nth \in 0..MaxGets /\ x.entry.nth <= gets
        /\ x.pc \in Underway =>
             x.entry.nth < gets /\ (~ crossed => SameStored(x.entry, last))
  BY VaultKnown
<1>2. x.pc = "select" /\ UNCHANGED <<row, stores, gets, last, crossed>>
  BY <1>1 DEF Vault!CanonicalID
<1>3. PICK e \in Entry : e = x.entry
  BY <1>1
<1>4. CASE row # Vault!None
  <2>1. PICK f : f = [e EXCEPT !.nth = @ + 1, !.soon = FALSE]
    OBVIOUS
  <2>2. e.nth \in 0..MaxGets /\ e.nth < gets /\ gets \in 0..MaxGets
    BY <1>1, <1>2, <1>3 DEF VaultInv, Underway
  <2>3. f \in Entry /\ f.nth = e.nth + 1 /\ f.store = e.store /\ f.refresh = e.refresh
        /\ f.soon = FALSE
    <3>1. e.nth + 1 \in 0..MaxGets
      BY <2>2, CredentialsAssumption
    <3> QED
      BY <2>1, <3>1 DEF Entry
  <2>4. f.nth <= gets
    BY <2>2, <2>3, CredentialsAssumption
  <2>5. PICK c : c = [x EXCEPT !.pc = "answer", !.entry = f]
    OBVIOUS
  <2>6. c \in VaultCall /\ c.pc = "answer" /\ c.entry = f
    BY <2>3, <2>5 DEF VaultCall
  <2>7. vcall' = [vcall EXCEPT ![s] = c]
    BY <1>1, <1>3, <1>4, <2>1, <2>5 DEF Vault!Goto, Vault!Fresh, Vault!CanonicalID
  <2>8. PICK r \in Entry : r = row /\ r \in Entries /\ (~ crossed => SameStored(r, last))
                          /\ r.nth <= gets
    BY DEF VaultInv, Entries
  <2>9. e \in Entries /\ SameStored(f, e) /\ SameStored(r, r)
    BY <1>1, <1>3, <2>3 DEF SameStored
  <2>10. VaultWrites(s, c)
    BY <1>2, <2>2, <2>3, <2>4, <2>6, <2>7, <2>8, <2>9, CredentialsAssumption
       DEF VaultWrites, Underway
  <2> QED
    BY <2>6, <2>10, VaultMoves
<1>5. CASE row = Vault!None
  <2>1. PICK c \in VaultCall : c.failed /\ c.entry = x.entry
                             /\ c = [x EXCEPT !.pc = "answer", !.failed = TRUE]
    BY AtFailure
  <2>2. vcall' = [vcall EXCEPT ![s] = c]
    BY <1>1, <1>5, <2>1 DEF Vault!Fail, Vault!CanonicalID
  <2> QED
    BY <1>1, <1>2, <1>5, <2>1, <2>2, VaultGoesOn DEF Underway
<1> QED
  BY <1>4, <1>5

LEMMA VaultReturn ==
  ASSUME VaultInv, NEW s \in Slots, Vault!Return(s)
  PROVE  VaultInv'
<1>1. /\ vcall' = [vcall EXCEPT ![s] = Vault!Free]
      /\ UNCHANGED <<row, stores, gets, last, crossed>>
  BY DEF Vault!Return
<1>2. PICK r \in Entry : r = row /\ r \in Entries /\ (~ crossed => SameStored(r, last))
                        /\ r.nth <= gets /\ gets \in 0..MaxGets
  BY DEF VaultInv, Entries
<1>3. PICK e \in Entry : e = Vault!None /\ e \in Entries /\ e.nth = 0 /\ e.refresh = FALSE
  BY NoneFacts DEF Entries
<1>4. SameStored(r, r) /\ SameStored(e, e)
  BY DEF SameStored
<1>5. PICK c \in VaultCall : c = Vault!Free /\ c.entry = e /\ c.pc = "free"
  BY <1>3, NoneFacts
<1>6. VaultWrites(s, c)
  BY <1>1, <1>2, <1>3, <1>4, <1>5, CredentialsAssumption DEF VaultWrites, Underway
<1> QED
  BY <1>6, VaultMoves

\* A step that leaves the calls alone, and writes the row r when the last thing
\* stored is l.
RowWritten(r, l) ==
  /\ row' = r /\ last' = l /\ UNCHANGED <<vcall, gets>>
  /\ stores' \in 0..MaxStores /\ stores <= stores' /\ crossed' \in BOOLEAN
  /\ r.nth <= gets /\ l.nth <= gets /\ r.store <= stores' /\ l.store <= stores'
  /\ \A e \in Entries :
       (e.store = r.store => e.refresh = r.refresh) /\ (e.store = l.store => e.refresh = l.refresh)
  /\ r.store = l.store => r.refresh = l.refresh
  /\ ~ crossed' => /\ SameStored(r, l)
                   /\ ~ Vault!Refreshing \/ (~ crossed /\ SameStored(l, last))

LEMMA VaultRow ==
  ASSUME VaultInv, NEW r \in Entry, NEW l \in Entry, RowWritten(r, l)
  PROVE  VaultInv'
<1> USE DEF RowWritten
<1>1. ASSUME NEW e \in Entries' PROVE e \in Entries \/ e = r \/ e = l
  BY <1>1 DEF Entries
<1>2. ASSUME NEW e \in Entries' PROVE e.store <= stores'
  <2>1. CASE e \in Entries
    <3>1. e.store \in Nat /\ e.store <= stores /\ stores \in Nat
      <4>1. e \in Entry
        BY <2>1, NoneFacts DEF Entries, VaultInv, VaultCall
      <4> QED
        BY <2>1, <4>1, CredentialsAssumption DEF VaultInv, Entry
    <3> QED
      BY <3>1, CredentialsAssumption
  <2> QED
    BY <1>1, <1>2, <2>1
<1>3. ASSUME NEW e \in Entries', NEW f \in Entries', e.store = f.store PROVE e.refresh = f.refresh
  <2>1. e \in Entries /\ f \in Entries => e.refresh = f.refresh
    BY <1>3 DEF VaultInv
  <2> QED
    BY <1>1, <1>3, <2>1
<1>4. ASSUME NEW u \in Slots PROVE VaultCallSane(u)'
  <2>1. PICK x \in VaultCall : x = vcall[u] /\ x = vcall'[u]
    BY DEF VaultInv
  <2>2. /\ x.entry.nth <= gets
        /\ x.pc \in Underway =>
             x.entry.nth < gets /\ (~ crossed => SameStored(x.entry, last))
        /\ x.pc = "answer" /\ ~ x.failed /\ x.entry.soon => ~ x.entry.refresh
    BY <2>1 DEF VaultInv, VaultCallSane
  <2>3. ~ Vault!Refreshing => x.pc \notin Underway
    BY <2>1 DEF Vault!Refreshing, Underway
  <2>4. gets' = gets
    OBVIOUS
  <2>5. x.pc \in Underway /\ ~ crossed' => SameStored(x.entry, l)
    BY <2>2, <2>3 DEF SameStored
  <2> QED
    BY <2>1, <2>2, <2>4, <2>5 DEF VaultCallSane, SameStored
<1>5. vcall' \in [Slots -> VaultCall] /\ gets' \in 0..MaxGets
  BY DEF VaultInv
<1> QED
  BY <1>2, <1>3, <1>4, <1>5 DEF VaultInv, SameStored

LEMMA VaultStore ==
  ASSUME VaultInv, NEW refresh \in BOOLEAN, NEW soon \in BOOLEAN, Vault!Store(refresh, soon)
  PROVE  VaultInv'
<1>1. stores \in 0..MaxStores /\ gets \in 0..MaxGets /\ \A e \in Entries : e.store <= stores
  BY DEF VaultInv
<1>2. stores < MaxStores /\ stores' = stores + 1 /\ UNCHANGED <<vcall, gets>>
  BY DEF Vault!Store
<1>3. stores' \in 0..MaxStores /\ stores <= stores'
  BY <1>1, <1>2, CredentialsAssumption
<1>4. PICK n \in 0..MaxStores : n = stores + 1
  BY <1>2, <1>3
<1>5. PICK r : r = [store |-> n, nth |-> 0, refresh |-> refresh, soon |-> soon]
  OBVIOUS
<1>6. r \in Entry /\ r.store = n /\ r.nth = 0 /\ r.refresh = refresh
  BY <1>5, CredentialsAssumption DEF Entry
<1>7. row' = r /\ last' = r
  BY <1>4, <1>5 DEF Vault!Store
<1>8. crossed' \in BOOLEAN /\ (~ crossed' => ~ Vault!Refreshing)
  <2>1. crossed' = Vault!Refreshing
    BY DEF Vault!Store
  <2>2. CASE Vault!Refreshing
    BY <2>1, <2>2 DEF Vault!Refreshing
  <2>3. CASE ~ Vault!Refreshing
    BY <2>1, <2>3 DEF Vault!Refreshing
  <2> QED
    BY <2>2, <2>3
<1>9. ASSUME NEW e \in Entries PROVE e.store # r.store
  <2>1. e \in Entry
    BY NoneFacts DEF Entries, VaultInv, VaultCall
  <2>2. e.store \in Nat
    BY <2>1, CredentialsAssumption DEF Entry
  <2> QED
    BY <1>1, <1>4, <1>6, <2>2, CredentialsAssumption
<1>10. RowWritten(r, r)
  BY <1>1, <1>2, <1>3, <1>4, <1>6, <1>7, <1>8, <1>9, CredentialsAssumption
     DEF RowWritten, SameStored
<1> QED
  BY <1>6, <1>10, VaultRow

LEMMA VaultRevoke ==
  ASSUME VaultInv, Vault!Revoke
  PROVE  VaultInv'
<1>1. PICK r \in Entry : r = Vault!None /\ r \in Entries /\ r.nth = 0 /\ r.store = 0
  BY NoneFacts DEF Entries
<1>2. row' = r /\ last' = r /\ UNCHANGED <<vcall, stores, gets>>
  BY <1>1 DEF Vault!Revoke
<1>3. stores \in 0..MaxStores /\ gets \in 0..MaxGets
      /\ \A e \in Entries : e.store = r.store => e.refresh = r.refresh
  BY <1>1 DEF VaultInv
<1>4. crossed' \in BOOLEAN /\ (~ crossed' => ~ Vault!Refreshing)
  <2>1. crossed' = Vault!Refreshing
    BY DEF Vault!Revoke
  <2>2. CASE Vault!Refreshing
    BY <2>1, <2>2 DEF Vault!Refreshing
  <2>3. CASE ~ Vault!Refreshing
    BY <2>1, <2>3 DEF Vault!Refreshing
  <2> QED
    BY <2>2, <2>3
<1>5. RowWritten(r, r)
  BY <1>1, <1>2, <1>3, <1>4, CredentialsAssumption DEF RowWritten, SameStored
<1> QED
  BY <1>5, VaultRow

LEMMA VaultAge ==
  ASSUME VaultInv, Vault!Age
  PROVE  VaultInv'
<1>1. PICK l \in Entry : l = last /\ l \in Entries /\ l.nth <= gets /\ l.store <= stores
  BY DEF VaultInv, Entries
<1>2. PICK o \in Entry : o = row /\ o \in Entries /\ o.nth <= gets /\ o.store <= stores
                        /\ (~ crossed => SameStored(o, l))
  BY <1>1 DEF VaultInv, Entries
<1>3. PICK r : r = [o EXCEPT !.soon = TRUE]
  OBVIOUS
<1>4. r \in Entry /\ r.nth = o.nth /\ r.store = o.store /\ r.refresh = o.refresh
  BY <1>3 DEF Entry
<1>5. row' = r /\ last' = l /\ UNCHANGED <<vcall, stores, gets, crossed>>
  BY <1>1, <1>2, <1>3 DEF Vault!Age
<1>6. stores \in 0..MaxStores /\ gets \in 0..MaxGets /\ crossed \in BOOLEAN
      /\ \A e, f \in Entries : e.store = f.store => e.refresh = f.refresh
  BY DEF VaultInv
<1>7. RowWritten(r, l)
  BY <1>1, <1>2, <1>4, <1>5, <1>6, CredentialsAssumption DEF RowWritten, SameStored
<1> QED
  BY <1>4, <1>7, VaultRow

LEMMA VaultKeeps ==
  ASSUME VaultInv, [Vault!Next]_(Vault!vars)
  PROVE  VaultInv'
<1>1. CASE UNCHANGED Vault!vars
  BY <1>1 DEF Vault!vars, VaultInv, Entries, VaultCallSane, SameStored
<1>2. CASE Vault!Next
  BY <1>2, VaultStore, VaultRevoke, VaultAge, VaultGet, VaultExchange, VaultStoreFresh,
     VaultCanonicalID, VaultReturn DEF Vault!Next
<1> QED
  BY <1>1, <1>2

---------------------------------------------------------------------------
(* AgentTokens                                                             *)

Ops == {"free", "mint", "validate", "revoke"}
AgentCall == [op : Ops, pc : {"", "redis", "success", "failure", "ask", "memory", "accepted"},
              token : Tokens \cup {NoToken}, found : BOOLEAN, late : BOOLEAN]

\* A token that is being minted is known to nobody yet: to no other call, and
\* so to no revocation.
MintSane(s) ==
  tcall[s].op = "mint" =>
    /\ tcall[s].token \notin minted \cup {NoToken}
    /\ \A u \in Slots : tcall[u].token = tcall[s].token => u = s

\* As long as nothing was passed through, Redis alone decides: a revocation
\* that goes on has deleted its token, and no validation finds one that was
\* revoked before it began.
AgentCallSane(s) ==
  LET x == tcall[s]
  IN  /\ x.op = "free" => x = Agent!Free
      /\ x.op \in {"validate", "revoke"} => x.token \in minted
      /\ x.pc = "accepted" => x.op = "validate"
      /\ x.late => x.token \in revoked
      /\ ~ passed =>
           /\ x.pc = "memory" => x.op = "revoke"
           /\ x.op = "revoke" /\ x.pc \in {"success", "memory"} => x.token \notin redis
           /\ x.op = "validate" /\ x.pc = "success" /\ x.found => ~ x.late
           /\ x.pc = "accepted" => ~ x.late

AgentInv ==
  /\ redis \subseteq Tokens /\ memory \subseteq Tokens
  /\ minted \subseteq Tokens /\ revoked \subseteq minted
  /\ healthy \in BOOLEAN /\ passed \in BOOLEAN /\ mode \in {"open", "closed"}
  /\ tcall \in [Slots -> AgentCall]
  /\ \A s \in Slots : MintSane(s) /\ AgentCallSane(s)
  /\ memory \cap revoked = {}
  /\ ~ passed => redis \cap revoked = {}

LEMMA AgentInit == Agent!Init => AgentInv
<1> SUFFICES ASSUME Agent!Init PROVE AgentInv
  OBVIOUS
<1>1. Agent!Free \in AgentCall
  BY DEF Agent!Free, AgentCall, Ops
<1>2. tcall = [s \in Slots |-> Agent!Free]
  BY DEF Agent!Init
<1>3. tcall \in [Slots -> AgentCall]
  BY <1>1, <1>2
<1>4. \A s \in Slots : MintSane(s) /\ AgentCallSane(s)
  BY <1>2 DEF MintSane, AgentCallSane, Agent!Free
<1> QED
  BY <1>3, <1>4 DEF Agent!Init, AgentInv

LEMMA AgentBegin ==
  ASSUME AgentInv, NEW s \in Slots, NEW t \in Tokens,
         Agent!MintAgentToken(s, t) \/ Agent!ValidateToken(s, t) \/ Agent!RevokeToken(s, t)
  PROVE  AgentInv'
<1> DEFINE x(op) == [op |-> op, pc |-> "redis", token |-> t, found |-> FALSE, late |-> t \in revoked]
<1>1. /\ UNCHANGED <<redis, memory, healthy, mode, minted, revoked, passed>>
      /\ tcall[s] = Agent!Free
  BY DEF Agent!MintAgentToken, Agent!ValidateToken, Agent!RevokeToken, Agent!Begin
<1>2. PICK c \in AgentCall :
        /\ tcall' = [tcall EXCEPT ![s] = c]
        /\ c.op \in {"mint", "validate", "revoke"} /\ c.pc = "redis" /\ c.token = t
        /\ c.late => t \in revoked
        /\ c.op = "mint" => t \notin minted /\ \A u \in Slots : tcall[u].token # t
        /\ c.op # "mint" => t \in minted
  <2>1. ASSUME NEW op \in {"mint", "validate", "revoke"} PROVE x(op) \in AgentCall
    BY DEF AgentCall, Ops
  <2>2. CASE Agent!MintAgentToken(s, t)
    <3>1. tcall' = [tcall EXCEPT ![s] = x("mint")]
      BY <2>2 DEF Agent!MintAgentToken, Agent!Begin
    <3>2. t \notin minted /\ \A u \in Slots : tcall[u].token # t
      BY <2>2 DEF Agent!MintAgentToken
    <3>3. x("mint") \in AgentCall
      BY <2>1
    <3> QED
      BY <3>1, <3>2, <3>3
  <2>3. CASE Agent!ValidateToken(s, t)
    <3>1. tcall' = [tcall EXCEPT ![s] = x("validate")] /\ t \in minted
      BY <2>3 DEF Agent!ValidateToken, Agent!Begin
    <3>2. x("validate") \in AgentCall
      BY <2>1
    <3> QED
      BY <3>1, <3>2
  <2>4. CASE Agent!RevokeToken(s, t)
    <3>1. tcall' = [tcall EXCEPT ![s] = x("revoke")] /\ t \in minted
      BY <2>4 DEF Agent!RevokeToken, Agent!Begin
    <3>2. x("revoke") \in AgentCall
      BY <2>1
    <3> QED
      BY <3>1, <3>2
  <2> QED
    BY <2>2, <2>3, <2>4
<1>3. tcall' \in [Slots -> AgentCall] /\ tcall'[s] = c /\ \A u \in Slots : u # s => tcall'[u] = tcall[u]
  BY <1>2 DEF AgentInv
<1>4. ASSUME NEW u \in Slots PROVE MintSane(u)'
  <2>1. CASE u = s
    <3>1. c.op = "mint" => t # NoToken
      <4>1. tcall[s].token = NoToken
        <5>1. Agent!Free.token = NoToken
          BY DEF Agent!Free
        <5> QED
          BY <1>1, <5>1
      <4> QED
        BY <1>2, <4>1
    <3> QED
      BY <1>1, <1>2, <1>3, <2>1, <3>1 DEF MintSane
  <2>2. CASE u # s
    <3>1. tcall[u].op = "mint" => tcall[u].token # t
      BY <1>2 DEF AgentInv, MintSane
    <3> QED
      BY <1>1, <1>2, <1>3, <2>2, <3>1 DEF MintSane, AgentInv
  <2> QED
    BY <2>1, <2>2
<1>5. ASSUME NEW u \in Slots PROVE AgentCallSane(u)'
  <2>1. CASE u = s
    BY <1>1, <1>2, <1>3, <2>1 DEF AgentCallSane
  <2>2. CASE u # s
    BY <1>1, <1>3, <2>2 DEF AgentCallSane, AgentInv, Agent!Free
  <2> QED
    BY <2>1, <2>2
<1> QED
  BY <1>1, <1>3, <1>4, <1>5 DEF AgentInv

\* A step of call s that writes the record c, and what it may do to the rest.
AgentWrites(s, c) ==
  /\ tcall' = [tcall EXCEPT ![s] = c]
  /\ UNCHANGED mode /\ healthy' \in BOOLEAN
  /\ passed' \in BOOLEAN /\ (passed => passed')
  /\ redis' \subseteq Tokens /\ memory' \subseteq Tokens /\ minted' \subseteq Tokens
  /\ minted \subseteq minted' /\ revoked \subseteq revoked' /\ revoked' \subseteq minted'
  /\ \A t \in minted' : t \in minted \/ (tcall[s].op = "mint" /\ t = tcall[s].token)
  /\ \A t \in redis' : t \in redis \/ (tcall[s].op = "mint" /\ t = tcall[s].token)
  /\ \A t \in memory' : t \notin revoked'
  /\ ~ passed' => \A t \in redis' : t \notin revoked'
  /\ c.op = "mint" => tcall[s].op = "mint" /\ c.token = tcall[s].token /\ c.token \notin minted'
  /\ c.token = tcall[s].token \/ c.token = NoToken
  \* The record that is written is sane.
  /\ c.op = "free" => c = Agent!Free
  /\ c.op \in {"validate", "revoke"} => c.token \in minted'
  /\ c.pc = "accepted" => c.op = "validate"
  /\ c.late => c.token \in revoked'
  /\ ~ passed' =>
       /\ c.pc = "memory" => c.op = "revoke"
       /\ c.op = "revoke" /\ c.pc \in {"success", "memory"} => c.token \notin redis'
       /\ c.op = "validate" /\ c.pc = "success" /\ c.found => ~ c.late
       /\ c.pc = "accepted" => ~ c.late

LEMMA AgentMoves ==
  ASSUME AgentInv, NEW s \in Slots, NEW c \in AgentCall, AgentWrites(s, c)
  PROVE  AgentInv'
<1> USE DEF AgentWrites
<1>1. tcall' \in [Slots -> AgentCall] /\ tcall'[s] = c /\ \A u \in Slots : u # s => tcall'[u] = tcall[u]
  BY DEF AgentInv
<1>2. ASSUME NEW u \in Slots PROVE MintSane(u)'
  <2>1. CASE u = s
    <3> SUFFICES ASSUME c.op = "mint"
                 PROVE  /\ c.token \notin minted' \cup {NoToken}
                        /\ \A v \in Slots : tcall'[v].token = c.token => v = s
      BY <1>1, <2>1 DEF MintSane
    <3>1. MintSane(s) /\ tcall[s].op = "mint"
      BY DEF AgentInv
    <3>2. tcall[s].token # NoToken /\ \A v \in Slots : tcall[v].token = tcall[s].token => v = s
      BY <3>1 DEF MintSane
    <3>3. c.token = tcall[s].token /\ c.token \notin minted'
      OBVIOUS
    <3>4. ASSUME NEW v \in Slots, tcall'[v].token = c.token PROVE v = s
      BY <1>1, <3>2, <3>3, <3>4
    <3> QED
      BY <3>2, <3>3, <3>4
  <2>2. CASE u # s
    <3>1. tcall'[u] = tcall[u] /\ MintSane(u) /\ MintSane(s)
      BY <1>1, <2>2 DEF AgentInv
    <3> SUFFICES ASSUME tcall[u].op = "mint"
                 PROVE  /\ tcall[u].token \notin minted' \cup {NoToken}
                        /\ \A v \in Slots : tcall'[v].token = tcall[u].token => v = u
      BY <3>1 DEF MintSane
    <3>2. /\ tcall[u].token \notin minted \cup {NoToken}
          /\ \A v \in Slots : tcall[v].token = tcall[u].token => v = u
      BY <3>1 DEF MintSane
    <3>3. tcall[s].token # tcall[u].token
      BY <2>2, <3>2
    <3>4. tcall[u].token \notin minted'
      BY <3>2, <3>3
    <3> QED
      BY <1>1, <3>2, <3>3, <3>4
  <2> QED
    BY <2>1, <2>2
<1>3. ASSUME NEW u \in Slots PROVE AgentCallSane(u)'
  <2>1. CASE u = s
    BY <1>1, <2>1 DEF AgentCallSane, Agent!Free
  <2>2. CASE u # s
    <3>1. PICK x \in AgentCall : x = tcall[u] /\ x = tcall'[u]
      BY <1>1, <2>2
    <3>2. /\ x.op = "free" => x = Agent!Free
          /\ x.op \in {"validate", "revoke"} => x.token \in minted
          /\ x.pc = "accepted" => x.op = "validate"
          /\ x.late => x.token \in revoked
          /\ ~ passed =>
               /\ x.pc = "memory" => x.op = "revoke"
               /\ x.op = "revoke" /\ x.pc \in {"success", "memory"} => x.token \notin redis
               /\ x.op = "validate" /\ x.pc = "success" /\ x.found => ~ x.late
               /\ x.pc = "accepted" => ~ x.late
      BY <3>1 DEF AgentInv, AgentCallSane
    <3>3. ~ passed' => ~ passed
      OBVIOUS
    <3>4. ASSUME x.op = "revoke", x.token \notin redis PROVE x.token \notin redis'
      <4>1. tcall[s].op = "mint" => tcall[s].token \notin minted
        BY DEF AgentInv, MintSane
      <4> QED
        BY <3>2, <3>4, <4>1
    <3>5. /\ x.op = "free" => x = Agent!Free
          /\ x.op \in {"validate", "revoke"} => x.token \in minted'
          /\ x.late => x.token \in revoked'
          /\ ~ passed' => (x.op = "revoke" /\ x.pc \in {"success", "memory"} => x.token \notin redis')
      BY <3>2, <3>3, <3>4
    <3> QED
      BY <3>1, <3>2, <3>3, <3>5 DEF AgentCallSane, Agent!Free
  <2> QED
    BY <2>1, <2>2
<1> QED
  BY <1>1, <1>2, <1>3 DEF AgentInv

\* What is known of the call that takes a step.
LEMMA AgentKnown ==
  ASSUME AgentInv, NEW s \in Slots
  PROVE  \E x \in AgentCall :
           /\ x = tcall[s]
           /\ x.op = "free" => x = Agent!Free /\ x.pc = ""
           /\ x.op = "mint" => x.token \in Tokens /\ x.token \notin minted
           /\ x.op \in {"validate", "revoke"} => x.token \in minted
           /\ x.pc = "accepted" => x.op = "validate"
           /\ x.late => x.token \in revoked
           /\ ~ passed =>
                /\ x.pc = "memory" => x.op = "revoke"
                /\ x.op = "revoke" /\ x.pc \in {"success", "memory"} => x.token \notin redis
                /\ x.op = "validate" /\ x.pc = "success" /\ x.found => ~ x.late
                /\ x.pc = "accepted" => ~ x.late
<1>1. PICK x \in AgentCall : x = tcall[s]
  BY DEF AgentInv
<1>2. x.op = "mint" => x.token \in Tokens /\ x.token \notin minted
  <2>1. x.token \in Tokens \cup {NoToken}
    BY DEF AgentCall
  <2> QED
    BY <1>1, <2>1 DEF AgentInv, MintSane
<1>3. Agent!Free.pc = ""
  BY DEF Agent!Free
<1>4. AgentCallSane(s)
  BY DEF AgentInv
<1> QED
  BY <1>1, <1>2, <1>3, <1>4 DEF AgentCallSane

\* A call that goes on to the step pc.
At(x, pc) == [x EXCEPT !.pc = pc]

LEMMA AtPc ==
  ASSUME NEW x \in AgentCall,
         NEW p \in {"", "redis", "success", "failure", "ask", "memory", "accepted"}
  PROVE  /\ At(x, p) \in AgentCall
         /\ At(x, p).op = x.op /\ At(x, p).pc = p /\ At(x, p).token = x.token
         /\ At(x, p).found = x.found /\ At(x, p).late = x.late
<1>1. PICK c : c = [x EXCEPT !.pc = p]
  OBVIOUS
<1>2. /\ c \in AgentCall
      /\ c.op = x.op /\ c.pc = p /\ c.token = x.token
      /\ c.found = x.found /\ c.late = x.late
  BY <1>1 DEF AgentCall
<1> QED
  BY <1>1, <1>2 DEF At

LEMMA AgentFree ==
  /\ Agent!Free \in AgentCall
  /\ Agent!Free.op = "free" /\ Agent!Free.pc = "" /\ Agent!Free.token = NoToken
  /\ ~ Agent!Free.late
BY DEF Agent!Free, AgentCall, Ops

LEMMA AgentCommand ==
  ASSUME AgentInv, NEW s \in Slots, Agent!Command(s)
  PROVE  AgentInv'
<1>1. PICK x \in AgentCall :
        /\ x = tcall[s]
        /\ x.op = "free" => x = Agent!Free /\ x.pc = ""
        /\ x.op = "mint" => x.token \in Tokens /\ x.token \notin minted
        /\ x.op \in {"validate", "revoke"} => x.token \in minted
        /\ x.late => x.token \in revoked
  BY AgentKnown
<1>2. /\ UNCHANGED <<memory, healthy, mode, minted, revoked, passed>>
      /\ x.pc = "redis"
      /\ redis' \in {redis, Agent!Done(x.op, x.token)}
  BY <1>1 DEF Agent!Command
<1>3. x.op \in {"mint", "validate", "revoke"}
  BY <1>1, <1>2 DEF AgentCall, Ops
<1>4. /\ redis \subseteq Tokens /\ memory \subseteq Tokens /\ minted \subseteq Tokens
      /\ revoked \subseteq minted /\ healthy \in BOOLEAN /\ passed \in BOOLEAN
      /\ \A t \in memory : t \notin revoked
      /\ ~ passed => \A t \in redis : t \notin revoked
  BY DEF AgentInv
<1>5. /\ redis' \subseteq Tokens
      /\ \A t \in redis' : t \in redis \/ (x.op = "mint" /\ t = x.token)
      /\ ~ passed => redis' \cap revoked = {}
  BY <1>1, <1>2, <1>3, <1>4 DEF Agent!Done
<1>6. PICK c \in AgentCall :
        /\ tcall' = [tcall EXCEPT ![s] = c]
        /\ c.op = x.op /\ c.token = x.token /\ c.late = x.late
        /\ \/ c.pc = "failure"
           \/ /\ c.pc = "success" /\ c.found = (x.token \in redis)
              /\ redis' = Agent!Done(x.op, x.token)
  <2>1. CASE Agent!Goto(s, "failure")
    <3>1. PICK c : c = [x EXCEPT !.pc = "failure"]
      OBVIOUS
    <3>2. c \in AgentCall /\ c.op = x.op /\ c.pc = "failure" /\ c.token = x.token /\ c.late = x.late
      BY <3>1 DEF AgentCall
    <3>3. tcall' = [tcall EXCEPT ![s] = c]
      BY <1>1, <2>1, <3>1 DEF Agent!Goto
    <3> QED
      BY <3>2, <3>3
  <2>2. CASE /\ redis' = Agent!Done(x.op, x.token)
             /\ tcall' = [tcall EXCEPT ![s] =
                            [x EXCEPT !.pc = "success", !.found = x.token \in redis]]
    <3>1. PICK b \in BOOLEAN : b <=> x.token \in redis
      <4>1. CASE x.token \in redis
        BY <4>1
      <4>2. CASE x.token \notin redis
        BY <4>2
      <4> QED
        BY <4>1, <4>2
    <3>2. PICK c : c = [x EXCEPT !.pc = "success", !.found = b]
      OBVIOUS
    <3>3. c \in AgentCall /\ c.op = x.op /\ c.token = x.token /\ c.late = x.late
          /\ c.pc = "success" /\ c.found = b
      BY <3>2 DEF AgentCall
    <3>4. tcall' = [tcall EXCEPT ![s] = c]
      BY <2>2, <3>1, <3>2
    <3>5. c.found = (x.token \in redis)
      BY <3>1, <3>3
    <3> QED
      BY <2>2, <3>3, <3>4, <3>5
  <2> QED
    BY <1>1, <2>1, <2>2 DEF Agent!Command
<1>7. c.pc = "success" /\ x.op = "revoke" => c.token \notin redis'
  BY <1>6 DEF Agent!Done
<1>8. ~ passed => (c.op = "validate" /\ c.pc = "success" /\ c.found => ~ c.late)
  BY <1>1, <1>4, <1>6
<1>9. AgentWrites(s, c)
  BY <1>1, <1>2, <1>3, <1>4, <1>5, <1>6, <1>7, <1>8 DEF AgentWrites
<1> QED
  BY <1>9, AgentMoves

LEMMA AgentSuccess ==
  ASSUME AgentInv, NEW s \in Slots, Agent!RecordSuccess(s)
  PROVE  AgentInv'
<1>1. PICK x \in AgentCall :
        /\ x = tcall[s]
        /\ x.op = "free" => x = Agent!Free /\ x.pc = ""
        /\ x.op = "mint" => x.token \in Tokens /\ x.token \notin minted
        /\ x.op \in {"validate", "revoke"} => x.token \in minted
        /\ x.late => x.token \in revoked
        /\ ~ passed =>
             /\ x.op = "revoke" /\ x.pc \in {"success", "memory"} => x.token \notin redis
             /\ x.op = "validate" /\ x.pc = "success" /\ x.found => ~ x.late
  BY AgentKnown
<1>2. UNCHANGED <<redis, memory, mode, passed>> /\ healthy' = TRUE /\ x.pc = "success"
  BY <1>1 DEF Agent!RecordSuccess
<1>3. x.op \in {"mint", "validate", "revoke"}
  BY <1>1, <1>2 DEF AgentCall, Ops
<1>4. /\ redis \subseteq Tokens /\ memory \subseteq Tokens /\ minted \subseteq Tokens
      /\ revoked \subseteq minted /\ healthy \in BOOLEAN /\ passed \in BOOLEAN
      /\ \A t \in memory : t \notin revoked
      /\ ~ passed => \A t \in redis : t \notin revoked
  BY DEF AgentInv
<1>5. CASE x.op = "revoke"
  <2>1. Agent!Goto(s, "memory") /\ UNCHANGED <<minted, revoked>>
    BY <1>1, <1>5 DEF Agent!RecordSuccess
  <2>2. PICK c \in AgentCall :
          /\ c = At(x, "memory")
          /\ c.op = x.op /\ c.pc = "memory" /\ c.token = x.token /\ c.late = x.late
    BY AtPc
  <2>3. tcall' = [tcall EXCEPT ![s] = c]
    BY <1>1, <2>1, <2>2 DEF Agent!Goto, At
  <2>4. AgentWrites(s, c)
    BY <1>1, <1>2, <1>4, <1>5, <2>1, <2>2, <2>3 DEF AgentWrites
  <2> QED
    BY <2>4, AgentMoves
<1>6. CASE x.op = "validate" /\ ~ x.found
  <2>1. tcall' = [tcall EXCEPT ![s] = Agent!Free] /\ UNCHANGED <<minted, revoked>>
    BY <1>1, <1>6 DEF Agent!RecordSuccess, Agent!End
  <2>2. AgentWrites(s, Agent!Free)
    BY <1>1, <1>2, <1>4, <2>1, AgentFree DEF AgentWrites
  <2> QED
    BY <2>2, AgentFree, AgentMoves
<1>7. CASE x.op = "validate" /\ x.found
  <2>1. tcall' = [tcall EXCEPT ![s] = [x EXCEPT !.pc = "accepted"]] /\ UNCHANGED <<minted, revoked>>
    BY <1>1, <1>7 DEF Agent!RecordSuccess, Agent!Succeed
  <2>2. PICK c \in AgentCall :
          /\ c = At(x, "accepted")
          /\ c.op = x.op /\ c.pc = "accepted" /\ c.token = x.token /\ c.late = x.late
    BY AtPc
  <2>3. tcall' = [tcall EXCEPT ![s] = c]
    BY <2>1, <2>2 DEF At
  <2>4. AgentWrites(s, c)
    BY <1>1, <1>2, <1>4, <1>7, <2>1, <2>2, <2>3 DEF AgentWrites
  <2> QED
    BY <2>4, AgentMoves
<1>8. CASE x.op = "mint"
  <2>1. /\ tcall' = [tcall EXCEPT ![s] = Agent!Free]
        /\ minted' = minted \cup {x.token} /\ revoked' = revoked
    BY <1>1, <1>8 DEF Agent!RecordSuccess, Agent!Succeed
  <2>2. minted' \subseteq Tokens /\ \A t \in minted' : t \in minted \/ t = x.token
    BY <1>1, <1>4, <1>8, <2>1
  <2>3. AgentWrites(s, Agent!Free)
    BY <1>1, <1>2, <1>4, <1>8, <2>1, <2>2, AgentFree DEF AgentWrites
  <2> QED
    BY <2>3, AgentFree, AgentMoves
<1> QED
  BY <1>3, <1>5, <1>6, <1>7, <1>8

LEMMA AgentFailure ==
  ASSUME AgentInv, NEW s \in Slots, Agent!RecordFailure(s)
  PROVE  AgentInv'
<1>1. PICK x \in AgentCall :
        /\ x = tcall[s]
        /\ x.op = "free" => x = Agent!Free /\ x.pc = ""
        /\ x.op = "mint" => x.token \in Tokens /\ x.token \notin minted
        /\ x.op \in {"validate", "revoke"} => x.token \in minted
        /\ x.late => x.token \in revoked
  BY AgentKnown
<1>2. /\ UNCHANGED <<redis, memory, mode, minted, revoked, passed>>
      /\ healthy' = FALSE /\ x.pc = "failure" /\ Agent!Goto(s, "ask")
  BY <1>1 DEF Agent!RecordFailure
<1>3. x.op # "free"
  BY <1>1, <1>2
<1>4. /\ redis \subseteq Tokens /\ memory \subseteq Tokens /\ minted \subseteq Tokens
      /\ revoked \subseteq minted /\ healthy \in BOOLEAN /\ passed \in BOOLEAN
      /\ \A t \in memory : t \notin revoked
      /\ ~ passed => \A t \in redis : t \notin revoked
  BY DEF AgentInv
<1>5. PICK c \in AgentCall :
        /\ c = At(x, "ask")
        /\ c.op = x.op /\ c.pc = "ask" /\ c.token = x.token /\ c.late = x.late
  <2>1. /\ At(x, "ask") \in AgentCall /\ At(x, "ask").op = x.op /\ At(x, "ask").pc = "ask"
        /\ At(x, "ask").token = x.token /\ At(x, "ask").late = x.late
    BY AtPc
  <2> QED
    BY <2>1
<1>6. tcall' = [tcall EXCEPT ![s] = c]
  BY <1>1, <1>2, <1>5 DEF Agent!Goto, At
<1>7. c.op \in {"mint", "validate", "revoke"}
  BY <1>3, <1>5 DEF AgentCall, Ops
<1>8. /\ c.op = "mint" => c.token \in Tokens /\ c.token \notin minted
      /\ c.op \in {"validate", "revoke"} => c.token \in minted
      /\ c.late => c.token \in revoked
      /\ c.op = x.op /\ c.token = x.token
  BY <1>1, <1>5
<1>9. AgentWrites(s, c)
  BY <1>1, <1>2, <1>4, <1>5, <1>6, <1>7, <1>8 DEF AgentWrites
<1> QED
  BY <1>9, AgentMoves

LEMMA AgentFallback ==
  ASSUME AgentInv, NEW s \in Slots, Agent!ShouldAllow(s)
  PROVE  AgentInv'
<1>1. PICK x \in AgentCall :
        /\ x = tcall[s]
        /\ x.op = "free" => x = Agent!Free /\ x.pc = ""
        /\ x.op = "mint" => x.token \in Tokens /\ x.token \notin minted
        /\ x.op \in {"validate", "revoke"} => x.token \in minted
        /\ x.late => x.token \in revoked
  BY AgentKnown
<1>2. UNCHANGED <<redis, memory, healthy, mode, minted, revoked>> /\ x.pc = "ask"
  BY <1>1 DEF Agent!ShouldAllow, Agent!End
<1>3. x.op # "free"
  BY <1>1, <1>2
<1>4. /\ redis \subseteq Tokens /\ memory \subseteq Tokens /\ minted \subseteq Tokens
      /\ revoked \subseteq minted /\ healthy \in BOOLEAN /\ passed \in BOOLEAN
      /\ \A t \in memory : t \notin revoked
      /\ ~ passed => \A t \in redis : t \notin revoked
  BY DEF AgentInv
<1>5. CASE healthy \/ mode = "open"
  <2>1. Agent!Goto(s, "memory") /\ passed' = TRUE
    BY <1>5 DEF Agent!ShouldAllow
  <2>2. PICK c \in AgentCall :
          /\ c = At(x, "memory")
          /\ c.op = x.op /\ c.pc = "memory" /\ c.token = x.token /\ c.late = x.late
    BY AtPc
  <2>3. tcall' = [tcall EXCEPT ![s] = c]
    BY <1>1, <2>1, <2>2 DEF Agent!Goto, At
  <2>4. AgentWrites(s, c)
    BY <1>1, <1>2, <1>3, <1>4, <2>1, <2>2, <2>3 DEF AgentWrites
  <2> QED
    BY <2>4, AgentMoves
<1>6. CASE ~ (healthy \/ mode = "open")
  <2>1. tcall' = [tcall EXCEPT ![s] = Agent!Free] /\ passed' = passed
    BY <1>6 DEF Agent!ShouldAllow, Agent!End
  <2>2. AgentWrites(s, Agent!Free)
    BY <1>1, <1>2, <1>4, <2>1, AgentFree DEF AgentWrites
  <2> QED
    BY <2>2, AgentFree, AgentMoves
<1> QED
  BY <1>5, <1>6

LEMMA AgentReturn ==
  ASSUME AgentInv, NEW s \in Slots, Agent!Return(s)
  PROVE  AgentInv'
<1>1. PICK x \in AgentCall : x = tcall[s]
  BY DEF AgentInv
<1>2. /\ UNCHANGED <<redis, memory, healthy, mode, minted, revoked, passed>>
      /\ tcall' = [tcall EXCEPT ![s] = Agent!Free]
  BY DEF Agent!Return, Agent!End
<1>3. /\ redis \subseteq Tokens /\ memory \subseteq Tokens /\ minted \subseteq Tokens
      /\ revoked \subseteq minted /\ healthy \in BOOLEAN /\ passed \in BOOLEAN
      /\ \A t \in memory : t \notin revoked
      /\ ~ passed => \A t \in redis : t \notin revoked
  BY DEF AgentInv
<1>4. AgentWrites(s, Agent!Free)
  BY <1>1, <1>2, <1>3, AgentFree DEF AgentWrites
<1> QED
  BY <1>4, AgentFree, AgentMoves

LEMMA AgentInMemory ==
  ASSUME AgentInv, NEW s \in Slots, Agent!InMemory(s)
  PROVE  AgentInv'
<1>1. PICK x \in AgentCall :
        /\ x = tcall[s]
        /\ x.op = "free" => x = Agent!Free /\ x.pc = ""
        /\ x.op = "mint" => x.token \in Tokens /\ x.token \notin minted
        /\ x.op \in {"validate", "revoke"} => x.token \in minted
        /\ x.late => x.token \in revoked
        /\ ~ passed =>
             /\ x.pc = "memory" => x.op = "revoke"
             /\ x.op = "revoke" /\ x.pc \in {"success", "memory"} => x.token \notin redis
  BY AgentKnown
<1>2. UNCHANGED <<redis, healthy, mode, passed>> /\ x.pc = "memory"
  BY <1>1 DEF Agent!InMemory
<1>3. x.op \in {"mint", "validate", "revoke"}
  BY <1>1, <1>2 DEF AgentCall, Ops
<1>4. /\ redis \subseteq Tokens /\ memory \subseteq Tokens /\ minted \subseteq Tokens
      /\ revoked \subseteq minted /\ healthy \in BOOLEAN /\ passed \in BOOLEAN
      /\ \A t \in memory : t \notin revoked
      /\ ~ passed => \A t \in redis : t \notin revoked
  BY DEF AgentInv
<1>5. CASE x.op = "revoke"
  <2>1. /\ memory' = memory \ {x.token} /\ revoked' = revoked \cup {x.token} /\ minted' = minted
        /\ tcall' = [tcall EXCEPT ![s] = Agent!Free]
    BY <1>1, <1>5 DEF Agent!InMemory, Agent!Succeed
  <2>2. memory' \cap revoked' = {} /\ memory' \subseteq Tokens /\ revoked' \subseteq minted'
    BY <1>1, <1>4, <1>5, <2>1
  <2>3. ~ passed' => redis' \cap revoked' = {}
    BY <1>1, <1>2, <1>4, <1>5, <2>1
  <2>4. AgentWrites(s, Agent!Free)
    BY <1>1, <1>2, <1>4, <2>1, <2>2, <2>3, AgentFree DEF AgentWrites
  <2> QED
    BY <2>4, AgentFree, AgentMoves
<1>6. CASE x.op = "mint"
  <2>1. /\ memory' = memory \cup {x.token} /\ revoked' = revoked /\ minted' = minted \cup {x.token}
        /\ tcall' = [tcall EXCEPT ![s] = Agent!Free]
    BY <1>1, <1>6 DEF Agent!InMemory, Agent!Succeed
  <2>2. /\ memory' \cap revoked' = {} /\ memory' \subseteq Tokens
        /\ minted' \subseteq Tokens /\ \A t \in minted' : t \in minted \/ t = x.token
    BY <1>1, <1>4, <1>6, <2>1
  <2>3. AgentWrites(s, Agent!Free)
    BY <1>1, <1>2, <1>4, <1>6, <2>1, <2>2, AgentFree DEF AgentWrites
  <2> QED
    BY <2>3, AgentFree, AgentMoves
<1>7. CASE x.op = "validate"
  <2>1. memory' = memory /\ UNCHANGED <<minted, revoked>>
    BY <1>1, <1>7 DEF Agent!InMemory, Agent!Succeed, Agent!End
  <2>2. passed
    BY <1>1, <1>2, <1>7
  <2>3. CASE x.token \notin memory
    <3>1. tcall' = [tcall EXCEPT ![s] = Agent!Free]
      BY <1>1, <1>7, <2>3 DEF Agent!InMemory, Agent!End
    <3>2. AgentWrites(s, Agent!Free)
      BY <1>1, <1>2, <1>4, <2>1, <3>1, AgentFree DEF AgentWrites
    <3> QED
      BY <3>2, AgentFree, AgentMoves
  <2>4. CASE x.token \in memory
    <3>1. tcall' = [tcall EXCEPT ![s] = [x EXCEPT !.pc = "accepted"]]
      BY <1>1, <1>7, <2>4 DEF Agent!InMemory, Agent!Succeed
    <3>2. PICK c \in AgentCall :
            /\ c = At(x, "accepted")
            /\ c.op = x.op /\ c.pc = "accepted" /\ c.token = x.token /\ c.late = x.late
      BY AtPc
    <3>3. tcall' = [tcall EXCEPT ![s] = c]
      BY <3>1, <3>2 DEF At
    <3>4. AgentWrites(s, c)
      BY <1>1, <1>2, <1>4, <1>7, <2>1, <2>2, <3>2, <3>3 DEF AgentWrites
    <3> QED
      BY <3>4, AgentMoves
  <2> QED
    BY <2>3, <2>4
<1> QED
  BY <1>3, <1>5, <1>6, <1>7

LEMMA AgentKeeps == AgentInv /\ [Agent!Next]_(Agent!vars) => AgentInv'
<1> SUFFICES ASSUME AgentInv, [Agent!Next]_(Agent!vars) PROVE AgentInv'
  OBVIOUS
<1>1. CASE UNCHANGED Agent!vars
  BY <1>1 DEF Agent!vars, AgentInv, MintSane, AgentCallSane, Agent!Free
<1>2. CASE Agent!Next
  BY <1>2, AgentBegin, AgentCommand, AgentSuccess, AgentFailure, AgentFallback, AgentInMemory,
     AgentReturn DEF Agent!Next
<1> QED
  BY <1>1, <1>2

---------------------------------------------------------------------------
(* The parts together                                                      *)

\* Whatever part moves, each of them behaves as its own specification says.
LEMMA EachRuns == CredentialsSpec => OAuth!Spec /\ Vault!Spec /\ Agent!Spec
<1>1. CredentialsInit => OAuth!Init /\ Vault!Init /\ Agent!Init
  BY DEF CredentialsInit
<1>2. [CredentialsNext]_credentialVars => [OAuth!Next]_(OAuth!vars) /\ [Vault!Next]_(Vault!vars) /\ [Agent!Next]_(Agent!vars)
  BY DEF CredentialsNext, OAuthStep, VaultStep, TokensStep, credentialVars, oauthVars, vaultVars,
         agentVars, OAuth!vars, Vault!vars, Agent!vars
<1> QED
  BY <1>1, <1>2, PTL DEF CredentialsSpec, OAuth!Spec, Vault!Spec, Agent!Spec

LEMMA VaultInvariance == Vault!Spec => []VaultInv
<1>1. VaultInv /\ [Vault!Next]_(Vault!vars) => VaultInv'
  BY VaultKeeps
<1> QED
  BY <1>1, VaultInit, PTL DEF Vault!Spec

LEMMA AgentInvariance == Agent!Spec => []AgentInv
<1>1. AgentInv /\ [Agent!Next]_(Agent!vars) => AgentInv'
  BY AgentKeeps
<1> QED
  BY <1>1, AgentInit, PTL DEF Agent!Spec

\* Every reachable state of what hands out and keeps credentials is well typed
\* (server.go of mcpauth, vault.go, tokens.go, fallback.go).
THEOREM CredentialTypes == CredentialsSpec => []CredentialsTypeOK
<1>1. VaultInv => Vault!TypeOK
  <2> SUFFICES ASSUME VaultInv PROVE Vault!TypeOK
    OBVIOUS
  <2>1. ASSUME NEW s \in Slots PROVE vcall[s] \in VaultCall
    BY DEF VaultInv
  <2>2. ASSUME NEW e \in {row, last} \cup {vcall[s].entry : s \in Slots} PROVE e \in Entry
    BY <2>1 DEF VaultInv, VaultCall
  <2> QED
    BY <2>1, <2>2 DEF VaultInv, VaultCall, Entry, Vault!TypeOK
<1>2. AgentInv => Agent!TypeOK
  <2> SUFFICES ASSUME AgentInv PROVE Agent!TypeOK
    OBVIOUS
  <2>1. ASSUME NEW s \in Slots PROVE tcall[s].token \in Tokens \cup {NoToken}
    BY DEF AgentInv, AgentCall
  <2> QED
    BY <2>1 DEF AgentInv, Agent!TypeOK
<1> QED
  BY <1>1, <1>2, EachRuns, OAuthTypes, VaultInvariance, AgentInvariance, PTL DEF CredentialsTypeOK

\* An automatic refresh of the vault that no Store or Revoke crosses keeps what
\* was stored last and answers with a fresh token, however many calls refresh
\* at once (vault.go).  A revoked agent token leaves no copy in the cache and is
\* refused, as long as the fallback let no call pass (tokens.go, fallback.go).
THEOREM CredentialsAreSafe == CredentialsSpec => []CredentialsSafe
<1>1. VaultInv => Vault!LastWriterKept
  BY DEF VaultInv, SameStored, Vault!LastWriterKept
<1>2. VaultInv => Vault!AnswersFresh
  <2> SUFFICES ASSUME VaultInv, NEW s \in Slots,
                      vcall[s].pc = "answer", ~ vcall[s].failed,
                      vcall[s].entry.store = last.store, last.refresh
               PROVE  ~ vcall[s].entry.soon
    BY DEF Vault!AnswersFresh
  <2>1. vcall[s].entry \in Entries /\ last \in Entries
    BY DEF Entries
  <2>2. vcall[s].entry.refresh
    BY <2>1 DEF VaultInv
  <2>3. VaultCallSane(s)
    BY DEF VaultInv
  <2> QED
    BY <2>2, <2>3 DEF VaultCallSane
<1>3. AgentInv => Agent!MemoryForgets /\ Agent!RevokedRefused
  BY DEF AgentInv, AgentCallSane, Agent!MemoryForgets, Agent!RevokedRefused
<1> QED
  BY <1>1, <1>2, <1>3, EachRuns, VaultInvariance, AgentInvariance, PTL DEF CredentialsSafe

---------------------------------------------------------------------------
(* LocalEngine: the inductive invariant                                    *)

\* An engine process has started, and its launcher goes on from there.
Spawned == {"health", "advertise", "running", "stop", "remove"}

McpState ==
  [step : {"off", "prepare", "fallback", "spawn"} \cup Spawned, n : 0..MaxStarts,
   bin : {"todo", "fetch", "rename", "done", "failed"},
   key : {"todo", "truncate", "write", "done"},
   held : Launcher!Keys \cup {NoOne}, port : Ports \cup {NoOne},
   mine : BOOLEAN, torn : BOOLEAN]
SdkState ==
  [step : {"new", "key", "ready"}, pid : Launcher!Pids \cup {NoOne},
   met : Launcher!Pids \cup {NoOne}, found : {NoOne, "starting", "listening", "closing"},
   key : Launcher!Keys \cup {NoOne}]
EngineRun == [pid : Launcher!Pids, port : Ports, key : Launcher!Keys, bin : {"whole"}]

LauncherTypes ==
  /\ keyFile \subseteq made /\ \A k1, k2 \in keyFile : k1 = k2
  /\ made \subseteq Launcher!Keys /\ IsFiniteSet(made)
  /\ cached \in {NoOne, "whole"}
  /\ record # NoOne => record \in [pid : Launcher!Pids, port : Ports]
  /\ mcp \in [Launchers -> McpState]
  /\ started \subseteq EngineRun
  /\ starting \subseteq Launcher!Pids /\ closing \subseteq Launcher!Pids
  /\ contested \subseteq Launcher!Pids
  /\ serving \in [Ports -> Launcher!Pids \cup {NoOne}]
  /\ left \subseteq Launcher!Pids
  /\ sdk \in [LocalClients -> SdkState]

\* An engine of this process listens, or listened, on this port.
Ran(pid, port) == \E e \in started : e.pid = pid /\ e.port = port

\* What a launcher in state m has found and prepared by each step.
Progress(l, m) ==
  /\ m.step # "off" => m.n # 0
  /\ m.step = "off" => m.key = "todo" /\ m.bin = "todo"
  /\ m.bin = "done" => cached = "whole"
  /\ m.bin \in {"fetch", "rename"} => m.step = "prepare"
  /\ m.key = "done" => m.held \in made
  /\ m.key \in {"truncate", "write"} => /\ m.held = <<l, m.n>> /\ m.held \in made
                                        /\ m.step \in {"prepare", "fallback"}
  /\ m.step \in {"spawn"} \cup Spawned => m.bin = "done" /\ m.key = "done" /\ m.port \in Ports
  /\ m.step \in Spawned => Ran(<<l, m.n>>, m.port)
  /\ m.torn => m.step \in {"stop", "remove"}

\* A process generates its key once, is started once and leaves last.
Once(l, m) ==
  /\ \A k \in made : k[1] = l =>
       k[2] <= m.n /\ (k[2] = m.n /\ m.n # 0 => m.step = "off" \/ m.key # "todo")
  /\ \A e \in started : e.pid[1] = l =>
       e.pid[2] <= m.n /\ (e.pid[2] = m.n => m.step \notin {"prepare", "fallback", "spawn"})
  /\ \A pid \in left : pid[1] = l => pid[2] <= m.n /\ (pid[2] = m.n => m.step = "off")
  /\ m.step = "remove" /\ ~ m.mine /\ ~ m.torn /\ record # NoOne => record.pid # <<l, m.n>>

\* A launcher that saw its engine healthy before the engine listened was
\* answered by a rival.
Raced(l, m) ==
  (m.step = "advertise" \/ m.torn) /\ <<l, m.n>> \in starting => <<l, m.n>> \in contested

\* A port that was handed to one launcher only is free until its engine listens.
PortMeant ==
  \A pid \in Launcher!Pids, p \in Ports :
    Launcher!Pending(pid, p) /\ pid \notin contested =>
      /\ serving[p] = NoOne
      /\ \A q \in Launcher!Pids : Launcher!Pending(q, p) => q = pid

\* A process has one port, and the record names it.
Met(s) == s.step # "new" /\ s.met # s.pid =>
            \/ s.found = "closing"
            \/ s.found = "starting" /\ s.pid \in contested
PortsSound ==
  /\ \A e1, e2 \in started : e1.pid = e2.pid => e1.port = e2.port
  /\ \A p \in Ports : serving[p] # NoOne => Ran(serving[p], p)
  /\ record # NoOne => Ran(record.pid, record.port) /\ record.pid \notin left
  /\ record # NoOne => (record.pid \in starting => record.pid \in contested)
  /\ \A pid \in starting : \E e \in started : e.pid = pid
  /\ \A c \in LocalClients : Met(sdk[c])

\* As long as one key was generated, it is on disk before anybody uses it.
OneKey == \A k1, k2 \in made : k1 = k2
KeySettled ==
  /\ keyFile # {}
  /\ \A l \in Launchers : mcp[l].key \notin {"truncate", "write"}
  /\ \A c \in LocalClients : sdk[c].step = "ready" => sdk[c].key # NoOne
KeyUnused ==
  /\ keyFile = {} /\ started = {} /\ record = NoOne
  /\ \A l \in Launchers : mcp[l].key # "done"
  /\ \A c \in LocalClients : sdk[c].step = "new"
KeysSound ==
  /\ \A e \in started : e.key \in made
  /\ \A c \in LocalClients : sdk[c].key \in made \cup {NoOne}
  /\ OneKey => KeySettled \/ KeyUnused

LauncherInv ==
  /\ LauncherTypes /\ PortsSound /\ PortMeant /\ KeysSound
  /\ \A l \in Launchers : Progress(l, mcp[l]) /\ Once(l, mcp[l]) /\ Raced(l, mcp[l])

---------------------------------------------------------------------------
(* LocalEngine: the start, and steps that move a launcher only             *)

LEMMA LauncherCounts == \A S : Launcher!Cardinality(S) = Cardinality(S)
BY DEF Launcher!Cardinality, Cardinality

LEMMA PidsAre ==
  /\ \A pid \in Launcher!Pids : /\ pid[1] \in Launchers /\ pid[2] \in Nat /\ pid[2] # 0
                                /\ pid = <<pid[1], pid[2]>> /\ pid \in Launcher!Keys
  /\ \A k \in Launcher!Keys : k[1] \in Launchers /\ k[2] \in Nat /\ k = <<k[1], k[2]>>
  /\ \A l \in Launchers, n \in 0..MaxStarts :
       <<l, n>> \in Launcher!Keys /\ (n # 0 => <<l, n>> \in Launcher!Pids)
  /\ NoOne \notin Launcher!Pids /\ NoOne \notin Launcher!Keys /\ NoOne \notin Ports
  /\ NoOne # "whole" /\ MaxStarts \in Nat
BY EngineAssumption DEF Launcher!Pids, Launcher!Keys

LEMMA OffIs ==
  ASSUME NEW n \in 0..MaxStarts
  PROVE  /\ Launcher!Off(n) \in McpState
         /\ Launcher!Off(n).step = "off" /\ Launcher!Off(n).n = n
         /\ Launcher!Off(n).key = "todo" /\ Launcher!Off(n).bin = "todo"
         /\ Launcher!Off(n).held = NoOne /\ Launcher!Off(n).port = NoOne
         /\ Launcher!Off(n).mine = FALSE /\ Launcher!Off(n).torn = FALSE
BY DEF Launcher!Off, McpState, Spawned

LEMMA LauncherStarts == Launcher!Init => LauncherInv
<1> SUFFICES ASSUME Launcher!Init PROVE LauncherInv
  OBVIOUS
<1>1. 0 \in 0..MaxStarts
  BY PidsAre
<1>2. \A l \in Launchers : mcp[l] = Launcher!Off(0)
  BY DEF Launcher!Init
<1>3. /\ keyFile \subseteq made /\ \A k1, k2 \in keyFile : k1 = k2
      /\ made \subseteq Launcher!Keys /\ IsFiniteSet(made)
      /\ \A k \in made : k[2] = 0
  <2>1. CASE keyFile = {}
    BY <2>1, FS_EmptySet DEF Launcher!Init
  <2>2. CASE \E l \in Launchers : keyFile = {<<l, 0>>}
    <3>1. PICK l \in Launchers : keyFile = {<<l, 0>>}
      BY <2>2
    <3>2. made = {<<l, 0>>} /\ <<l, 0>> \in Launcher!Keys
      BY <1>1, <3>1, PidsAre DEF Launcher!Init
    <3>3. IsFiniteSet(made)
      BY <3>2, FS_Singleton
    <3> QED
      BY <3>1, <3>2, <3>3
  <2> QED
    BY <2>1, <2>2 DEF Launcher!Init
<1>4. LauncherTypes
  <2>1. mcp \in [Launchers -> McpState]
    BY <1>1, OffIs DEF Launcher!Init
  <2>2. sdk \in [LocalClients -> SdkState]
    BY DEF Launcher!Init, SdkState
  <2> QED
    BY <1>3, <2>1, <2>2 DEF Launcher!Init, LauncherTypes
<1>5. PortsSound /\ PortMeant
  <2>1. starting = {} /\ \A l \in Launchers : mcp[l].step = "off"
    BY <1>1, <1>2, OffIs DEF Launcher!Init
  <2>2. PortMeant
    BY <2>1 DEF PortMeant, Launcher!Pending, Launcher!At
  <2>3. PortsSound
    BY DEF Launcher!Init, PortsSound, Met
  <2> QED
    BY <2>2, <2>3
<1>6. KeysSound
  <2>1. KeySettled \/ KeyUnused
    BY <1>1, <1>2, OffIs DEF Launcher!Init, KeySettled, KeyUnused
  <2>2. \A c \in LocalClients : sdk[c].key = NoOne
    BY DEF Launcher!Init
  <2>3. started = {}
    BY DEF Launcher!Init
  <2> QED
    BY <2>1, <2>2, <2>3 DEF KeysSound
<1>7. ASSUME NEW l \in Launchers
      PROVE  Progress(l, mcp[l]) /\ Once(l, mcp[l]) /\ Raced(l, mcp[l])
  <2>1. /\ mcp[l].step = "off" /\ mcp[l].n = 0 /\ mcp[l].key = "todo" /\ mcp[l].bin = "todo"
        /\ mcp[l].torn = FALSE
    <3>1. /\ Launcher!Off(0).step = "off" /\ Launcher!Off(0).n = 0
          /\ Launcher!Off(0).key = "todo" /\ Launcher!Off(0).bin = "todo"
          /\ Launcher!Off(0).torn = FALSE
      BY <1>1, OffIs
    <3> QED
      BY <1>2, <3>1
  <2>2. started = {} /\ left = {}
    BY DEF Launcher!Init
  <2>3. \A k \in made : k[2] <= 0
    BY <1>3
  <2> QED
    BY <2>1, <2>2, <2>3 DEF Progress, Once, Raced, Spawned
<1> QED
  BY <1>4, <1>5, <1>6, <1>7 DEF LauncherInv

\* Ports are meant for fewer engines, more are contested, none is taken.
LEMMA MeantFalls ==
  ASSUME PortMeant,
         \A pid \in Launcher!Pids, p \in Ports : Launcher!Pending(pid, p)' => Launcher!Pending(pid, p),
         contested \subseteq contested',
         \A p \in Ports : serving[p] = NoOne => serving'[p] = NoOne
  PROVE  PortMeant'
<1>1. SUFFICES ASSUME NEW pid \in Launcher!Pids, NEW p \in Ports,
                      Launcher!Pending(pid, p)', pid \notin contested'
               PROVE  /\ serving'[p] = NoOne
                      /\ \A q \in Launcher!Pids : Launcher!Pending(q, p)' => q = pid
  BY DEF PortMeant
<1>2. /\ serving[p] = NoOne
      /\ \A q \in Launcher!Pids : Launcher!Pending(q, p) => q = pid
  BY <1>1 DEF PortMeant
<1> QED
  BY <1>2

\* A launcher that goes on without a new port makes none pending.
LEMMA PendingFalls ==
  ASSUME mcp \in [Launchers -> McpState], NEW l \in Launchers, NEW m \in McpState,
         mcp' = [mcp EXCEPT ![l] = m], m.step # "spawn",
         starting' \subseteq starting, started' = started,
         NEW pid, NEW p, Launcher!Pending(pid, p)'
  PROVE  Launcher!Pending(pid, p)
<1>1. CASE pid \in starting' /\ \E e \in started' : e.pid = pid /\ e.port = p
  BY <1>1 DEF Launcher!Pending
<1>2. CASE \E j \in Launchers : mcp'[j].step = "spawn" /\ pid = <<j, mcp'[j].n>> /\ mcp'[j].port = p
  <2>1. PICK j \in Launchers : mcp'[j].step = "spawn" /\ pid = <<j, mcp'[j].n>> /\ mcp'[j].port = p
    BY <1>2
  <2>2. mcp'[j] = mcp[j]
    BY <2>1
  <2> QED
    BY <2>1, <2>2 DEF Launcher!Pending, Launcher!At, Launcher!Pid
<1> QED
  BY <1>1, <1>2 DEF Launcher!Pending, Launcher!At, Launcher!Pid

LEMMA MeantOn ==
  ASSUME LauncherTypes, PortMeant, NEW l \in Launchers, NEW m \in McpState,
         mcp' = [mcp EXCEPT ![l] = m], m.step # "spawn",
         UNCHANGED <<started, starting, serving, closing, contested>>
  PROVE  PortMeant'
<1>1. ASSUME NEW pid \in Launcher!Pids, NEW p \in Ports, Launcher!Pending(pid, p)'
      PROVE  Launcher!Pending(pid, p)
  BY <1>1, PendingFalls DEF LauncherTypes
<1> QED
  BY <1>1, MeantFalls

\* A launcher goes on and touches no file, port or process.
LEMMA QuietLauncher ==
  ASSUME LauncherInv, NEW l \in Launchers, NEW m \in McpState,
         mcp' = [mcp EXCEPT ![l] = m],
         UNCHANGED <<keyFile, made, cached, record, started,
                     starting, serving, closing, contested, left, sdk>>,
         m.key \in {"truncate", "write"} => mcp[l].key \in {"truncate", "write"},
         m.key = "done" => mcp[l].key = "done" \/ keyFile # {},
         Progress(l, m), Once(l, m), Raced(l, m), m.step # "spawn"
  PROVE  LauncherInv'
<1>1. mcp'[l] = m /\ \A j \in Launchers : j # l => mcp'[j] = mcp[j]
  BY DEF LauncherInv, LauncherTypes
<1>2. LauncherTypes'
  BY DEF LauncherInv, LauncherTypes
<1>3. PortsSound' /\ PortMeant'
  <2>1. PortsSound'
    BY DEF LauncherInv, PortsSound, Met, Ran
  <2> QED
    BY <2>1, MeantOn DEF LauncherInv
<1>4. KeysSound'
  <2>1. KeySettled => KeySettled'
    BY <1>1 DEF KeySettled
  <2>2. KeyUnused => KeyUnused'
    BY <1>1 DEF KeyUnused
  <2> QED
    BY <2>1, <2>2 DEF LauncherInv, KeysSound, OneKey
<1>5. ASSUME NEW j \in Launchers PROVE (Progress(j, mcp[j]) /\ Once(j, mcp[j]) /\ Raced(j, mcp[j]))'
  <2>1. PICK x : x = mcp'[j]
    OBVIOUS
  <2>2. Progress(j, x) /\ Once(j, x) /\ Raced(j, x)
    BY <1>1, <2>1 DEF LauncherInv
  <2>3. Progress(j, x)' /\ Once(j, x)' /\ Raced(j, x)'
    BY <2>2 DEF Progress, Once, Raced, Ran
  <2> QED
    BY <2>1, <2>3
<1> QED
  BY <1>2, <1>3, <1>4, <1>5 DEF LauncherInv

\* What the steps below need of the invariant.
LEMMA LauncherAt ==
  ASSUME LauncherInv, NEW l \in Launchers
  PROVE  /\ mcp[l] \in McpState
         /\ Progress(l, mcp[l]) /\ Once(l, mcp[l]) /\ Raced(l, mcp[l])
         /\ keyFile \subseteq made /\ made \subseteq Launcher!Keys
BY DEF LauncherInv, LauncherTypes

---------------------------------------------------------------------------
(* LocalEngine: one lemma per step that moves a launcher only              *)

\* Somebody answers on the port, or nobody does in time.
LEMMA HealthyKeeps ==
  ASSUME LauncherInv, NEW l \in Launchers, Launcher!waitHealthy(l)
  PROVE  LauncherInv'
<1>1. PICK m : m = [mcp[l] EXCEPT !.step = "advertise"]
  OBVIOUS
<1>2. /\ mcp' = [mcp EXCEPT ![l] = m]
      /\ UNCHANGED <<keyFile, made, cached, record, started,
                     starting, serving, closing, contested, left, sdk>>
  BY <1>1 DEF Launcher!waitHealthy, Launcher!At, Launcher!Do, Launcher!files, Launcher!engines
<1>3. PICK o : o = mcp[l]
  OBVIOUS
<1>4. o \in McpState /\ Progress(l, o) /\ Once(l, o) /\ Raced(l, o)
  BY <1>3, LauncherAt
<1>5. /\ m \in McpState /\ o.step = "health" /\ m.step = "advertise"
      /\ m.n = o.n /\ m.bin = o.bin /\ m.key = o.key /\ m.held = o.held /\ m.port = o.port /\ m.mine = o.mine /\ m.torn = o.torn
  BY <1>1, <1>3, <1>4 DEF McpState, Spawned, Launcher!waitHealthy, Launcher!At
<1>6. m.key \in {"truncate", "write"} => mcp[l].key \in {"truncate", "write"}
  BY <1>3, <1>4, <1>5
<1>7. m.key = "done" => mcp[l].key = "done" \/ keyFile # {}
  BY <1>3, <1>4, <1>5
<1>8. Progress(l, m)
  BY <1>4, <1>5, PidsAre DEF Progress, Spawned, McpState
<1>9. Once(l, m)
  BY <1>4, <1>5, PidsAre DEF Once, Progress, Spawned, McpState
<1>10. Raced(l, m) /\ m.step # "spawn"
  <2>1. Ran(<<l, o.n>>, o.port) /\ o.port \in Ports /\ <<l, o.n>> \in Launcher!Pids
    BY <1>4, <1>5, PidsAre DEF Progress, Spawned, McpState
  <2>2. serving[o.port] # NoOne
    BY <1>3 DEF Launcher!waitHealthy
  <2>3. <<l, o.n>> \in starting => Launcher!Pending(<<l, o.n>>, o.port)
    BY <2>1 DEF Launcher!Pending, Ran
  <2> QED
    BY <1>5, <2>1, <2>2, <2>3 DEF Raced, LauncherInv, PortMeant
<1> QED
  BY <1>2, <1>5, <1>6, <1>7, <1>8, <1>9, <1>10, QuietLauncher

\* The engine exits or is late.
LEMMA UnhealthyKeeps ==
  ASSUME LauncherInv, NEW l \in Launchers, Launcher!unhealthy(l)
  PROVE  LauncherInv'
<1>1. PICK m : m = [mcp[l] EXCEPT !.step = "stop"]
  OBVIOUS
<1>2. /\ mcp' = [mcp EXCEPT ![l] = m]
      /\ UNCHANGED <<keyFile, made, cached, record, started,
                     starting, serving, closing, contested, left, sdk>>
  BY <1>1 DEF Launcher!unhealthy, Launcher!At, Launcher!Do, Launcher!files, Launcher!engines
<1>3. PICK o : o = mcp[l]
  OBVIOUS
<1>4. o \in McpState /\ Progress(l, o) /\ Once(l, o) /\ Raced(l, o)
  BY <1>3, LauncherAt
<1>5. /\ m \in McpState /\ o.step = "health" /\ m.step = "stop"
      /\ m.n = o.n /\ m.bin = o.bin /\ m.key = o.key /\ m.held = o.held /\ m.port = o.port /\ m.mine = o.mine /\ m.torn = o.torn
  BY <1>1, <1>3, <1>4 DEF McpState, Spawned, Launcher!unhealthy, Launcher!At
<1>6. m.key \in {"truncate", "write"} => mcp[l].key \in {"truncate", "write"}
  BY <1>3, <1>4, <1>5
<1>7. m.key = "done" => mcp[l].key = "done" \/ keyFile # {}
  BY <1>3, <1>4, <1>5
<1>8. Progress(l, m)
  BY <1>4, <1>5, PidsAre DEF Progress, Spawned, McpState
<1>9. Once(l, m)
  BY <1>4, <1>5, PidsAre DEF Once, Progress, Spawned, McpState
<1>10. Raced(l, m) /\ m.step # "spawn"
  BY <1>4, <1>5 DEF Raced, Progress, McpState
<1> QED
  BY <1>2, <1>5, <1>6, <1>7, <1>8, <1>9, <1>10, QuietLauncher

\* A signal, maybe during the write of the record.
LEMMA StopKeeps ==
  ASSUME LauncherInv, NEW l \in Launchers, Launcher!stop(l)
  PROVE  LauncherInv'
<1>1. PICK m : m = [mcp[l] EXCEPT !.step = "stop", !.torn = Launcher!At(l, "advertise")]
  OBVIOUS
<1>2. /\ mcp' = [mcp EXCEPT ![l] = m]
      /\ UNCHANGED <<keyFile, made, cached, record, started,
                     starting, serving, closing, contested, left, sdk>>
  BY <1>1 DEF Launcher!stop, Launcher!At, Launcher!Do, Launcher!files, Launcher!engines
<1>3. PICK o : o = mcp[l]
  OBVIOUS
<1>4. o \in McpState /\ Progress(l, o) /\ Once(l, o) /\ Raced(l, o)
  BY <1>3, LauncherAt
<1>5. /\ m \in McpState /\ o.step \in {"running", "advertise"} /\ m.step = "stop"
      /\ m.n = o.n /\ m.bin = o.bin /\ m.key = o.key /\ m.held = o.held /\ m.port = o.port /\ m.mine = o.mine
      /\ m.torn => o.step = "advertise"
  BY <1>1, <1>3, <1>4 DEF McpState, Spawned, Launcher!stop, Launcher!At
<1>6. m.key \in {"truncate", "write"} => mcp[l].key \in {"truncate", "write"}
  BY <1>3, <1>4, <1>5
<1>7. m.key = "done" => mcp[l].key = "done" \/ keyFile # {}
  BY <1>3, <1>4, <1>5
<1>8. Progress(l, m)
  BY <1>4, <1>5, PidsAre DEF Progress, Spawned, McpState
<1>9. Once(l, m)
  BY <1>4, <1>5, PidsAre DEF Once, Progress, Spawned, McpState
<1>10. Raced(l, m) /\ m.step # "spawn"
  BY <1>4, <1>5 DEF Raced, Progress, McpState
<1> QED
  BY <1>2, <1>5, <1>6, <1>7, <1>8, <1>9, <1>10, QuietLauncher

\* The record is the launcher's own or not.
LEMMA ReadOwnKeeps ==
  ASSUME LauncherInv, NEW l \in Launchers, Launcher!readOwnRecord(l)
  PROVE  LauncherInv'
<1>1. PICK m : m = [mcp[l] EXCEPT !.step = "remove",
                                 !.mine = record # NoOne /\ record.pid = Launcher!Pid(l)]
  OBVIOUS
<1>2. /\ mcp' = [mcp EXCEPT ![l] = m]
      /\ UNCHANGED <<keyFile, made, cached, record, started,
                     starting, serving, closing, contested, left, sdk>>
  BY <1>1 DEF Launcher!readOwnRecord, Launcher!At, Launcher!Do, Launcher!files, Launcher!engines
<1>3. PICK o : o = mcp[l]
  OBVIOUS
<1>4. o \in McpState /\ Progress(l, o) /\ Once(l, o) /\ Raced(l, o)
  BY <1>3, LauncherAt
<1>5. /\ m \in McpState /\ o.step = "stop" /\ m.step = "remove"
      /\ m.n = o.n /\ m.bin = o.bin /\ m.key = o.key /\ m.held = o.held /\ m.port = o.port /\ m.torn = o.torn
      /\ ~ m.mine /\ record # NoOne => record.pid # <<l, m.n>>
  BY <1>1, <1>3, <1>4 DEF McpState, Spawned, Launcher!readOwnRecord, Launcher!At, Launcher!Pid
<1>6. m.key \in {"truncate", "write"} => mcp[l].key \in {"truncate", "write"}
  BY <1>3, <1>4, <1>5
<1>7. m.key = "done" => mcp[l].key = "done" \/ keyFile # {}
  BY <1>3, <1>4, <1>5
<1>8. Progress(l, m)
  BY <1>4, <1>5, PidsAre DEF Progress, Spawned, McpState
<1>9. Once(l, m)
  BY <1>4, <1>5, PidsAre DEF Once, Progress, Spawned, McpState
<1>10. Raced(l, m) /\ m.step # "spawn"
  BY <1>4, <1>5 DEF Raced, Progress, McpState
<1> QED
  BY <1>2, <1>5, <1>6, <1>7, <1>8, <1>9, <1>10, QuietLauncher

\* The cached binary is taken, or one is to be fetched.
LEMMA ResolveKeeps ==
  ASSUME LauncherInv, NEW l \in Launchers, Launcher!resolveBinary(l)
  PROVE  LauncherInv'
<1>1. PICK m : m = [mcp[l] EXCEPT !.bin = IF cached # NoOne THEN "done" ELSE "fetch"]
  OBVIOUS
<1>2. /\ mcp' = [mcp EXCEPT ![l] = m]
      /\ UNCHANGED <<keyFile, made, cached, record, started,
                     starting, serving, closing, contested, left, sdk>>
  BY <1>1 DEF Launcher!resolveBinary, Launcher!At, Launcher!Do, Launcher!files, Launcher!engines
<1>3. PICK o : o = mcp[l]
  OBVIOUS
<1>4. o \in McpState /\ Progress(l, o) /\ Once(l, o) /\ Raced(l, o)
  BY <1>3, LauncherAt
<1>5. /\ m \in McpState /\ o.step = "prepare" /\ m.step = "prepare" /\ m.bin \in {"done", "fetch"}
      /\ m.bin = "done" => cached = "whole"
      /\ m.n = o.n /\ m.key = o.key /\ m.held = o.held /\ m.port = o.port /\ m.mine = o.mine /\ m.torn = o.torn
  BY <1>1, <1>3, <1>4 DEF McpState, Spawned, Launcher!resolveBinary, Launcher!At, LauncherInv, LauncherTypes
<1>6. m.key \in {"truncate", "write"} => mcp[l].key \in {"truncate", "write"}
  BY <1>3, <1>4, <1>5
<1>7. m.key = "done" => mcp[l].key = "done" \/ keyFile # {}
  BY <1>3, <1>4, <1>5
<1>8. Progress(l, m)
  BY <1>4, <1>5, PidsAre DEF Progress, Spawned, McpState
<1>9. Once(l, m)
  BY <1>4, <1>5, PidsAre DEF Once, Progress, Spawned, McpState
<1>10. Raced(l, m) /\ m.step # "spawn"
  BY <1>4, <1>5 DEF Raced, Progress, McpState
<1> QED
  BY <1>2, <1>5, <1>6, <1>7, <1>8, <1>9, <1>10, QuietLauncher

\* A download is complete and checked, or the start is given up.
LEMMA DownloadKeeps ==
  ASSUME LauncherInv, NEW l \in Launchers, Launcher!downloadEngine(l)
  PROVE  LauncherInv'
<1>0. PICK got \in {"whole", "damaged", "nothing"} :
        /\ mcp' = [mcp EXCEPT ![l] = [mcp[l] EXCEPT !.bin = IF got = "whole" THEN "rename" ELSE "failed",
                                                    !.step = IF got = "whole" THEN @ ELSE "fallback"]]
        /\ UNCHANGED <<keyFile, made, cached, record, started,
                       starting, serving, closing, contested, left, sdk>>
  BY DEF Launcher!downloadEngine, Launcher!Do, Launcher!files, Launcher!engines
<1>1. PICK m : m = [mcp[l] EXCEPT !.bin = IF got = "whole" THEN "rename" ELSE "failed",
                                 !.step = IF got = "whole" THEN @ ELSE "fallback"]
  OBVIOUS
<1>2. /\ mcp' = [mcp EXCEPT ![l] = m]
      /\ UNCHANGED <<keyFile, made, cached, record, started,
                     starting, serving, closing, contested, left, sdk>>
  BY <1>0, <1>1 DEF Launcher!Do, Launcher!files, Launcher!engines
<1>3. PICK o : o = mcp[l]
  OBVIOUS
<1>4. o \in McpState /\ Progress(l, o) /\ Once(l, o) /\ Raced(l, o)
  BY <1>3, LauncherAt
<1>5. /\ m \in McpState /\ o.step = "prepare"
      /\ \/ m.step = "prepare" /\ m.bin = "rename"
         \/ m.step = "fallback" /\ m.bin = "failed"
      /\ m.n = o.n /\ m.key = o.key /\ m.held = o.held /\ m.port = o.port /\ m.mine = o.mine /\ m.torn = o.torn
  BY <1>1, <1>3, <1>4 DEF McpState, Spawned, Progress, Launcher!downloadEngine
<1>6. m.key \in {"truncate", "write"} => mcp[l].key \in {"truncate", "write"}
  BY <1>3, <1>4, <1>5
<1>7. m.key = "done" => mcp[l].key = "done" \/ keyFile # {}
  BY <1>3, <1>4, <1>5
<1>8. Progress(l, m)
  BY <1>4, <1>5, PidsAre DEF Progress, Spawned, McpState
<1>9. Once(l, m)
  BY <1>4, <1>5, PidsAre DEF Once, Progress, Spawned, McpState
<1>10. Raced(l, m) /\ m.step # "spawn"
  BY <1>4, <1>5 DEF Raced, Progress, McpState
<1> QED
  BY <1>2, <1>5, <1>6, <1>7, <1>8, <1>9, <1>10, QuietLauncher

\* The key on disk is used.
LEMMA KeyFoundKeeps ==
  ASSUME LauncherInv, NEW l \in Launchers, NEW k \in keyFile,
         Launcher!At(l, "prepare") \/ Launcher!At(l, "fallback"),
         Launcher!Do(l, [mcp[l] EXCEPT !.key = "done", !.held = k]),
         UNCHANGED <<keyFile, made, cached, record, started,
                     starting, serving, closing, contested, left, sdk>>
  PROVE  LauncherInv'
<1>0. k \in made /\ k \in Launcher!Keys /\ keyFile # {}
  BY LauncherAt
<1>1. PICK m : m = [mcp[l] EXCEPT !.key = "done", !.held = k]
  OBVIOUS
<1>2. /\ mcp' = [mcp EXCEPT ![l] = m]
      /\ UNCHANGED <<keyFile, made, cached, record, started,
                     starting, serving, closing, contested, left, sdk>>
  BY <1>1 DEF Launcher!Do, Launcher!files, Launcher!engines
<1>3. PICK o : o = mcp[l]
  OBVIOUS
<1>4. o \in McpState /\ Progress(l, o) /\ Once(l, o) /\ Raced(l, o)
  BY <1>3, LauncherAt
<1>5. /\ m \in McpState /\ o.step \in {"prepare", "fallback"} /\ m.key = "done" /\ m.held = k /\ m.held \in made
      /\ m.step = o.step /\ m.n = o.n /\ m.bin = o.bin /\ m.port = o.port /\ m.mine = o.mine /\ m.torn = o.torn
  BY <1>0, <1>1, <1>3, <1>4, PidsAre DEF McpState, Spawned, Launcher!At
<1>6. m.key \in {"truncate", "write"} => mcp[l].key \in {"truncate", "write"}
  BY <1>3, <1>4, <1>5
<1>7. m.key = "done" => mcp[l].key = "done" \/ keyFile # {}
  BY <1>3, <1>4, <1>5, <1>0
<1>8. Progress(l, m)
  BY <1>4, <1>5, PidsAre DEF Progress, Spawned, McpState
<1>9. Once(l, m)
  BY <1>4, <1>5, PidsAre DEF Once, Progress, Spawned, McpState
<1>10. Raced(l, m) /\ m.step # "spawn"
  BY <1>4, <1>5 DEF Raced, Progress, McpState
<1> QED
  BY <1>2, <1>5, <1>6, <1>7, <1>8, <1>9, <1>10, QuietLauncher

\* A launcher is killed; its files and its engine stay.
LEMMA KillKeeps ==
  ASSUME LauncherInv, NEW l \in Launchers, Launcher!Kill(l)
  PROVE  LauncherInv'
<1>1. PICK m : m = Launcher!Off(mcp[l].n)
  OBVIOUS
<1>2. /\ mcp' = [mcp EXCEPT ![l] = m]
      /\ UNCHANGED <<keyFile, made, cached, record, started,
                     starting, serving, closing, contested, left, sdk>>
  BY <1>1 DEF Launcher!Kill, Launcher!Do, Launcher!files, Launcher!engines
<1>3. PICK o : o = mcp[l]
  OBVIOUS
<1>4. o \in McpState /\ Progress(l, o) /\ Once(l, o) /\ Raced(l, o)
  BY <1>3, LauncherAt
<1>5. /\ m \in McpState /\ m.step = "off" /\ m.n = o.n /\ m.key = "todo" /\ m.bin = "todo"
      /\ o.step # "off" /\ m.torn = FALSE
  <2>1. o.n \in 0..MaxStarts
    BY <1>4 DEF McpState
  <2>2. o.step # "off"
    BY <1>3 DEF Launcher!Kill, Launcher!At
  <2> QED
    BY <1>1, <1>3, <2>1, <2>2, OffIs
<1>6. m.key \in {"truncate", "write"} => mcp[l].key \in {"truncate", "write"}
  BY <1>3, <1>4, <1>5
<1>7. m.key = "done" => mcp[l].key = "done" \/ keyFile # {}
  BY <1>3, <1>4, <1>5
<1>8. Progress(l, m)
  BY <1>4, <1>5, PidsAre DEF Progress, Spawned, McpState
<1>9. Once(l, m)
  BY <1>4, <1>5, PidsAre DEF Once, Progress, Spawned, McpState
<1>10. Raced(l, m) /\ m.step # "spawn"
  BY <1>4, <1>5 DEF Raced, Progress, McpState
<1> QED
  BY <1>2, <1>5, <1>6, <1>7, <1>8, <1>9, <1>10, QuietLauncher

\* A launcher starts, as a new process.
LEMMA StartKeeps ==
  ASSUME LauncherInv, NEW l \in Launchers, Launcher!startLocalEngine(l)
  PROVE  LauncherInv'
<1>1. PICK m : m = [Launcher!Off(mcp[l].n + 1) EXCEPT !.step = "prepare"]
  OBVIOUS
<1>2. /\ mcp' = [mcp EXCEPT ![l] = m]
      /\ UNCHANGED <<keyFile, made, cached, record, started,
                     starting, serving, closing, contested, left, sdk>>
  BY <1>1 DEF Launcher!startLocalEngine, Launcher!Do, Launcher!files, Launcher!engines
<1>3. PICK o : o = mcp[l]
  OBVIOUS
<1>4. o \in McpState /\ Progress(l, o) /\ Once(l, o) /\ Raced(l, o)
  BY <1>3, LauncherAt
<1>5. /\ m \in McpState /\ m.step = "prepare" /\ m.n = o.n + 1 /\ m.key = "todo" /\ m.bin = "todo"
      /\ o.step = "off" /\ m.torn = FALSE /\ o.n \in Nat
  <2>1. o.n \in 0..MaxStarts /\ o.n + 1 \in 0..MaxStarts /\ o.step = "off"
    BY <1>3, <1>4, PidsAre DEF McpState, Launcher!startLocalEngine, Launcher!At
  <2>2. PICK x : x = Launcher!Off(o.n + 1)
    OBVIOUS
  <2>3. /\ x \in McpState /\ x.n = o.n + 1 /\ x.key = "todo" /\ x.bin = "todo" /\ x.torn = FALSE
    BY <2>1, <2>2, OffIs
  <2>4. m = [x EXCEPT !.step = "prepare"]
    BY <1>1, <1>3, <2>2
  <2> QED
    BY <2>1, <2>3, <2>4 DEF McpState
<1>6. m.key \in {"truncate", "write"} => mcp[l].key \in {"truncate", "write"}
  BY <1>3, <1>4, <1>5
<1>7. m.key = "done" => mcp[l].key = "done" \/ keyFile # {}
  BY <1>3, <1>4, <1>5
<1>8. Progress(l, m)
  BY <1>4, <1>5, PidsAre DEF Progress, Spawned, McpState
<1>9. Once(l, m)
  <2>1. /\ \A k \in made : k[2] \in Nat
        /\ \A e \in started : e.pid[2] \in Nat
        /\ \A pid \in left : pid[2] \in Nat
    BY PidsAre DEF LauncherInv, LauncherTypes, EngineRun
  <2> QED
    BY <1>4, <1>5, <2>1 DEF Once
<1>10. Raced(l, m) /\ m.step # "spawn"
  BY <1>4, <1>5 DEF Raced, Progress, McpState
<1> QED
  BY <1>2, <1>5, <1>6, <1>7, <1>8, <1>9, <1>10, QuietLauncher

---------------------------------------------------------------------------
(* LocalEngine: steps that touch files and processes                       *)

\* What the other launchers notice of a step of l.
Apart(l) ==
  /\ cached' \in {cached, "whole"}
  /\ made \subseteq made' /\ \A k \in made' \ made : k[1] = l
  /\ started \subseteq started' /\ \A e \in started' \ started : e.pid[1] = l
  /\ \A pid \in left' \ left : pid[1] = l
  /\ \A pid \in starting' \ starting : pid[1] = l
  /\ contested \subseteq contested'
  /\ record' = record \/ record' = NoOne \/ record'.pid[1] = l

LEMMA OtherLaunchers ==
  ASSUME LauncherInv, NEW l \in Launchers, NEW m, mcp' = [mcp EXCEPT ![l] = m], Apart(l),
         LauncherTypes', PortsSound', PortMeant', KeysSound',
         Progress(l, m)', Once(l, m)', Raced(l, m)'
  PROVE  LauncherInv'
<1>1. mcp'[l] = m /\ \A j \in Launchers : j # l => mcp'[j] = mcp[j]
  BY DEF LauncherInv, LauncherTypes
<1>2. ASSUME NEW j \in Launchers, j # l
      PROVE  (Progress(j, mcp[j]) /\ Once(j, mcp[j]) /\ Raced(j, mcp[j]))'
  <2>1. PICK x : x = mcp[j]
    OBVIOUS
  <2>2. Progress(j, x) /\ Once(j, x) /\ Raced(j, x) /\ x = mcp'[j]
    BY <1>1, <1>2, <2>1 DEF LauncherInv
  <2>3. Progress(j, x)'
    BY <2>2 DEF Apart, Progress, Ran
  <2>4. Once(j, x)'
    BY <1>2, <2>2 DEF Apart, Once
  <2>5. Raced(j, x)'
    BY <1>2, <2>2 DEF Apart, Raced
  <2> QED
    BY <2>2, <2>3, <2>4, <2>5
<1>3. ASSUME NEW j \in Launchers
      PROVE  (Progress(j, mcp[j]) /\ Once(j, mcp[j]) /\ Raced(j, mcp[j]))'
  <2>1. CASE j = l
    BY <1>1, <2>1
  <2> QED
    BY <1>2, <2>1
<1> QED
  BY <1>3 DEF LauncherInv

\* The download gets its name.
LEMMA InstallKeeps ==
  ASSUME LauncherInv, NEW l \in Launchers, Launcher!installEngine(l)
  PROVE  LauncherInv'
<1>1. PICK m : m = [mcp[l] EXCEPT !.bin = "done"]
  OBVIOUS
<1>2. /\ mcp' = [mcp EXCEPT ![l] = m] /\ cached' = "whole"
      /\ UNCHANGED <<keyFile, made, record, started,
                     starting, serving, closing, contested, left, sdk>>
  BY <1>1 DEF Launcher!installEngine, Launcher!Do, Launcher!engines
<1>3. PICK o : o = mcp[l]
  OBVIOUS
<1>4. o \in McpState /\ Progress(l, o) /\ Once(l, o) /\ o.bin = "rename"
  BY <1>3, LauncherAt DEF Launcher!installEngine
<1>5. /\ m \in McpState /\ m.bin = "done" /\ m.step = o.step /\ m.n = o.n /\ m.key = o.key
      /\ m.held = o.held /\ m.port = o.port /\ m.mine = o.mine /\ m.torn = o.torn
  BY <1>1, <1>3, <1>4 DEF McpState
<1>6. LauncherTypes' /\ PortsSound'
  BY <1>2, <1>5 DEF LauncherInv, LauncherTypes, PortsSound, Met, Ran
<1>7. KeysSound'
  <2>1. mcp'[l].key = mcp[l].key /\ \A j \in Launchers : j # l => mcp'[j] = mcp[j]
    BY <1>2, <1>3, <1>5 DEF LauncherInv, LauncherTypes
  <2> QED
    BY <1>2, <2>1 DEF LauncherInv, KeysSound, OneKey, KeySettled, KeyUnused
<1>8. Progress(l, m)' /\ Once(l, m)' /\ Raced(l, m)'
  BY <1>2, <1>4, <1>5 DEF Progress, Once, Raced, Ran
<1>9. Apart(l)
  BY <1>2 DEF Apart
<1>10. PortMeant'
  <2>1. m.step # "spawn"
    BY <1>4, <1>5 DEF Progress
  <2> QED
    BY <1>2, <1>5, <2>1, MeantOn DEF LauncherInv
<1> QED
  BY <1>2, <1>6, <1>7, <1>8, <1>9, <1>10, OtherLaunchers

\* A key is generated, one for each process.
LEMMA GenerateKeeps ==
  ASSUME LauncherInv, NEW l \in Launchers, mcp[l].key = "todo",
         mcp[l].step \in {"prepare", "fallback"}, keyFile = {},
         Launcher!Do(l, [mcp[l] EXCEPT !.key = "truncate", !.held = Launcher!Pid(l)]),
         made' = made \cup {Launcher!Pid(l)},
         UNCHANGED <<keyFile, cached, record, started,
                     starting, serving, closing, contested, left, sdk>>
  PROVE  LauncherInv'
<1>1. PICK m : m = [mcp[l] EXCEPT !.key = "truncate", !.held = Launcher!Pid(l)]
  OBVIOUS
<1>2. PICK o : o = mcp[l]
  OBVIOUS
<1>3. /\ o \in McpState /\ Progress(l, o) /\ Once(l, o) /\ o.key = "todo"
      /\ o.step \in {"prepare", "fallback"} /\ o.n # 0
  BY <1>2, LauncherAt DEF Progress
<1>4. PICK k : k = <<l, o.n>>
  OBVIOUS
<1>5. mcp' = [mcp EXCEPT ![l] = m] /\ made' = made \cup {k}
  BY <1>1, <1>2, <1>4 DEF Launcher!Do, Launcher!Pid
<1>6. k \in Launcher!Keys /\ k[1] = l /\ k[2] = o.n /\ o.n \in Nat
  BY <1>3, <1>4, PidsAre DEF McpState
<1>7. k \notin made
  BY <1>3, <1>6 DEF Once
<1>8. /\ m \in McpState /\ m.key = "truncate" /\ m.held = k /\ m.step = o.step /\ m.n = o.n
      /\ m.bin = o.bin /\ m.port = o.port /\ m.mine = o.mine /\ m.torn = o.torn
  BY <1>1, <1>2, <1>3, <1>4, <1>6 DEF McpState, Launcher!Pid
<1>9. LauncherTypes'
  <2>1. IsFiniteSet(made')
    BY <1>5, FS_AddElement DEF LauncherInv, LauncherTypes
  <2> QED
    BY <1>5, <1>6, <1>8, <2>1 DEF LauncherInv, LauncherTypes
<1>10. PortsSound'
  BY DEF LauncherInv, PortsSound, Met, Ran
<1>11. KeysSound'
  <2>1. mcp'[l] = m /\ \A j \in Launchers : j # l => mcp'[j] = mcp[j]
    BY <1>5 DEF LauncherInv, LauncherTypes
  <2>2. OneKey' => OneKey
    BY <1>5 DEF OneKey
  <2>3. OneKey => KeyUnused
    BY DEF LauncherInv, KeysSound, KeySettled
  <2>4. KeyUnused => KeyUnused'
    BY <1>8, <2>1 DEF KeyUnused
  <2> QED
    BY <1>5, <2>2, <2>3, <2>4 DEF LauncherInv, KeysSound
<1>12. Progress(l, m)' /\ Once(l, m)' /\ Raced(l, m)'
  BY <1>3, <1>4, <1>5, <1>6, <1>8 DEF Progress, Once, Raced, Ran, Spawned
<1>13. Apart(l)
  BY <1>5, <1>6 DEF Apart
<1>14. PortMeant'
  <2>1. m.step # "spawn"
    BY <1>3, <1>8 DEF Progress
  <2> QED
    BY <1>5, <1>8, <2>1, MeantOn DEF LauncherInv
<1> QED
  BY <1>5, <1>9, <1>10, <1>11, <1>12, <1>13, <1>14, OtherLaunchers

\* The key file is opened, which truncates it, and written.
LEMMA TruncateKeeps ==
  ASSUME LauncherInv, NEW l \in Launchers, Launcher!truncateKey(l)
  PROVE  LauncherInv'
<1>1. PICK m : m = [mcp[l] EXCEPT !.key = "write"]
  OBVIOUS
<1>2. PICK o : o = mcp[l]
  OBVIOUS
<1>3. /\ mcp' = [mcp EXCEPT ![l] = m] /\ keyFile' = {}
      /\ UNCHANGED <<made, cached, record, started,
                     starting, serving, closing, contested, left, sdk>>
  BY <1>1 DEF Launcher!truncateKey, Launcher!Do, Launcher!engines
<1>4. o \in McpState /\ Progress(l, o) /\ Once(l, o) /\ o.key = "truncate"
  BY <1>2, LauncherAt DEF Launcher!truncateKey
<1>5. /\ m \in McpState /\ m.key = "write" /\ m.step = o.step /\ m.n = o.n /\ m.bin = o.bin
      /\ m.held = o.held /\ m.port = o.port /\ m.mine = o.mine /\ m.torn = o.torn
  BY <1>1, <1>2, <1>4 DEF McpState
<1>6. LauncherTypes' /\ PortsSound'
  BY <1>3, <1>5 DEF LauncherInv, LauncherTypes, PortsSound, Met, Ran
<1>7. KeysSound'
  <2>1. mcp'[l] = m /\ \A j \in Launchers : j # l => mcp'[j] = mcp[j]
    BY <1>3 DEF LauncherInv, LauncherTypes
  <2>2. ~ KeySettled
    BY <1>2, <1>4 DEF KeySettled
  <2>3. KeyUnused => KeyUnused'
    BY <1>3, <1>5, <2>1 DEF KeyUnused
  <2> QED
    BY <1>3, <2>2, <2>3 DEF LauncherInv, KeysSound, OneKey
<1>8. Progress(l, m)' /\ Once(l, m)' /\ Raced(l, m)'
  BY <1>3, <1>4, <1>5 DEF Progress, Once, Raced, Ran
<1>9. Apart(l)
  BY <1>3 DEF Apart
<1>10. PortMeant'
  <2>1. m.step # "spawn"
    BY <1>4, <1>5 DEF Progress
  <2> QED
    BY <1>3, <1>5, <2>1, MeantOn DEF LauncherInv
<1> QED
  BY <1>3, <1>6, <1>7, <1>8, <1>9, <1>10, OtherLaunchers

LEMMA WriteKeyKeeps ==
  ASSUME LauncherInv, NEW l \in Launchers, Launcher!writeKey(l)
  PROVE  LauncherInv'
<1>1. PICK m : m = [mcp[l] EXCEPT !.key = "done"]
  OBVIOUS
<1>2. PICK o : o = mcp[l]
  OBVIOUS
<1>3. /\ mcp' = [mcp EXCEPT ![l] = m] /\ keyFile' = {o.held}
      /\ UNCHANGED <<made, cached, record, started,
                     starting, serving, closing, contested, left, sdk>>
  BY <1>1, <1>2 DEF Launcher!writeKey, Launcher!Do, Launcher!engines
<1>4. o \in McpState /\ Progress(l, o) /\ Once(l, o) /\ o.key = "write"
  BY <1>2, LauncherAt DEF Launcher!writeKey
<1>5. /\ m \in McpState /\ m.key = "done" /\ m.step = o.step /\ m.n = o.n /\ m.bin = o.bin
      /\ m.held = o.held /\ m.port = o.port /\ m.mine = o.mine /\ m.torn = o.torn
  BY <1>1, <1>2, <1>4 DEF McpState
<1>6. o.held = <<l, o.n>> /\ o.held \in made
  BY <1>4 DEF Progress
<1>7. LauncherTypes' /\ PortsSound'
  BY <1>3, <1>5, <1>6 DEF LauncherInv, LauncherTypes, PortsSound, Met, Ran
<1>8. KeysSound'
  <2>1. mcp'[l] = m /\ \A j \in Launchers : j # l => mcp'[j] = mcp[j]
    BY <1>3 DEF LauncherInv, LauncherTypes
  <2>2. ~ KeySettled
    BY <1>2, <1>4 DEF KeySettled
  <2>3. ASSUME OneKey, KeyUnused PROVE KeySettled'
    <3>1. ASSUME NEW j \in Launchers, j # l PROVE mcp[j].key \notin {"truncate", "write"}
      <4>1. SUFFICES ASSUME mcp[j].key \in {"truncate", "write"} PROVE FALSE
        OBVIOUS
      <4>2. mcp[j].held = <<j, mcp[j].n>> /\ mcp[j].held \in made
        BY <4>1, LauncherAt DEF Progress
      <4> QED
        BY <1>6, <2>3, <3>1, <4>2 DEF OneKey
    <3> QED
      BY <1>3, <1>5, <2>1, <2>3, <3>1 DEF KeySettled, KeyUnused
  <2> QED
    BY <1>3, <2>2, <2>3 DEF LauncherInv, KeysSound, OneKey
<1>9. Progress(l, m)' /\ Once(l, m)' /\ Raced(l, m)'
  BY <1>3, <1>4, <1>5, <1>6 DEF Progress, Once, Raced, Ran
<1>10. Apart(l)
  BY <1>3 DEF Apart
<1>11. PortMeant'
  <2>1. m.step # "spawn"
    BY <1>4, <1>5 DEF Progress
  <2> QED
    BY <1>3, <1>5, <2>1, MeantOn DEF LauncherInv
<1> QED
  BY <1>3, <1>7, <1>8, <1>9, <1>10, <1>11, OtherLaunchers

\* A port that was free is taken for the engine; who waited for it already is
\* contested from here on.
LEMMA FreePortKeeps ==
  ASSUME LauncherInv, NEW l \in Launchers, Launcher!freePort(l)
  PROVE  LauncherInv'
<1>0. PICK p \in Ports : Launcher!TakePort(l, p)
  BY DEF Launcher!freePort
<1>1. PICK m : m = [mcp[l] EXCEPT !.step = "spawn", !.port = p]
  OBVIOUS
<1>2. PICK o : o = mcp[l]
  OBVIOUS
<1>3. PICK pid : pid = <<l, o.n>>
  OBVIOUS
<1>4. PICK rivals : rivals = Launcher!Rivals(p)
  OBVIOUS
<1>5. /\ mcp' = [mcp EXCEPT ![l] = m] /\ serving[p] = NoOne
      /\ contested' = IF rivals = {} THEN contested ELSE contested \cup rivals \cup {pid}
      /\ UNCHANGED <<keyFile, made, cached, record, started, starting, serving, closing, left, sdk>>
  BY <1>0, <1>1, <1>2, <1>3, <1>4
     DEF Launcher!TakePort, Launcher!Do, Launcher!files, Launcher!Pid
<1>6. o \in McpState /\ Progress(l, o) /\ Once(l, o) /\ Raced(l, o)
  BY <1>2, LauncherAt
<1>7. o.step = "prepare" /\ o.bin = "done" /\ o.key = "done"
  BY <1>2 DEF Launcher!freePort, Launcher!At
<1>8. /\ m \in McpState /\ m.step = "spawn" /\ m.port = p /\ m.n = o.n /\ m.bin = o.bin
      /\ m.key = o.key /\ m.held = o.held /\ m.mine = o.mine /\ m.torn = o.torn
  BY <1>1, <1>2, <1>6 DEF McpState
<1>9. pid \in Launcher!Pids
  BY <1>3, <1>6, <1>7, PidsAre DEF McpState, Progress
<1>10. rivals \subseteq Launcher!Pids /\ contested \subseteq contested'
  BY <1>4, <1>5 DEF Launcher!Rivals
<1>11. LauncherTypes'
  BY <1>5, <1>8, <1>9, <1>10 DEF LauncherInv, LauncherTypes
<1>12. PortsSound'
  BY <1>5, <1>10 DEF LauncherInv, PortsSound, Met, Ran
<1>13. PortMeant'
  <2>1. ASSUME NEW q \in Launcher!Pids, NEW r \in Ports, Launcher!Pending(q, r)'
        PROVE  Launcher!Pending(q, r) \/ (q = pid /\ r = p)
    <3>1. CASE q \in starting' /\ \E e \in started' : e.pid = q /\ e.port = r
      BY <1>5, <3>1 DEF Launcher!Pending
    <3>2. CASE \E j \in Launchers : mcp'[j].step = "spawn" /\ q = <<j, mcp'[j].n>> /\ mcp'[j].port = r
      <4>1. PICK j \in Launchers : mcp'[j].step = "spawn" /\ q = <<j, mcp'[j].n>> /\ mcp'[j].port = r
        BY <3>2
      <4>2. CASE j = l
        BY <1>3, <1>5, <1>8, <4>1, <4>2 DEF LauncherInv, LauncherTypes
      <4>3. CASE j # l
        BY <1>5, <4>1, <4>3 DEF Launcher!Pending, Launcher!At, Launcher!Pid, LauncherInv, LauncherTypes
      <4> QED
        BY <4>2, <4>3
    <3> QED
      BY <2>1, <3>1, <3>2 DEF Launcher!Pending, Launcher!At, Launcher!Pid
  <2>2. SUFFICES ASSUME NEW q \in Launcher!Pids, NEW r \in Ports,
                        Launcher!Pending(q, r)', q \notin contested'
                 PROVE  /\ serving'[r] = NoOne
                        /\ \A w \in Launcher!Pids : Launcher!Pending(w, r)' => w = q
    BY DEF PortMeant
  <2>3. CASE r # p
    <3>1. Launcher!Pending(q, r) /\ q \notin contested
      BY <1>10, <2>1, <2>2, <2>3
    <3>2. /\ serving[r] = NoOne
          /\ \A w \in Launcher!Pids : Launcher!Pending(w, r) => w = q
      BY <3>1 DEF LauncherInv, PortMeant
    <3> QED
      BY <1>5, <2>1, <2>3, <3>2
  <2>4. CASE r = p
    <3>1. q \in rivals \/ q = pid
      BY <1>4, <2>1, <2>2, <2>4 DEF Launcher!Rivals
    <3>2. rivals = {}
      BY <1>5, <2>2, <3>1
    <3>3. \A w \in Launcher!Pids : ~ Launcher!Pending(w, p)
      BY <1>4, <3>2 DEF Launcher!Rivals
    <3> QED
      BY <1>5, <2>1, <2>4, <3>1, <3>2, <3>3
  <2> QED
    BY <2>3, <2>4
<1>14. KeysSound'
  <2>1. mcp'[l] = m /\ \A j \in Launchers : j # l => mcp'[j] = mcp[j]
    BY <1>5 DEF LauncherInv, LauncherTypes
  <2>2. ~ KeyUnused
    BY <1>2, <1>7 DEF KeyUnused
  <2>3. KeySettled => KeySettled'
    BY <1>5, <1>7, <1>8, <2>1 DEF KeySettled
  <2> QED
    BY <1>5, <2>2, <2>3 DEF LauncherInv, KeysSound, OneKey
<1>15. Progress(l, m)' /\ Once(l, m)' /\ Raced(l, m)'
  BY <1>5, <1>6, <1>7, <1>8 DEF Progress, Once, Raced, Ran, Spawned
<1>16. Apart(l)
  BY <1>5, <1>10 DEF Apart
<1> QED
  BY <1>5, <1>11, <1>12, <1>13, <1>14, <1>15, <1>16, OtherLaunchers

\* The engine is started; it does not listen yet.
LEMMA SpawnKeeps ==
  ASSUME LauncherInv, NEW l \in Launchers, Launcher!spawnEngine(l)
  PROVE  LauncherInv'
<1>1. PICK m : m = [mcp[l] EXCEPT !.step = "health"]
  OBVIOUS
<1>2. PICK o : o = mcp[l]
  OBVIOUS
<1>3. PICK pid : pid = <<l, o.n>>
  OBVIOUS
<1>4. PICK e : e = [pid |-> pid, port |-> o.port, key |-> o.held, bin |-> cached]
  OBVIOUS
<1>5. /\ mcp' = [mcp EXCEPT ![l] = m] /\ started' = started \cup {e}
      /\ starting' = starting \cup {pid}
      /\ UNCHANGED <<keyFile, made, cached, record, serving, closing, contested, left, sdk>>
  BY <1>1, <1>2, <1>3, <1>4 DEF Launcher!spawnEngine, Launcher!Do, Launcher!Pid, Launcher!files, Launcher!engines
<1>6. o \in McpState /\ Progress(l, o) /\ Once(l, o) /\ Raced(l, o) /\ o.step = "spawn"
  BY <1>2, LauncherAt DEF Launcher!spawnEngine, Launcher!At
<1>7. /\ o.n # 0 /\ cached = "whole" /\ o.held \in made /\ o.port \in Ports
      /\ pid \in Launcher!Pids /\ pid[1] = l /\ pid[2] = o.n /\ o.held \in Launcher!Keys
  <2>1. o.n # 0 /\ o.bin = "done" /\ o.key = "done" /\ o.port \in Ports
    BY <1>6 DEF Progress
  <2>2. o.n \in 0..MaxStarts
    BY <1>6 DEF McpState
  <2> QED
    BY <1>3, <1>6, <2>1, <2>2, LauncherAt, PidsAre DEF Progress
<1>8. e \in EngineRun /\ e.pid = pid /\ e.port = o.port /\ e.key = o.held
  BY <1>4, <1>7 DEF EngineRun
<1>9. /\ m \in McpState /\ m.step = "health" /\ m.key = o.key /\ m.n = o.n /\ m.bin = o.bin
      /\ m.held = o.held /\ m.port = o.port /\ m.mine = o.mine /\ m.torn = o.torn
  BY <1>1, <1>2, <1>6 DEF McpState, Spawned
<1>10. LauncherTypes'
  BY <1>5, <1>7, <1>8, <1>9 DEF LauncherInv, LauncherTypes
<1>11. PortsSound' /\ PortMeant'
  <2>1. \A f \in started : f.pid # pid
    BY <1>6, <1>7 DEF Once
  <2>2. \A e1, e2 \in started' : e1.pid = e2.pid => e1.port = e2.port
    BY <1>5, <1>8, <2>1 DEF LauncherInv, PortsSound
  <2>3. \A q, p : Ran(q, p) => Ran(q, p)'
    BY <1>5 DEF Ran
  <2>4. (\A p \in Ports : serving[p] # NoOne => Ran(serving[p], p))'
    BY <1>5 DEF LauncherInv, PortsSound, Ran
  <2>5. (record # NoOne => Ran(record.pid, record.port) /\ record.pid \notin left)'
    BY <1>5, <2>3 DEF LauncherInv, PortsSound, Ran
  <2>6. (record # NoOne => (record.pid \in starting => record.pid \in contested))'
    BY <1>5, <2>1 DEF LauncherInv, PortsSound, Ran
  <2>7. (\A q \in starting : \E f \in started : f.pid = q)'
    BY <1>5, <1>8 DEF LauncherInv, PortsSound
  <2>8. (\A c \in LocalClients : Met(sdk[c]))'
    BY <1>5 DEF LauncherInv, PortsSound, Met
  <2>9. PortsSound'
    BY <2>2, <2>4, <2>5, <2>6, <2>7, <2>8 DEF PortsSound
  <2>10. ASSUME NEW q \in Launcher!Pids, NEW p \in Ports, Launcher!Pending(q, p)'
         PROVE  Launcher!Pending(q, p)
    <3>1. CASE q \in starting' /\ \E f \in started' : f.pid = q /\ f.port = p
      <4>1. PICK f \in started' : f.pid = q /\ f.port = p
        BY <3>1
      <4>2. CASE f \in started
        <5>1. q # pid /\ q \in starting
          BY <1>5, <2>1, <3>1, <4>1, <4>2
        <5> QED
          BY <4>1, <4>2, <5>1 DEF Launcher!Pending
      <4>3. CASE f = e
        <5>1. q = pid /\ p = o.port
          BY <1>8, <4>1, <4>3
        <5>2. Launcher!At(l, "spawn") /\ q = Launcher!Pid(l) /\ mcp[l].port = p
          BY <1>2, <1>3, <1>6, <5>1 DEF Launcher!At, Launcher!Pid
        <5> QED
          BY <5>2 DEF Launcher!Pending
      <4> QED
        BY <1>5, <4>2, <4>3
    <3>2. CASE \E j \in Launchers : mcp'[j].step = "spawn" /\ q = <<j, mcp'[j].n>> /\ mcp'[j].port = p
      <4>1. PICK j \in Launchers : mcp'[j].step = "spawn" /\ q = <<j, mcp'[j].n>> /\ mcp'[j].port = p
        BY <3>2
      <4>2. j # l /\ mcp'[j] = mcp[j]
        BY <1>5, <1>9, <4>1 DEF LauncherInv, LauncherTypes
      <4> QED
        BY <4>1, <4>2 DEF Launcher!Pending, Launcher!At, Launcher!Pid
    <3> QED
      BY <2>10, <3>1, <3>2 DEF Launcher!Pending, Launcher!At, Launcher!Pid
  <2>11. PortMeant'
    BY <1>5, <2>10, MeantFalls DEF LauncherInv
  <2> QED
    BY <2>9, <2>11
<1>12. KeysSound'
  <2>1. mcp'[l] = m /\ \A j \in Launchers : j # l => mcp'[j] = mcp[j]
    BY <1>5 DEF LauncherInv, LauncherTypes
  <2>2. ~ KeyUnused
    BY <1>2, <1>6 DEF KeyUnused, Progress
  <2>3. KeySettled => KeySettled'
    BY <1>2, <1>5, <1>9, <2>1 DEF KeySettled
  <2>4. \A f \in started' : f.key \in made'
    BY <1>5, <1>7, <1>8 DEF LauncherInv, KeysSound
  <2> QED
    BY <1>5, <2>2, <2>3, <2>4 DEF LauncherInv, KeysSound, OneKey
<1>13. Progress(l, m)'
  <2>1. Ran(<<l, m.n>>, m.port)'
    BY <1>3, <1>5, <1>8, <1>9 DEF Ran
  <2> QED
    BY <1>5, <1>6, <1>9, <2>1 DEF Progress, Spawned
<1>14. Once(l, m)'
  <2>1. e.pid[2] <= m.n
    BY <1>6, <1>7, <1>8, <1>9, PidsAre DEF McpState
  <2> QED
    BY <1>5, <1>6, <1>8, <1>9, <2>1 DEF Once
<1>15. Apart(l)
  BY <1>5, <1>7, <1>8 DEF Apart
<1>16. Raced(l, m)'
  BY <1>6, <1>9 DEF Raced, Progress
<1> QED
  BY <1>5, <1>10, <1>11, <1>12, <1>13, <1>14, <1>15, <1>16, OtherLaunchers

\* The engine is advertised.
LEMMA AdvertiseKeeps ==
  ASSUME LauncherInv, NEW l \in Launchers, Launcher!writeRuntimeFile(l)
  PROVE  LauncherInv'
<1>1. PICK m : m = [mcp[l] EXCEPT !.step = "running"]
  OBVIOUS
<1>2. PICK o : o = mcp[l]
  OBVIOUS
<1>3. PICK pid : pid = <<l, o.n>>
  OBVIOUS
<1>4. PICK r : r = [pid |-> pid, port |-> o.port]
  OBVIOUS
<1>5. /\ mcp' = [mcp EXCEPT ![l] = m] /\ record' = r
      /\ UNCHANGED <<keyFile, made, cached, started,
                     starting, serving, closing, contested, left, sdk>>
  BY <1>1, <1>2, <1>3, <1>4 DEF Launcher!writeRuntimeFile, Launcher!Do, Launcher!Pid, Launcher!engines
<1>6. o \in McpState /\ Progress(l, o) /\ Once(l, o) /\ Raced(l, o) /\ o.step = "advertise"
  BY <1>2, LauncherAt DEF Launcher!writeRuntimeFile, Launcher!At
<1>7. /\ o.port \in Ports /\ pid \in Launcher!Pids /\ pid[1] = l /\ pid[2] = o.n
      /\ Ran(pid, o.port) /\ o.key = "done" /\ pid \notin left
  BY <1>3, <1>6, PidsAre DEF Progress, Once, Spawned, McpState
<1>8. r.pid = pid /\ r.port = o.port /\ r \in [pid : Launcher!Pids, port : Ports]
  BY <1>4, <1>7
<1>9. /\ m \in McpState /\ m.step = "running" /\ m.key = o.key /\ m.n = o.n /\ m.bin = o.bin
      /\ m.held = o.held /\ m.port = o.port /\ m.mine = o.mine /\ m.torn = o.torn
  BY <1>1, <1>2, <1>6 DEF McpState, Spawned
<1>10. LauncherTypes'
  BY <1>5, <1>8, <1>9 DEF LauncherInv, LauncherTypes
<1>11. PortsSound' /\ PortMeant'
  <2>1. pid \in starting => pid \in contested
    BY <1>3, <1>6 DEF Raced
  <2>2. PortsSound'
    BY <1>5, <1>7, <1>8, <2>1 DEF LauncherInv, PortsSound, Met, Ran
  <2> QED
    BY <1>5, <1>9, <2>2, MeantOn DEF LauncherInv
<1>12. KeysSound'
  <2>1. mcp'[l] = m /\ \A j \in Launchers : j # l => mcp'[j] = mcp[j]
    BY <1>5 DEF LauncherInv, LauncherTypes
  <2>2. ~ KeyUnused
    BY <1>2, <1>7 DEF KeyUnused
  <2>3. KeySettled => KeySettled'
    BY <1>2, <1>5, <1>9, <2>1 DEF KeySettled
  <2> QED
    BY <1>5, <2>2, <2>3 DEF LauncherInv, KeysSound, OneKey
<1>13. Progress(l, m)' /\ Once(l, m)' /\ Raced(l, m)'
  BY <1>5, <1>6, <1>7, <1>9 DEF Progress, Once, Raced, Ran, Spawned
<1>14. Apart(l)
  BY <1>5, <1>7, <1>8 DEF Apart
<1> QED
  BY <1>5, <1>10, <1>11, <1>12, <1>13, <1>14, OtherLaunchers

\* The record is removed when it was the launcher's own, a write that was under
\* way may still land, and the engine is told to go.
LEMMA LeaveKeeps ==
  ASSUME LauncherInv, NEW l \in Launchers, Launcher!removeRuntimeFile(l)
  PROVE  LauncherInv'
<1>1. PICK o : o = mcp[l]
  OBVIOUS
<1>2. PICK m : m = Launcher!Off(o.n)
  OBVIOUS
<1>3. PICK pid : pid = <<l, o.n>>
  OBVIOUS
<1>4. PICK r : r = [pid |-> pid, port |-> o.port]
  OBVIOUS
<1>5. /\ mcp' = [mcp EXCEPT ![l] = m]
      /\ left' = IF o.torn THEN left ELSE left \cup {pid}
      /\ \/ record' = IF o.mine THEN NoOne ELSE record
         \/ o.torn /\ record' = r
      /\ UNCHANGED <<keyFile, made, cached, started, starting, serving, closing, contested, sdk>>
  BY <1>1, <1>2, <1>3, <1>4
     DEF Launcher!removeRuntimeFile, Launcher!Leave, Launcher!engines, Launcher!Do, Launcher!Pid
<1>6. o \in McpState /\ Progress(l, o) /\ Once(l, o) /\ Raced(l, o) /\ o.step = "remove"
  BY <1>1, LauncherAt DEF Launcher!removeRuntimeFile, Launcher!At
<1>7. /\ o.port \in Ports /\ pid \in Launcher!Pids /\ pid[1] = l /\ pid[2] = o.n
      /\ Ran(pid, o.port) /\ o.key = "done" /\ pid \notin left
  BY <1>3, <1>6, PidsAre DEF Progress, Once, Spawned, McpState
<1>8. r.pid = pid /\ r.port = o.port /\ r \in [pid : Launcher!Pids, port : Ports]
  BY <1>4, <1>7
<1>9. m \in McpState /\ m.step = "off" /\ m.n = o.n /\ m.key = "todo" /\ m.bin = "todo" /\ m.torn = FALSE
  <2>1. o.n \in 0..MaxStarts
    BY <1>6 DEF McpState
  <2> QED
    BY <1>2, <2>1, OffIs
<1>10. o.mine \in BOOLEAN /\ o.torn \in BOOLEAN
  BY <1>6 DEF McpState
<1>11. LauncherTypes'
  <2>2. record' # NoOne => record' \in [pid : Launcher!Pids, port : Ports]
    BY <1>5, <1>8 DEF LauncherInv, LauncherTypes
  <2>3. left' \subseteq Launcher!Pids
    BY <1>5, <1>7, <1>10 DEF LauncherInv, LauncherTypes
  <2> QED
    BY <1>5, <1>9, <2>2, <2>3 DEF LauncherInv, LauncherTypes
<1>12. PortsSound' /\ PortMeant'
  <2>2. record' # NoOne => Ran(record'.pid, record'.port) /\ record'.pid \notin left'
    <3>1. CASE o.torn
      BY <1>5, <1>7, <1>8, <3>1 DEF LauncherInv, PortsSound
    <3>2. CASE ~ o.torn /\ o.mine
      BY <1>5, <3>2
    <3>3. CASE ~ o.torn /\ ~ o.mine
      BY <1>3, <1>5, <1>6, <3>3 DEF LauncherInv, PortsSound, Once
    <3> QED
      BY <1>10, <3>1, <3>2, <3>3
  <2>3. \A q, p : Ran(q, p)' <=> Ran(q, p)
    BY <1>5 DEF Ran
  <2>4. record' # NoOne => (record'.pid \in starting => record'.pid \in contested)
    <3>1. o.torn /\ pid \in starting => pid \in contested
      BY <1>3, <1>6 DEF Raced
    <3> QED
      BY <1>5, <1>8, <1>10, <3>1 DEF LauncherInv, PortsSound
  <2>5. PortsSound'
    BY <1>5, <2>2, <2>3, <2>4 DEF LauncherInv, PortsSound, Met
  <2> QED
    BY <1>5, <1>9, <2>5, MeantOn DEF LauncherInv
<1>13. KeysSound'
  <2>1. mcp'[l] = m /\ \A j \in Launchers : j # l => mcp'[j] = mcp[j]
    BY <1>5 DEF LauncherInv, LauncherTypes
  <2>2. ~ KeyUnused
    BY <1>1, <1>7 DEF KeyUnused
  <2>3. KeySettled => KeySettled'
    BY <1>5, <1>9, <2>1 DEF KeySettled
  <2> QED
    BY <1>5, <2>2, <2>3 DEF LauncherInv, KeysSound, OneKey
<1>14. Progress(l, m)' /\ Raced(l, m)'
  BY <1>5, <1>6, <1>9 DEF Progress, Raced, Spawned
<1>15. Once(l, m)'
  <2>1. pid[2] <= m.n
    BY <1>6, <1>7, <1>9, PidsAre DEF McpState
  <2> QED
    BY <1>5, <1>6, <1>7, <1>9, <2>1 DEF Once
<1>16. Apart(l)
  BY <1>5, <1>7, <1>8, <1>10 DEF Apart
<1> QED
  BY <1>5, <1>11, <1>12, <1>13, <1>14, <1>15, <1>16, OtherLaunchers

---------------------------------------------------------------------------
(* LocalEngine: engines and clients                                        *)

\* A step of no launcher changes neither files nor what was started.
LEMMA LaunchersRest ==
  ASSUME LauncherInv, UNCHANGED <<keyFile, made, cached, record, mcp, started, contested, left>>,
         starting' \subseteq starting, LauncherTypes', PortsSound', PortMeant', KeysSound'
  PROVE  LauncherInv'
<1>1. ASSUME NEW j \in Launchers
      PROVE  (Progress(j, mcp[j]) /\ Once(j, mcp[j]) /\ Raced(j, mcp[j]))'
  BY DEF LauncherInv, Progress, Once, Raced, Ran
<1> QED
  BY <1>1 DEF LauncherInv

LEMMA MeantRests ==
  ASSUME LauncherInv, UNCHANGED <<mcp, started, starting, serving, contested>>
  PROVE  PortMeant'
BY DEF LauncherInv, PortMeant, Launcher!Pending, Launcher!At, Launcher!Pid

\* An engine process goes on, for the worse: it serves no more than before.
LEMMA EngineEnds ==
  ASSUME LauncherInv, NEW pid \in Launcher!Pids,
         starting' = starting \ {pid}, serving' = Launcher!Down(pid),
         closing' \subseteq closing \cup {pid},
         UNCHANGED <<keyFile, made, cached, record, mcp, started, contested, left, sdk>>
  PROVE  LauncherInv'
<1>1. \A p \in Ports : serving'[p] = serving[p] \/ serving'[p] = NoOne
  BY DEF Launcher!Down
<1>2. LauncherTypes'
  <2>1. serving' \in [Ports -> Launcher!Pids \cup {NoOne}]
    BY DEF Launcher!Down, LauncherInv, LauncherTypes
  <2> QED
    BY <2>1 DEF LauncherInv, LauncherTypes
<1>3. PortsSound'
  BY <1>1 DEF LauncherInv, PortsSound, Met, Ran
<1>4. PortMeant'
  <2>1. ASSUME NEW q \in Launcher!Pids, NEW p \in Ports, Launcher!Pending(q, p)'
        PROVE  Launcher!Pending(q, p)
    BY <2>1 DEF Launcher!Pending, Launcher!At, Launcher!Pid
  <2> QED
    BY <1>1, <2>1, MeantFalls DEF LauncherInv
<1>5. KeysSound'
  BY DEF LauncherInv, KeysSound, OneKey, KeySettled, KeyUnused
<1> QED
  BY <1>2, <1>3, <1>4, <1>5, LaunchersRest

\* An engine gets the port that was meant for it alone, gets it before a rival,
\* or exits.
LEMMA EngineListens ==
  ASSUME LauncherInv, NEW e \in started, Launcher!ListenAndServe(e)
  PROVE  LauncherInv'
<1>1. /\ e.pid \in starting /\ starting' = starting \ {e.pid}
      /\ serving' = IF serving[e.port] = NoOne THEN [serving EXCEPT ![e.port] = e.pid] ELSE serving
      /\ UNCHANGED <<keyFile, made, cached, record, mcp, started, closing, contested, left, sdk>>
  BY DEF Launcher!ListenAndServe, Launcher!files
<1>2. e.pid \in Launcher!Pids /\ e.port \in Ports /\ Ran(e.pid, e.port)
  BY DEF LauncherInv, LauncherTypes, EngineRun, Ran
<1>3. \A p \in Ports : serving'[p] = serving[p] \/ (p = e.port /\ serving'[p] = e.pid)
  BY <1>1 DEF LauncherInv, LauncherTypes
<1>4. LauncherTypes'
  <2>1. serving' \in [Ports -> Launcher!Pids \cup {NoOne}]
    BY <1>1, <1>2 DEF LauncherInv, LauncherTypes
  <2> QED
    BY <1>1, <2>1 DEF LauncherInv, LauncherTypes
<1>5. PortsSound'
  BY <1>1, <1>2, <1>3 DEF LauncherInv, PortsSound, Met, Ran
<1>6. ASSUME NEW q \in Launcher!Pids, NEW p \in Ports, Launcher!Pending(q, p)'
      PROVE  Launcher!Pending(q, p) /\ q # e.pid
  <2>1. Launcher!Pending(q, p)
    BY <1>1, <1>6 DEF Launcher!Pending, Launcher!At, Launcher!Pid
  <2>2. SUFFICES ASSUME q = e.pid PROVE FALSE
    BY <2>1
  <2>3. PICK j \in Launchers : mcp[j].step = "spawn" /\ q = <<j, mcp[j].n>>
    BY <1>1, <1>6, <2>2 DEF Launcher!Pending, Launcher!At, Launcher!Pid
  <2>4. PICK m : m = mcp[j]
    OBVIOUS
  <2>5. Once(j, m)
    BY <2>4, LauncherAt
  <2>6. e.pid[1] = j /\ e.pid[2] = m.n /\ m.step = "spawn"
    BY <2>2, <2>3, <2>4
  <2> QED
    BY <2>5, <2>6 DEF Once
<1>7. PortMeant'
  <2>1. SUFFICES ASSUME NEW q \in Launcher!Pids, NEW p \in Ports,
                        Launcher!Pending(q, p)', q \notin contested'
                 PROVE  /\ serving'[p] = NoOne
                        /\ \A w \in Launcher!Pids : Launcher!Pending(w, p)' => w = q
    BY DEF PortMeant
  <2>2. Launcher!Pending(q, p) /\ q # e.pid /\ q \notin contested
    BY <1>1, <1>6, <2>1
  <2>3. /\ serving[p] = NoOne
        /\ \A w \in Launcher!Pids : Launcher!Pending(w, p) => w = q
    BY <2>2 DEF LauncherInv, PortMeant
  <2>4. Launcher!Pending(e.pid, e.port)
    BY <1>1 DEF Launcher!Pending
  <2>5. p # e.port
    BY <1>2, <2>2, <2>3, <2>4
  <2> QED
    BY <1>3, <1>6, <2>3, <2>5
<1>8. KeysSound'
  BY <1>1 DEF LauncherInv, KeysSound, OneKey, KeySettled, KeyUnused
<1> QED
  BY <1>1, <1>4, <1>5, <1>7, <1>8, LaunchersRest

\* A client finds a record: behind its port is the process of the record, or the
\* process is closing, or a rival got there first.
LEMMA DiscoverKeeps ==
  ASSUME LauncherInv, NEW c \in LocalClients, Launcher!discoverLocalEngine(c)
  PROVE  LauncherInv'
<1>0. PICK f : f = IF record.pid \in starting THEN "starting"
                   ELSE IF record.pid \in closing THEN "closing" ELSE "listening"
  OBVIOUS
<1>1. PICK s : s = [step |-> "key", pid |-> record.pid, met |-> serving[record.port],
                    key |-> NoOne, found |-> f]
  OBVIOUS
<1>2. /\ sdk' = [sdk EXCEPT ![c] = s]
      /\ UNCHANGED <<keyFile, made, cached, record, mcp, started,
                     starting, serving, closing, contested, left>>
  BY <1>0, <1>1 DEF Launcher!discoverLocalEngine, Launcher!Found, Launcher!files, Launcher!engines
<1>3. /\ record.pid \in Launcher!Pids /\ record.port \in Ports /\ Ran(record.pid, record.port)
      /\ record.pid \in starting => record.pid \in contested
  BY DEF LauncherInv, LauncherTypes, PortsSound, Launcher!discoverLocalEngine
<1>4. ASSUME f = "listening" PROVE serving[record.port] = record.pid
  <2>1. PICK p \in Ports : serving[p] = record.pid
    BY <1>0, <1>4 DEF Launcher!discoverLocalEngine, Launcher!Alive
  <2>2. Ran(record.pid, p)
    BY <1>3, <2>1, PidsAre DEF LauncherInv, PortsSound
  <2>3. p = record.port
    BY <1>3, <2>2 DEF LauncherInv, PortsSound, Ran
  <2> QED
    BY <2>1, <2>3
<1>5. /\ s \in SdkState /\ s.step = "key" /\ s.key = NoOne /\ s.pid = record.pid
      /\ s.met = serving[record.port] /\ s.found = f
  <2>1. f \in {"starting", "listening", "closing"}
    BY <1>0
  <2>2. serving[record.port] \in Launcher!Pids \cup {NoOne}
    BY <1>3 DEF LauncherInv, LauncherTypes
  <2> QED
    BY <1>1, <1>3, <2>1, <2>2 DEF SdkState
<1>6. sdk'[c] = s /\ \A d \in LocalClients : d # c => sdk'[d] = sdk[d]
  BY <1>2 DEF LauncherInv, LauncherTypes
<1>7. LauncherTypes'
  BY <1>2, <1>5 DEF LauncherInv, LauncherTypes
<1>8. PortsSound'
  <2>1. Met(s)'
    BY <1>0, <1>2, <1>3, <1>4, <1>5 DEF Met
  <2> QED
    BY <1>2, <1>6, <2>1 DEF LauncherInv, PortsSound, Met, Ran
<1>9. KeysSound'
  <2>1. ~ KeyUnused
    BY DEF KeyUnused, Launcher!discoverLocalEngine
  <2>2. KeySettled => KeySettled'
    BY <1>2, <1>5, <1>6 DEF KeySettled
  <2> QED
    BY <1>2, <1>5, <1>6, <2>1, <2>2 DEF LauncherInv, KeysSound, OneKey
<1> QED
  BY <1>2, <1>7, <1>8, <1>9, MeantRests, LaunchersRest

\* It reads the key, if there is one.
LEMMA ReadKeyKeeps ==
  ASSUME LauncherInv, NEW c \in LocalClients, Launcher!readKey(c)
  PROVE  LauncherInv'
<1>1. PICK k \in IF keyFile = {} THEN {NoOne} ELSE keyFile :
        sdk' = [sdk EXCEPT ![c].step = "ready", ![c].key = k]
  BY DEF Launcher!readKey
<1>2. PICK s : s = [sdk[c] EXCEPT !.step = "ready", !.key = k]
  OBVIOUS
<1>3. sdk[c].step = "key" /\ sdk[c] \in SdkState
  BY DEF Launcher!readKey, LauncherInv, LauncherTypes
<1>4. /\ sdk' = [sdk EXCEPT ![c] = s]
      /\ UNCHANGED <<keyFile, made, cached, record, mcp, started,
                     starting, serving, closing, contested, left>>
  BY <1>1, <1>2, <1>3 DEF Launcher!readKey, Launcher!files, Launcher!engines, LauncherInv, LauncherTypes
<1>5. k \in made \cup {NoOne} /\ (keyFile # {} => k # NoOne)
  <2>1. keyFile \subseteq made /\ made \subseteq Launcher!Keys
    BY DEF LauncherInv, LauncherTypes
  <2> QED
    BY <1>1, <2>1, PidsAre
<1>6. /\ s \in SdkState /\ s.step = "ready" /\ s.key = k /\ s.met = sdk[c].met
      /\ s.pid = sdk[c].pid /\ s.found = sdk[c].found
  <2>1. k \in Launcher!Keys \cup {NoOne}
    BY <1>5 DEF LauncherInv, LauncherTypes
  <2> QED
    BY <1>2, <1>3, <2>1 DEF SdkState
<1>7. sdk'[c] = s /\ \A d \in LocalClients : d # c => sdk'[d] = sdk[d]
  BY <1>4 DEF LauncherInv, LauncherTypes
<1>8. LauncherTypes'
  BY <1>4, <1>6 DEF LauncherInv, LauncherTypes
<1>9. PortsSound'
  BY <1>3, <1>4, <1>6, <1>7 DEF LauncherInv, PortsSound, Met, Ran
<1>10. KeysSound'
  <2>1. ~ KeyUnused
    BY <1>3 DEF KeyUnused
  <2>2. KeySettled => KeySettled'
    BY <1>4, <1>5, <1>6, <1>7 DEF KeySettled
  <2> QED
    BY <1>4, <1>5, <1>6, <1>7, <2>1, <2>2 DEF LauncherInv, KeysSound, OneKey
<1> QED
  BY <1>4, <1>8, <1>9, <1>10, MeantRests, LaunchersRest

LEMMA LauncherKeeps == LauncherInv /\ [Launcher!Next]_(Launcher!vars) => LauncherInv'
<1> SUFFICES ASSUME LauncherInv, [Launcher!Next]_(Launcher!vars) PROVE LauncherInv'
  OBVIOUS
<1>1. ASSUME NEW l \in Launchers, Launcher!ensureLocalApiKey(l) PROVE LauncherInv'
  <2>1. CASE keyFile # {}
    <3>1. PICK k \in keyFile : Launcher!Do(l, [mcp[l] EXCEPT !.key = "done", !.held = k])
      BY <1>1, <2>1 DEF Launcher!ensureLocalApiKey
    <3>2. /\ Launcher!At(l, "prepare") \/ Launcher!At(l, "fallback")
          /\ UNCHANGED <<keyFile, made, cached, record, started,
                         starting, serving, closing, contested, left, sdk>>
      BY <1>1, <2>1 DEF Launcher!ensureLocalApiKey, Launcher!At, Launcher!engines
    <3> QED
      BY <3>1, <3>2, KeyFoundKeeps
  <2>2. CASE keyFile = {}
    BY <1>1, <2>2, GenerateKeeps DEF Launcher!ensureLocalApiKey, Launcher!engines
  <2> QED
    BY <2>1, <2>2
<1>2. ASSUME NEW l \in Launchers,
             \/ Launcher!startLocalEngine(l) \/ Launcher!resolveBinary(l)
             \/ Launcher!downloadEngine(l) \/ Launcher!installEngine(l)
             \/ Launcher!truncateKey(l) \/ Launcher!writeKey(l) \/ Launcher!freePort(l)
             \/ Launcher!spawnEngine(l) \/ Launcher!waitHealthy(l) \/ Launcher!unhealthy(l)
             \/ Launcher!writeRuntimeFile(l) \/ Launcher!stop(l) \/ Launcher!readOwnRecord(l)
             \/ Launcher!removeRuntimeFile(l) \/ Launcher!Kill(l)
      PROVE  LauncherInv'
  BY <1>2, StartKeeps, ResolveKeeps, DownloadKeeps, InstallKeeps, TruncateKeeps, WriteKeyKeeps,
     FreePortKeeps, SpawnKeeps, HealthyKeeps, UnhealthyKeeps, AdvertiseKeeps, StopKeeps,
     ReadOwnKeeps, LeaveKeeps, KillKeeps
<1>3. CASE UNCHANGED Launcher!vars
  <2>1. UNCHANGED <<keyFile, made, cached, record, mcp, started,
                    starting, serving, closing, contested, left, sdk>>
    BY <1>3 DEF Launcher!vars
  <2>2. LauncherTypes' /\ PortsSound'
    BY <2>1 DEF LauncherInv, LauncherTypes, PortsSound, Met, Ran
  <2>3. KeysSound'
    BY <2>1 DEF LauncherInv, KeysSound, OneKey, KeySettled, KeyUnused
  <2> QED
    BY <2>1, <2>2, <2>3, MeantRests, LaunchersRest
<1>4. ASSUME NEW pid \in Launcher!Pids, Launcher!Shutdown(pid) \/ Launcher!Exit(pid)
      PROVE  LauncherInv'
  BY <1>4, EngineEnds DEF Launcher!Shutdown, Launcher!Exit, Launcher!files
<1> QED
  BY <1>1, <1>2, <1>3, <1>4, EngineListens, DiscoverKeeps, ReadKeyKeeps DEF Launcher!Next

LEMMA LauncherHolds ==
  LauncherInv => /\ Launcher!TypeOK /\ Launcher!RunsWhole /\ Launcher!NoStaleAdvert
                 /\ Launcher!MetTheRecorded /\ Launcher!KeyFits
<1> SUFFICES ASSUME LauncherInv
             PROVE  /\ Launcher!TypeOK /\ Launcher!RunsWhole /\ Launcher!NoStaleAdvert
                    /\ Launcher!MetTheRecorded /\ Launcher!KeyFits
  OBVIOUS
<1>1. Launcher!TypeOK
  <2>1. Launcher!Cardinality(keyFile) <= 1
    <3>1. CASE keyFile = {}
      BY <3>1, FS_EmptySet, LauncherCounts
    <3>2. CASE keyFile # {}
      <4>1. PICK k : k \in keyFile
        BY <3>2
      <4>2. keyFile = {k}
        BY <4>1 DEF LauncherInv, LauncherTypes
      <4>3. Cardinality(keyFile) = 1
        BY <4>2, FS_Singleton
      <4> QED
        BY <4>3, LauncherCounts
    <3> QED
      BY <3>1, <3>2
  <2>2. ASSUME NEW l \in Launchers
        PROVE  /\ mcp[l].step \in Launcher!Prepared \cup {"off", "prepare", "fallback", "stop", "remove"}
               /\ mcp[l].n \in 0..MaxStarts
               /\ mcp[l].bin \in {"todo", "fetch", "rename", "done", "failed"}
               /\ mcp[l].key \in {"todo", "truncate", "write", "done"}
               /\ mcp[l].held \in Launcher!Keys \cup {NoOne} /\ mcp[l].port \in Ports \cup {NoOne}
               /\ mcp[l].step \in Launcher!Prepared => mcp[l].held \in Launcher!Keys /\ mcp[l].port \in Ports
    <3>1. PICK o : o = mcp[l]
      OBVIOUS
    <3>2. o \in McpState /\ Progress(l, o) /\ made \subseteq Launcher!Keys
      BY <3>1, LauncherAt
    <3> QED
      BY <3>1, <3>2 DEF McpState, Progress, Spawned, Launcher!Prepared
  <2>3. \A e \in started : e.pid \in Launcher!Pids /\ e.port \in Ports /\ e.key \in Launcher!Keys
    BY DEF LauncherInv, LauncherTypes, EngineRun
  <2>4. \A c \in LocalClients : /\ sdk[c].step \in {"new", "key", "ready"}
                                /\ sdk[c].pid \in Launcher!Pids \cup {NoOne}
                                /\ sdk[c].met \in Launcher!Pids \cup {NoOne}
                                /\ sdk[c].found \in {NoOne, "starting", "listening", "closing"}
                                /\ sdk[c].key \in Launcher!Keys \cup {NoOne}
    BY DEF LauncherInv, LauncherTypes, SdkState
  <2> QED
    BY <2>1, <2>2, <2>3, <2>4 DEF LauncherInv, LauncherTypes, Launcher!TypeOK
<1>2. Launcher!RunsWhole
  BY DEF LauncherInv, LauncherTypes, EngineRun, Launcher!RunsWhole
<1>3. Launcher!NoStaleAdvert /\ Launcher!MetTheRecorded
  BY DEF LauncherInv, PortsSound, Met, Launcher!NoStaleAdvert, Launcher!MetTheRecorded
<1>4. Launcher!KeyFits
  <2>1. ASSUME Launcher!Cardinality(made) <= 1 PROVE OneKey
    <3>1. IsFiniteSet(made) /\ Cardinality(made) <= 1
      BY <2>1, LauncherCounts DEF LauncherInv, LauncherTypes
    <3>2. ASSUME NEW k1 \in made, NEW k2 \in made, k1 # k2 PROVE FALSE
      <4>1. IsFiniteSet({k1, k2}) /\ Cardinality({k1, k2}) <= Cardinality(made)
        BY <3>1, FS_Subset
      <4>2. Cardinality({k1}) = 1 /\ IsFiniteSet({k1})
        BY FS_Singleton
      <4>3. Cardinality({k1} \cup {k2}) = Cardinality({k1}) + 1
        BY <3>2, <4>2, FS_AddElement
      <4>4. {k1} \cup {k2} = {k1, k2} /\ Cardinality(made) \in Nat
        BY <3>1, FS_CardinalityType
      <4> QED
        BY <3>1, <4>1, <4>2, <4>3, <4>4
    <3> QED
      BY <3>2 DEF OneKey
  <2>2. ASSUME OneKey, NEW c \in LocalClients, NEW e \in started, sdk[c].step = "ready"
        PROVE  sdk[c].key = e.key
    BY <2>2 DEF LauncherInv, KeysSound, OneKey, KeySettled, KeyUnused
  <2> QED
    BY <2>1, <2>2 DEF Launcher!KeyFits
<1> QED
  BY <1>1, <1>2, <1>3, <1>4

---------------------------------------------------------------------------
(* HookDaemon: the inductive invariant                                     *)

Outcomes == {"allow", "ask", "deny"}
HookState ==
  [at : {"idle", "dial", "waiting", "gone", "told"}, req : ToolCalls \cup {NoOne},
   to : Daemons \cup {NoOne}, spawned : BOOLEAN,
   pc : {"none", "mode", "loop", "budget", "flag", "record"},
   shadow : BOOLEAN, real : Outcomes, rule : {"tier1", "loop", "budget"}, late : BOOLEAN,
   entry : [outcome : Outcomes, shadow : BOOLEAN] \cup {NoOne}, told : {"nothing", "ask", "deny"}]
LoopKeys == {r.key : r \in ToolCalls}
LoopEvent == [key : LoopKeys, ts : 0..HookHorizon, rank : Nat]
DaemonState ==
  [at : {"unborn", "starting", "removed", "serving", "dead"},
   history : SUBSET LoopEvent, flagged : BOOLEAN]

HooksTypes ==
  /\ socket \in Daemons \cup {NoOne}
  /\ socket # NoOne => daemon[socket].at \in {"serving", "dead"}
  /\ daemon \in [Daemons -> DaemonState]
  /\ hook \in [HookSlots -> HookState]
  /\ modeFile \in {"shadow", "enforce"} /\ clock \in 0..HookHorizon /\ toolCalls \in 0..MaxToolCalls
  /\ letPass \in [Daemons -> SUBSET LoopEvent] /\ prompted \subseteq Daemons

\* A history keeps every event that was let pass as long as it counts, and in
\* no window is an action let pass to the threshold.
InWindow(passes, key, t) == {e \in Hooks!Of(passes, key) : e.ts \in t..(t + WindowSeconds - 1)}
Remembers(history, passes) ==
  /\ IsFiniteSet(history)
  /\ \A e \in passes : e.ts <= clock
  /\ \A e \in passes : e.ts + WindowSeconds > clock => e \in history
  /\ \A key \in LoopKeys \ {NoKey}, t \in 0..HookHorizon :
       Cardinality(InWindow(passes, key, t)) < RepeatThreshold

DaemonSound(d) ==
  /\ Remembers(daemon[d].history, letPass[d])
  /\ d \in prompted => daemon[d].flagged

\* A decision is as strict as Tier 1 and hookify.
Covers(req, outcome) ==
  \A o \in {req.tier1, req.hookify} : Hooks!Severity[o] <= Hooks!Severity[outcome]

\* A request is served by a living daemon; an allow alone meets the loop and
\* budget checks, and what is decided is as strict as the rules.
Serving(k) ==
  /\ k.pc # "none" => /\ k.at \in {"waiting", "gone"}
                      /\ k.to \in Daemons /\ daemon[k.to].at = "serving"
                      /\ k.late => k.to \in prompted
  /\ k.pc = "flag" => ~ k.late
  /\ k.pc \in {"loop", "budget", "flag"} => k.real = "allow"
  /\ k.pc \in {"loop", "budget", "flag", "record"} => Covers(k.req, k.real)
ToldAs(k) == IF k.told = "nothing" THEN "allow" ELSE k.told
HookSound(k) ==
  /\ k.at # "idle" => k.req \in ToolCalls
  /\ Serving(k)
  /\ k.at = "dial" => k.rule = "tier1"
  /\ k.rule = "budget" => ~ k.late
  /\ k.at = "told" /\ k.entry # NoOne =>
       /\ ToldAs(k) = IF k.entry.shadow THEN "allow" ELSE k.entry.outcome
       /\ ~ k.entry.shadow => Covers(k.req, ToldAs(k))

HooksInv ==
  /\ HooksTypes
  /\ \A d \in Daemons : DaemonSound(d)
  /\ \A h \in HookSlots : HookSound(hook[h])

---------------------------------------------------------------------------
(* HookDaemon: the start, and what its steps have in common                *)

LEMMA HookCounts == \A S : Hooks!Cardinality(S) = Cardinality(S)
BY DEF Hooks!Cardinality, Cardinality

LEMMA RulesAre ==
  /\ \A r \in ToolCalls : r.key \in LoopKeys /\ r.tier1 \in Outcomes /\ r.hookify \in Outcomes
  /\ Hooks!Severity["allow"] = 0 /\ Hooks!Severity["ask"] = 1 /\ Hooks!Severity["deny"] = 2
  /\ RepeatThreshold \in Nat /\ RepeatThreshold # 0 /\ WindowSeconds \in Nat
  /\ HookHorizon \in Nat /\ MaxToolCalls \in Nat /\ NoOne \notin Daemons
BY EngineAssumption DEF LoopKeys, Outcomes, Hooks!Severity

LEMMA IdleIs ==
  /\ Hooks!Idle \in HookState
  /\ Hooks!Idle.at = "idle" /\ Hooks!Idle.pc = "none" /\ Hooks!Idle.rule = "tier1"
  /\ Hooks!Idle.late = FALSE /\ Hooks!Idle.entry = NoOne
  /\ HookSound(Hooks!Idle) /\ HookSound(Hooks!Idle)'
BY DEF Hooks!Idle, HookState, Outcomes, HookSound, Serving

\* Nothing let pass is no repetition.
LEMMA NothingPassed == Remembers({}, {}) /\ Remembers({}, {})'
<1>1. \A key, t : InWindow({}, key, t) = {}
  BY DEF InWindow, Hooks!Of
<1> QED
  BY <1>1, FS_EmptySet, RulesAre DEF Remembers

LEMMA UnbornIs ==
  /\ Hooks!Unborn \in DaemonState /\ Hooks!Unborn.history = {} /\ Hooks!Unborn.at = "unborn"
  /\ \A x : [Hooks!Unborn EXCEPT !.at = x].history = {} /\ [Hooks!Unborn EXCEPT !.at = x].at = x
  /\ \A x \in {"serving", "dead"} : [Hooks!Unborn EXCEPT !.at = x] \in DaemonState
BY DEF Hooks!Unborn, DaemonState

LEMMA HooksStart == Hooks!Init => HooksInv
<1> SUFFICES ASSUME Hooks!Init PROVE HooksInv
  OBVIOUS
<1>1. PICK born : born = [Hooks!Unborn EXCEPT !.at = "serving"]
  OBVIOUS
<1>2. born \in DaemonState /\ born.history = {} /\ born.at = "serving"
  BY <1>1, UnbornIs
<1>3. /\ daemon \in [Daemons -> DaemonState] /\ socket \in Daemons \cup {NoOne}
      /\ \A d \in Daemons : daemon[d].history = {}
      /\ socket # NoOne => daemon[socket].at \in {"serving", "dead"}
  <2>1. CASE socket = NoOne /\ daemon = [d \in Daemons |-> Hooks!Unborn]
    BY <2>1, UnbornIs
  <2>2. CASE \E d \in Daemons :
               socket = d /\ daemon = [[x \in Daemons |-> Hooks!Unborn] EXCEPT ![d].at = "serving"]
    <3>1. PICK d \in Daemons :
            socket = d /\ daemon = [[x \in Daemons |-> Hooks!Unborn] EXCEPT ![d].at = "serving"]
      BY <2>2
    <3>2. daemon = [x \in Daemons |-> IF x = d THEN born ELSE Hooks!Unborn]
      BY <1>1, <3>1
    <3> QED
      BY <1>2, <3>1, <3>2, UnbornIs
  <2> QED
    BY <2>1, <2>2 DEF Hooks!Init
<1>4. /\ hook = [h \in HookSlots |-> Hooks!Idle] /\ modeFile \in {"shadow", "enforce"}
      /\ clock = 0 /\ toolCalls = 0 /\ letPass = [d \in Daemons |-> {}] /\ prompted = {}
  BY DEF Hooks!Init
<1>5. HooksTypes
  BY <1>3, <1>4, IdleIs, RulesAre DEF HooksTypes
<1>6. \A d \in Daemons : DaemonSound(d)
  BY <1>3, <1>4, NothingPassed DEF DaemonSound
<1>7. \A h \in HookSlots : HookSound(hook[h])
  BY <1>4, IdleIs
<1> QED
  BY <1>5, <1>6, <1>7 DEF HooksInv

\* What the steps need of the invariant.
LEMMA HookAt ==
  ASSUME HooksInv, NEW h \in HookSlots
  PROVE  hook[h] \in HookState /\ HookSound(hook[h])
BY DEF HooksInv, HooksTypes

\* A hook stays sound while no daemon that serves goes.
LEMMA HookStays ==
  ASSUME NEW k, HookSound(k),
         k.pc # "none" => daemon'[k.to].at = "serving" /\ (k.to \in prompted => k.to \in prompted')
  PROVE  HookSound(k)'
BY DEF HookSound, Serving, Covers, ToldAs

\* A step of one hook that leaves the daemons alone.
LEMMA HookStep ==
  ASSUME HooksInv, NEW h \in HookSlots, NEW k \in HookState, HookSound(k),
         hook' = [hook EXCEPT ![h] = k], toolCalls' \in 0..MaxToolCalls,
         UNCHANGED <<socket, daemon, modeFile, clock, letPass, prompted>>
  PROVE  HooksInv'
<1>1. HooksTypes'
  BY DEF HooksInv, HooksTypes
<1>2. \A d \in Daemons : DaemonSound(d)'
  BY DEF HooksInv, DaemonSound, Remembers
<1>3. ASSUME NEW j \in HookSlots PROVE HookSound(hook[j])'
  <2>1. PICK x : x = hook'[j]
    OBVIOUS
  <2>2. HookSound(x)
    BY <2>1, HookAt DEF HooksInv, HooksTypes
  <2>3. x.pc # "none" => daemon'[x.to].at = "serving"
    BY <2>2 DEF HookSound, Serving
  <2>4. HookSound(x)'
    BY <2>2, <2>3, HookStays
  <2> QED
    BY <2>1, <2>4
<1> QED
  BY <1>1, <1>2, <1>3 DEF HooksInv

---------------------------------------------------------------------------
(* HookDaemon: one lemma per step of one hook                              *)

LEMMA PreToolUseKeeps ==
  ASSUME HooksInv, NEW h \in HookSlots, NEW req \in ToolCalls, Hooks!PreToolUse(h, req)
  PROVE  HooksInv'
<1>1. PICK k : k = [Hooks!Idle EXCEPT !.at = "dial", !.req = req]
  OBVIOUS
<1>2. k \in HookState /\ k.at = "dial" /\ k.req = req /\ k.pc = "none" /\ k.rule = "tier1"
  BY <1>1 DEF Hooks!Idle, HookState, Outcomes
<1>3. HookSound(k)
  BY <1>2 DEF HookSound, Serving
<1>4. toolCalls' \in 0..MaxToolCalls
  BY RulesAre DEF HooksInv, HooksTypes, Hooks!PreToolUse
<1> QED
  BY <1>1, <1>2, <1>3, <1>4, HookStep DEF Hooks!PreToolUse

\* The goroutine of a connection starts in a daemon that serves.
LEMMA DialKeeps ==
  ASSUME HooksInv, NEW h \in HookSlots, Hooks!Dial(h)
  PROVE  HooksInv'
<1>1. PICK k : k = [hook[h] EXCEPT !.at = "waiting", !.to = socket, !.spawned = FALSE, !.pc = "mode",
                                   !.late = socket \in prompted]
  OBVIOUS
<1>2. PICK o : o = hook[h]
  OBVIOUS
<1>3. o \in HookState /\ HookSound(o) /\ o.at = "dial"
  BY <1>2, HookAt DEF Hooks!Dial
<1>4. socket \in Daemons /\ daemon[socket].at = "serving"
  BY DEF Hooks!Dial, Hooks!Listening, HooksInv, HooksTypes
<1>5. /\ k \in HookState /\ k.at = "waiting" /\ k.req = o.req /\ k.to = socket /\ k.pc = "mode"
      /\ k.rule = o.rule /\ (k.late => socket \in prompted)
  <2>1. (socket \in prompted) \in BOOLEAN
    OBVIOUS
  <2>2. k \in HookState
    BY <1>1, <1>2, <1>3, <1>4, <2>1, Zenon DEF HookState
  <2>3. k.at = "waiting" /\ k.req = o.req /\ k.to = socket /\ k.pc = "mode" /\ k.rule = o.rule
    BY <1>1, <1>2, <1>3 DEF HookState
  <2>4. k.late = (socket \in prompted)
    BY <1>1, <1>2, <1>3, Zenon DEF HookState
  <2> QED
    BY <2>2, <2>3, <2>4
<1>6. HookSound(k)
  BY <1>3, <1>4, <1>5 DEF HookSound, Serving
<1>7. hook' = [hook EXCEPT ![h] = k] /\ toolCalls' \in 0..MaxToolCalls
  BY <1>1 DEF Hooks!Dial, HooksInv, HooksTypes
<1> QED
  BY <1>5, <1>6, <1>7, HookStep DEF Hooks!Dial

\* The hook gives up; a goroutine that serves it goes on.
LEMMA GiveUpKeeps ==
  ASSUME HooksInv, NEW h \in HookSlots, Hooks!GiveUp(h)
  PROVE  HooksInv'
<1>1. PICK o : o = hook[h]
  OBVIOUS
<1>2. PICK k : k = IF o.at = "dial" THEN Hooks!Idle ELSE [o EXCEPT !.at = "gone"]
  OBVIOUS
<1>3. o \in HookState /\ HookSound(o) /\ o.at \in {"dial", "waiting"}
  BY <1>1, HookAt DEF Hooks!GiveUp
<1>4. k \in HookState /\ HookSound(k)
  <2>1. CASE o.at = "dial"
    BY <1>2, <2>1, IdleIs
  <2>2. CASE o.at = "waiting"
    <3>1. /\ k \in HookState /\ k.at = "gone" /\ k.req = o.req /\ k.to = o.to /\ k.pc = o.pc
          /\ k.real = o.real /\ k.rule = o.rule /\ k.late = o.late
      BY <1>2, <1>3, <2>2 DEF HookState
    <3> QED
      BY <1>3, <2>2, <3>1 DEF HookSound, Serving
  <2> QED
    BY <1>3, <2>1, <2>2
<1>5. hook' = [hook EXCEPT ![h] = k] /\ toolCalls' \in 0..MaxToolCalls
  BY <1>1, <1>2 DEF Hooks!GiveUp, HooksInv, HooksTypes
<1> QED
  BY <1>4, <1>5, HookStep DEF Hooks!GiveUp

\* The stricter of Tier 1 and hookify is as strict as both.
LEMMA DecidesStrictly ==
  ASSUME NEW req \in ToolCalls
  PROVE  Hooks!decideReal(req) \in Outcomes /\ Covers(req, Hooks!decideReal(req))
<1>1. PICK a : a = req.tier1
  OBVIOUS
<1>2. PICK b : b = req.hookify
  OBVIOUS
<1>3. a \in Outcomes /\ b \in Outcomes
  BY <1>1, <1>2, RulesAre
<1>4. /\ Hooks!Stricter(a, b) \in {a, b}
      /\ Hooks!Severity[a] <= Hooks!Severity[Hooks!Stricter(a, b)]
      /\ Hooks!Severity[b] <= Hooks!Severity[Hooks!Stricter(a, b)]
  BY <1>3, RulesAre DEF Hooks!Stricter, Outcomes
<1> QED
  BY <1>1, <1>2, <1>3, <1>4 DEF Covers, Hooks!decideReal

LEMMA DecideKeeps ==
  ASSUME HooksInv, NEW h \in HookSlots, Hooks!Decide(h)
  PROVE  HooksInv'
<1>1. PICK o : o = hook[h]
  OBVIOUS
<1>2. PICK real : real = Hooks!decideReal(o.req)
  OBVIOUS
<1>3. PICK k : k = [o EXCEPT !.shadow = modeFile # "enforce", !.real = real,
                             !.pc = IF real = "allow" THEN "loop" ELSE "record"]
  OBVIOUS
<1>4. hook' = [hook EXCEPT ![h] = k] /\ o.pc = "mode"
      /\ UNCHANGED <<socket, daemon, modeFile, clock, letPass, prompted, toolCalls>>
  BY <1>1, <1>2, <1>3 DEF Hooks!Decide, Hooks!Goto
<1>5. o \in HookState /\ HookSound(o) /\ o.req \in ToolCalls
  BY <1>1, <1>4, HookAt DEF HookSound, Serving
<1>6. real \in Outcomes /\ Covers(o.req, real)
  BY <1>2, <1>5, DecidesStrictly
<1>7. /\ k \in HookState /\ k.at = o.at /\ k.req = o.req /\ k.to = o.to /\ k.real = real
      /\ k.pc \in {"loop", "record"} /\ (k.pc = "loop" => real = "allow")
      /\ k.rule = o.rule /\ k.late = o.late
  BY <1>3, <1>5, <1>6 DEF HookState
<1>8. HookSound(k)
  BY <1>4, <1>5, <1>6, <1>7 DEF HookSound, Serving
<1> QED
  BY <1>4, <1>7, <1>8, HookStep DEF HooksInv, HooksTypes

\* The budget is exceeded only where no prompt was given yet.
LEMMA BudgetKeeps ==
  ASSUME HooksInv, NEW h \in HookSlots, Hooks!Budget(h)
  PROVE  HooksInv'
<1>1. PICK o : o = hook[h]
  OBVIOUS
<1>2. PICK exceeded \in BOOLEAN :
        /\ exceeded => ~ daemon[o.to].flagged
        /\ hook' = [hook EXCEPT ![h] = [o EXCEPT !.pc = IF exceeded THEN "flag" ELSE "record"]]
  BY <1>1 DEF Hooks!Budget, Hooks!Goto, Hooks!Flagged
<1>3. PICK k : k = [o EXCEPT !.pc = IF exceeded THEN "flag" ELSE "record"]
  OBVIOUS
<1>4. o.pc = "budget" /\ UNCHANGED <<socket, daemon, modeFile, clock, letPass, prompted, toolCalls>>
  BY <1>1 DEF Hooks!Budget
<1>5. o \in HookState /\ HookSound(o)
  BY <1>1, HookAt
<1>6. exceeded => ~ o.late
  BY <1>2, <1>4, <1>5 DEF HookSound, Serving, HooksInv, DaemonSound
<1>7. /\ k \in HookState /\ k.at = o.at /\ k.req = o.req /\ k.to = o.to /\ k.real = o.real
      /\ k.pc \in {"flag", "record"} /\ (k.pc = "flag" => exceeded)
      /\ k.rule = o.rule /\ k.late = o.late
  BY <1>3, <1>5 DEF HookState
<1>8. HookSound(k)
  BY <1>4, <1>5, <1>6, <1>7 DEF HookSound, Serving
<1> QED
  BY <1>2, <1>3, <1>4, <1>7, <1>8, HookStep DEF HooksInv, HooksTypes

\* What the hook is told when the entry says what was decided.
LEMMA ToldKeeps ==
  ASSUME HooksInv, NEW h \in HookSlots, NEW real \in Outcomes, NEW shadow \in BOOLEAN,
         NEW entry \in [outcome : Outcomes, shadow : BOOLEAN] \cup {NoOne},
         hook[h].pc # "none", Hooks!Told(h, real, shadow, entry),
         entry # NoOne => /\ entry.outcome = real /\ entry.shadow = shadow
                          /\ Covers(hook[h].req, real),
         UNCHANGED <<socket, daemon, modeFile, clock, letPass, prompted, toolCalls>>
  PROVE  HooksInv'
<1>1. PICK o : o = hook[h]
  OBVIOUS
<1>2. PICK said : said = IF shadow \/ real = "allow" THEN "nothing" ELSE real
  OBVIOUS
<1>3. PICK r : r = [Hooks!Idle EXCEPT !.at = "told", !.req = o.req, !.entry = entry,
                                      !.rule = o.rule, !.late = o.late, !.told = said]
  OBVIOUS
<1>4. PICK k : k = IF o.at = "gone" THEN Hooks!Idle ELSE r
  OBVIOUS
<1>5. hook' = [hook EXCEPT ![h] = k]
  BY <1>1, <1>2, <1>3, <1>4 DEF Hooks!Told, Hooks!Goto
<1>6. o \in HookState /\ HookSound(o) /\ o.req \in ToolCalls
  BY <1>1, HookAt DEF HookSound, Serving
<1>7. said \in {"nothing", "ask", "deny"}
  BY <1>2 DEF Outcomes
<1>8. /\ r \in HookState /\ r.at = "told" /\ r.req = o.req /\ r.entry = entry /\ r.told = said
      /\ r.pc = "none" /\ r.rule = o.rule /\ r.late = o.late
  <2>1. r.entry \in [outcome : Outcomes, shadow : BOOLEAN] \cup {NoOne}
    BY <1>3 DEF Hooks!Idle
  <2>2. /\ r.at = "told" /\ r.req = o.req /\ r.entry = entry /\ r.told = said
        /\ r.pc = "none" /\ r.rule = o.rule /\ r.late = o.late
        /\ r.to = NoOne /\ r.spawned = FALSE /\ r.shadow = FALSE /\ r.real = "allow"
    BY <1>3 DEF Hooks!Idle
  <2>3. r = [at |-> r.at, req |-> r.req, to |-> r.to, spawned |-> r.spawned, pc |-> r.pc,
             shadow |-> r.shadow, real |-> r.real, rule |-> r.rule, late |-> r.late,
             entry |-> r.entry, told |-> r.told]
    BY <1>3 DEF Hooks!Idle
  <2>4. o.rule \in {"tier1", "loop", "budget"} /\ o.late \in BOOLEAN
    BY <1>6 DEF HookState
  <2>5. r \in HookState
    BY <1>6, <1>7, <2>1, <2>2, <2>3, <2>4 DEF HookState, Outcomes
  <2> QED
    BY <2>2, <2>5
<1>9. ToldAs(r) = IF shadow THEN "allow" ELSE real
  BY <1>2, <1>8 DEF ToldAs, Outcomes
<1>10. HookSound(r)
  BY <1>1, <1>6, <1>8, <1>9 DEF HookSound, Serving
<1>11. k \in HookState /\ HookSound(k)
  BY <1>4, <1>8, <1>10, IdleIs
<1> QED
  BY <1>5, <1>11, HookStep DEF HooksInv, HooksTypes

LEMMA ReplyKeeps ==
  ASSUME HooksInv, NEW h \in HookSlots, Hooks!Reply(h)
  PROVE  HooksInv'
<1>1. PICK o : o = hook[h]
  OBVIOUS
<1>2. PICK entry : entry = [outcome |-> o.real, shadow |-> o.shadow]
  OBVIOUS
<1>3. /\ o \in HookState /\ o.pc = "record" /\ Covers(o.req, o.real)
  BY <1>1, HookAt DEF Hooks!Reply, HookSound, Serving
<1>4. o.real \in Outcomes /\ o.shadow \in BOOLEAN
  BY <1>3 DEF HookState
<1>5. /\ entry \in [outcome : Outcomes, shadow : BOOLEAN]
      /\ entry.outcome = o.real /\ entry.shadow = o.shadow
  BY <1>2, <1>4
<1>6. Hooks!Told(h, o.real, o.shadow, entry)
  BY <1>1, <1>2 DEF Hooks!Reply, Hooks!Shadowed
<1>7. UNCHANGED <<socket, daemon, modeFile, clock, letPass, prompted, toolCalls>>
  BY DEF Hooks!Reply
<1> QED
  BY <1>1, <1>3, <1>4, <1>5, <1>6, <1>7, ToldKeeps

\* Nothing is recorded of a panic.
LEMMA PanicKeeps ==
  ASSUME HooksInv, NEW h \in HookSlots, Hooks!Panic(h)
  PROVE  HooksInv'
<1>1. PICK shadow \in BOOLEAN : shadow <=> modeFile # "enforce"
  OBVIOUS
<1>2. Hooks!Told(h, "ask", shadow, NoOne) /\ hook[h].pc # "none"
  BY <1>1 DEF Hooks!Panic, Hooks!Told
<1>3. UNCHANGED <<socket, daemon, modeFile, clock, letPass, prompted, toolCalls>>
  BY DEF Hooks!Panic
<1> QED
  BY <1>2, <1>3, ToldKeeps DEF Outcomes

---------------------------------------------------------------------------
(* HookDaemon: a daemon is started, listens, remembers and dies            *)

\* A step of a daemon that forgets nothing and serves on.
LEMMA DaemonStep ==
  ASSUME HooksInv, NEW d \in Daemons, NEW x \in DaemonState, NEW hooks \in [HookSlots -> HookState],
         daemon' = [daemon EXCEPT ![d] = x], hook' = hooks,
         \A h \in HookSlots : HookSound(hooks[h]),
         x.history = daemon[d].history, x.flagged = daemon[d].flagged,
         daemon[d].at \in {"unborn", "starting", "removed"},
         socket' \in {socket, NoOne} \/ (socket' = d /\ x.at = "serving"),
         UNCHANGED <<modeFile, clock, letPass, prompted, toolCalls>>
  PROVE  HooksInv'
<1>1. daemon'[d] = x /\ \A y \in Daemons : y # d => daemon'[y] = daemon[y]
  BY DEF HooksInv, HooksTypes
<1>2. HooksTypes'
  <2>1. socket' \in Daemons \cup {NoOne} /\ (socket' # NoOne => daemon'[socket'].at \in {"serving", "dead"})
    BY <1>1 DEF HooksInv, HooksTypes
  <2>2. daemon' \in [Daemons -> DaemonState]
    BY DEF HooksInv, HooksTypes
  <2> QED
    BY <2>1, <2>2 DEF HooksInv, HooksTypes
<1>3. ASSUME NEW y \in Daemons PROVE DaemonSound(y)'
  <2>1. daemon'[y].history = daemon[y].history /\ daemon'[y].flagged = daemon[y].flagged
    BY <1>1
  <2> QED
    BY <2>1 DEF HooksInv, DaemonSound, Remembers
<1>4. ASSUME NEW h \in HookSlots PROVE HookSound(hook[h])'
  <2>1. PICK k : k = hook'[h]
    OBVIOUS
  <2>2. HookSound(k)
    BY <2>1
  <2>3. k.pc # "none" => daemon'[k.to].at = "serving"
    BY <1>1, <2>2 DEF HookSound, Serving
  <2>4. HookSound(k)'
    BY <2>2, <2>3, HookStays
  <2> QED
    BY <2>1, <2>4
<1> QED
  BY <1>2, <1>3, <1>4 DEF HooksInv

LEMMA DialRefusedKeeps ==
  ASSUME HooksInv, NEW h \in HookSlots, Hooks!DialRefused(h)
  PROVE  HooksInv'
<1>1. PICK o : o = hook[h]
  OBVIOUS
<1>2. o \in HookState /\ HookSound(o) /\ o.at = "dial"
  BY <1>1, HookAt DEF Hooks!DialRefused
<1>3. UNCHANGED <<socket, modeFile, clock, letPass, prompted, toolCalls>>
  BY DEF Hooks!DialRefused
<1>4. CASE o.spawned
  BY <1>1, <1>3, <1>4, IdleIs, HookStep DEF Hooks!DialRefused, HooksInv, HooksTypes
<1>5. CASE ~ o.spawned
  <2>1. PICK k : k = [o EXCEPT !.spawned = TRUE]
    OBVIOUS
  <2>2. hook' = [hook EXCEPT ![h] = k]
    BY <1>1, <1>5, <2>1 DEF Hooks!DialRefused
  <2>3. /\ k \in HookState /\ k.at = o.at /\ k.req = o.req /\ k.to = o.to /\ k.pc = o.pc
        /\ k.real = o.real /\ k.rule = o.rule /\ k.late = o.late
    BY <1>2, <2>1 DEF HookState
  <2>4. HookSound(k)
    BY <1>2, <2>3 DEF HookSound, Serving
  <2>5. CASE UNCHANGED daemon
    BY <1>3, <2>2, <2>3, <2>4, <2>5, HookStep DEF HooksInv, HooksTypes
  <2>6. CASE \E d \in Daemons : /\ daemon[d].at = "unborn"
                                /\ daemon' = [daemon EXCEPT ![d].at = "starting"]
    <3>1. PICK d \in Daemons : /\ daemon[d].at = "unborn"
                               /\ daemon' = [daemon EXCEPT ![d].at = "starting"]
      BY <2>6
    <3>2. PICK x : x = [daemon[d] EXCEPT !.at = "starting"]
      OBVIOUS
    <3>3. x \in DaemonState /\ x.history = daemon[d].history /\ x.flagged = daemon[d].flagged
      BY <3>2 DEF HooksInv, HooksTypes, DaemonState
    <3>4. PICK hooks : hooks = [hook EXCEPT ![h] = k]
      OBVIOUS
    <3>5. hooks \in [HookSlots -> HookState] /\ \A j \in HookSlots : HookSound(hooks[j])
      BY <2>3, <2>4, <3>4 DEF HooksInv, HooksTypes
    <3>6. daemon' = [daemon EXCEPT ![d] = x] /\ hook' = hooks
      BY <2>2, <3>1, <3>2, <3>4
    <3> QED
      BY <1>3, <3>1, <3>3, <3>5, <3>6, DaemonStep
  <2> QED
    BY <1>1, <1>5, <2>5, <2>6 DEF Hooks!DialRefused
<1> QED
  BY <1>4, <1>5

LEMMA RemoveSocketKeeps ==
  ASSUME HooksInv, NEW d \in Daemons, Hooks!RemoveSocket(d)
  PROVE  HooksInv'
<1>1. PICK x : x = [daemon[d] EXCEPT !.at = "removed"]
  OBVIOUS
<1>2. x \in DaemonState /\ x.history = daemon[d].history /\ x.flagged = daemon[d].flagged
  BY <1>1 DEF HooksInv, HooksTypes, DaemonState
<1>3. PICK hooks : hooks = hook
  OBVIOUS
<1>4. hooks \in [HookSlots -> HookState] /\ \A j \in HookSlots : HookSound(hooks[j])
  BY <1>3 DEF HooksInv, HooksTypes
<1>5. /\ daemon' = [daemon EXCEPT ![d] = x] /\ hook' = hooks /\ daemon[d].at = "starting"
      /\ socket' = NoOne /\ UNCHANGED <<modeFile, clock, letPass, prompted, toolCalls>>
  BY <1>1, <1>3 DEF Hooks!RemoveSocket
<1> QED
  BY <1>2, <1>4, <1>5, DaemonStep

LEMMA ListenKeeps ==
  ASSUME HooksInv, NEW d \in Daemons, Hooks!Listen(d)
  PROVE  HooksInv'
<1>1. PICK x : x = [daemon[d] EXCEPT !.at = IF socket = NoOne THEN "serving" ELSE "dead"]
  OBVIOUS
<1>2. /\ x \in DaemonState /\ x.history = daemon[d].history /\ x.flagged = daemon[d].flagged
      /\ x.at = IF socket = NoOne THEN "serving" ELSE "dead"
  BY <1>1 DEF HooksInv, HooksTypes, DaemonState
<1>3. PICK hooks : hooks = hook
  OBVIOUS
<1>4. hooks \in [HookSlots -> HookState] /\ \A j \in HookSlots : HookSound(hooks[j])
  BY <1>3 DEF HooksInv, HooksTypes
<1>5. /\ daemon' = [daemon EXCEPT ![d] = x] /\ hook' = hooks /\ daemon[d].at = "removed"
      /\ socket' = IF socket = NoOne THEN d ELSE socket
      /\ UNCHANGED <<modeFile, clock, letPass, prompted, toolCalls>>
  BY <1>1, <1>3 DEF Hooks!Listen
<1>6. socket' \in {socket, NoOne} \/ (socket' = d /\ x.at = "serving")
  BY <1>2, <1>5
<1> QED
  BY <1>2, <1>4, <1>5, <1>6, DaemonStep

\* What a dead daemon remembered is gone, and so are the requests it served.
LEMMA DieKeeps ==
  ASSUME HooksInv, NEW d \in Daemons, Hooks!Die(d)
  PROVE  HooksInv'
<1>1. PICK x : x = [Hooks!Unborn EXCEPT !.at = "dead"]
  OBVIOUS
<1>2. x \in DaemonState /\ x.history = {} /\ x.at = "dead"
  BY <1>1, UnbornIs
<1>3. /\ daemon' = [daemon EXCEPT ![d] = x] /\ letPass' = [letPass EXCEPT ![d] = {}]
      /\ prompted' = prompted \ {d} /\ UNCHANGED <<socket, modeFile, clock, toolCalls>>
      /\ hook' = [h \in HookSlots |->
                    IF hook[h].at \in {"waiting", "gone"} /\ hook[h].to = d THEN Hooks!Idle ELSE hook[h]]
  BY <1>1 DEF Hooks!Die
<1>4. daemon'[d] = x /\ letPass'[d] = {} /\ d \notin prompted'
      /\ \A y \in Daemons : y # d => /\ daemon'[y] = daemon[y] /\ letPass'[y] = letPass[y]
                                     /\ (y \in prompted' <=> y \in prompted)
  BY <1>3 DEF HooksInv, HooksTypes
<1>5. HooksTypes'
  <2>1. hook' \in [HookSlots -> HookState]
    BY <1>3, IdleIs DEF HooksInv, HooksTypes
  <2>2. daemon' \in [Daemons -> DaemonState] /\ letPass' \in [Daemons -> SUBSET LoopEvent]
    BY <1>2, <1>3 DEF HooksInv, HooksTypes
  <2>3. socket' # NoOne => daemon'[socket'].at \in {"serving", "dead"}
    BY <1>2, <1>3, <1>4 DEF HooksInv, HooksTypes
  <2> QED
    BY <1>3, <2>1, <2>2, <2>3 DEF HooksInv, HooksTypes
<1>6. ASSUME NEW y \in Daemons PROVE DaemonSound(y)'
  <2>1. CASE y = d
    BY <1>2, <1>4, <2>1, NothingPassed DEF DaemonSound
  <2>2. CASE y # d
    <3>1. PICK H : H = daemon[y].history
      OBVIOUS
    <3>2. PICK P : P = letPass[y]
      OBVIOUS
    <3>3. Remembers(H, P)'
      BY <1>3, <3>1, <3>2 DEF HooksInv, DaemonSound, Remembers
    <3> QED
      BY <1>4, <2>2, <3>1, <3>2, <3>3 DEF HooksInv, DaemonSound
  <2> QED
    BY <2>1, <2>2
<1>7. ASSUME NEW h \in HookSlots PROVE HookSound(hook[h])'
  <2>1. PICK k : k = hook'[h]
    OBVIOUS
  <2>2. PICK o : o = hook[h]
    OBVIOUS
  <2>3. k = IF o.at \in {"waiting", "gone"} /\ o.to = d THEN Hooks!Idle ELSE o
    BY <1>3, <2>1, <2>2
  <2>4. CASE k = Hooks!Idle
    <3>1. HookSound(k)'
      BY <2>4, IdleIs DEF Hooks!Idle, HookSound, Serving
    <3> QED
      BY <2>1, <3>1
  <2>5. CASE k = o /\ ~ (o.at \in {"waiting", "gone"} /\ o.to = d)
    <3>1. HookSound(k)
      BY <2>2, <2>5, HookAt
    <3>2. k.pc # "none" => daemon'[k.to].at = "serving" /\ (k.to \in prompted => k.to \in prompted')
      BY <1>4, <2>5, <3>1 DEF HookSound, Serving
    <3>3. HookSound(k)'
      BY <3>1, <3>2, HookStays
    <3> QED
      BY <2>1, <3>3
  <2> QED
    BY <2>3, <2>4, <2>5
<1> QED
  BY <1>5, <1>6, <1>7 DEF HooksInv

\* The flag of the session budget is raised, and the human asked.
LEMMA FlagKeeps ==
  ASSUME HooksInv, NEW h \in HookSlots, Hooks!Flag(h)
  PROVE  HooksInv'
<1>1. PICK o : o = hook[h]
  OBVIOUS
<1>2. PICK k : k = [o EXCEPT !.pc = "record", !.real = "ask", !.rule = "budget"]
  OBVIOUS
<1>3. PICK d : d = o.to
  OBVIOUS
<1>4. PICK x : x = [daemon[d] EXCEPT !.flagged = TRUE]
  OBVIOUS
<1>5. /\ o.pc = "flag" /\ daemon' = [daemon EXCEPT ![d] = x] /\ hook' = [hook EXCEPT ![h] = k]
      /\ prompted' = prompted \cup {d} /\ UNCHANGED <<socket, modeFile, clock, letPass, toolCalls>>
  BY <1>1, <1>2, <1>3, <1>4 DEF Hooks!Flag, Hooks!Goto, Hooks!Ask
<1>6. o \in HookState /\ HookSound(o) /\ d \in Daemons /\ daemon[d].at = "serving"
  BY <1>1, <1>3, <1>5, HookAt DEF HookSound, Serving
<1>7. x \in DaemonState /\ x.history = daemon[d].history /\ x.flagged = TRUE /\ x.at = "serving"
  BY <1>4, <1>6 DEF HooksInv, HooksTypes, DaemonState
<1>8. /\ k \in HookState /\ k.at = o.at /\ k.req = o.req /\ k.to = o.to /\ k.pc = "record"
      /\ k.real = "ask" /\ k.rule = "budget" /\ k.late = o.late
  BY <1>2, <1>6 DEF HookState, Outcomes
<1>9. HookSound(k)
  <2>1. Covers(o.req, "ask")
    BY <1>5, <1>6, RulesAre DEF HookSound, Serving, Covers, Outcomes
  <2> QED
    BY <1>5, <1>6, <1>8, <2>1 DEF HookSound, Serving
<1>10. daemon'[d] = x /\ \A y \in Daemons : y # d => daemon'[y] = daemon[y]
  BY <1>5, <1>6 DEF HooksInv, HooksTypes
<1>11. HooksTypes'
  <2>1. daemon' \in [Daemons -> DaemonState] /\ hook' \in [HookSlots -> HookState]
    BY <1>5, <1>7, <1>8 DEF HooksInv, HooksTypes
  <2>2. socket' # NoOne => daemon'[socket'].at \in {"serving", "dead"}
    BY <1>5, <1>7, <1>10 DEF HooksInv, HooksTypes
  <2> QED
    BY <1>5, <1>6, <2>1, <2>2 DEF HooksInv, HooksTypes
<1>12. ASSUME NEW y \in Daemons PROVE DaemonSound(y)'
  <2>1. daemon'[y].history = daemon[y].history
    BY <1>7, <1>10
  <2>2. y \in prompted' => daemon'[y].flagged
    BY <1>5, <1>7, <1>10 DEF HooksInv, DaemonSound
  <2> QED
    BY <1>5, <2>1, <2>2 DEF HooksInv, DaemonSound, Remembers
<1>13. ASSUME NEW j \in HookSlots PROVE HookSound(hook[j])'
  <2>1. PICK z : z = hook'[j]
    OBVIOUS
  <2>2. HookSound(z)
    BY <1>5, <1>9, <2>1 DEF HooksInv, HooksTypes
  <2>3. z.pc # "none" => daemon'[z.to].at = "serving" /\ (z.to \in prompted => z.to \in prompted')
    BY <1>5, <1>7, <1>10, <2>2 DEF HookSound, Serving
  <2>4. HookSound(z)'
    BY <2>2, <2>3, HookStays
  <2> QED
    BY <2>1, <2>4
<1> QED
  BY <1>11, <1>12, <1>13 DEF HooksInv

---------------------------------------------------------------------------
(* HookDaemon: the loop check, the clock and the mode                      *)

LEMMA KeptIs ==
  ASSUME NEW d \in Daemons
  PROVE  Hooks!Kept(d) = {e \in daemon[d].history : e.ts + WindowSeconds > clock}
BY DEF Hooks!Kept

\* The rank of an event is a number.
LEMMA EventIs ==
  ASSUME HooksInv, NEW d \in Daemons, NEW key \in LoopKeys
  PROVE  Hooks!Event(d, key) \in LoopEvent /\ Hooks!Event(d, key).key = key
         /\ Hooks!Event(d, key).ts = clock
<1>1. PICK same : same = {e \in daemon[d].history : e.key = key /\ e.ts = clock}
  OBVIOUS
<1>2. IsFiniteSet(daemon[d].history)
  BY DEF HooksInv, DaemonSound, Remembers
<1>3. Cardinality(same) \in Nat
  BY <1>1, <1>2, FS_Subset, FS_CardinalityType
<1>4. Hooks!Cardinality(same) = Cardinality(same)
  BY HookCounts
<1>5. Hooks!Event(d, key) = [key |-> key, ts |-> clock, rank |-> Hooks!Cardinality(same)]
  BY <1>1 DEF Hooks!Event
<1> QED
  BY <1>3, <1>4, <1>5 DEF LoopEvent, HooksInv, HooksTypes

\* The events of a window that holds the present are remembered, so they are
\* fewer than the threshold when the check counts fewer.
LEMMA PassesAreFew ==
  ASSUME NEW H \in SUBSET LoopEvent, NEW P \in SUBSET LoopEvent, NEW e \in LoopEvent,
         NEW K, K = {x \in H : x.ts + WindowSeconds > clock} \cup {e},
         Remembers(H, P), clock \in 0..HookHorizon, e.ts = clock,
         e.key # NoKey, Cardinality(Hooks!Of(K, e.key)) < RepeatThreshold
  PROVE  Remembers(K, P \cup {e})
<1>1. IsFiniteSet(K)
  <2>1. IsFiniteSet({x \in H : x.ts + WindowSeconds > clock})
    BY FS_Subset DEF Remembers
  <2> QED
    BY <2>1, FS_AddElement
<1>2. \A x \in P : x.ts \in 0..HookHorizon /\ x.ts <= clock
  BY DEF Remembers, LoopEvent
<1>3. \A x \in P \cup {e} : x.ts <= clock /\ (x.ts + WindowSeconds > clock => x \in K)
  BY <1>2, RulesAre DEF Remembers
<1>4. ASSUME NEW key \in LoopKeys \ {NoKey}, NEW t \in 0..HookHorizon
      PROVE  Cardinality(InWindow(P \cup {e}, key, t)) < RepeatThreshold
  <2>1. CASE key = e.key /\ clock \in t..(t + WindowSeconds - 1)
    <3>1. InWindow(P \cup {e}, key, t) \subseteq Hooks!Of(K, e.key)
      <4> SUFFICES ASSUME NEW x \in InWindow(P \cup {e}, key, t)
                   PROVE  x \in Hooks!Of(K, e.key)
        OBVIOUS
      <4>1. x \in P \cup {e} /\ x.key = key /\ x.ts \in t..(t + WindowSeconds - 1)
        BY DEF InWindow, Hooks!Of
      <4>2. x.ts + WindowSeconds > clock
        BY <2>1, <4>1, RulesAre
      <4> QED
        BY <1>3, <2>1, <4>1, <4>2 DEF Hooks!Of
    <3>2. IsFiniteSet(Hooks!Of(K, e.key))
      <4>1. Hooks!Of(K, e.key) \subseteq K
        BY DEF Hooks!Of
      <4> QED
        BY <1>1, <4>1, FS_Subset
    <3>3. /\ IsFiniteSet(InWindow(P \cup {e}, key, t))
          /\ Cardinality(InWindow(P \cup {e}, key, t)) <= Cardinality(Hooks!Of(K, e.key))
      BY <3>1, <3>2, FS_Subset
    <3>4. /\ Cardinality(InWindow(P \cup {e}, key, t)) \in Nat
          /\ Cardinality(Hooks!Of(K, e.key)) \in Nat
      BY <3>2, <3>3, FS_CardinalityType
    <3> QED
      BY <3>3, <3>4, RulesAre
  <2>2. CASE ~ (key = e.key /\ clock \in t..(t + WindowSeconds - 1))
    <3>1. InWindow(P \cup {e}, key, t) = InWindow(P, key, t)
      BY <2>2 DEF InWindow, Hooks!Of
    <3> QED
      BY <3>1 DEF Remembers
  <2> QED
    BY <2>1, <2>2
<1> QED
  BY <1>1, <1>3, <1>4 DEF Remembers

\* A history drops what has left the window only.
LEMMA StopsAreRemembered ==
  ASSUME NEW H \in SUBSET LoopEvent, NEW P, NEW e,
         NEW K, K = {x \in H : x.ts + WindowSeconds > clock} \cup {e}, Remembers(H, P)
  PROVE  Remembers(K, P)
<1>1. IsFiniteSet(K)
  <2>1. IsFiniteSet({x \in H : x.ts + WindowSeconds > clock})
    BY FS_Subset DEF Remembers
  <2> QED
    BY <2>1, FS_AddElement
<1> QED
  BY <1>1 DEF Remembers

LEMMA CheckKeeps ==
  ASSUME HooksInv, NEW h \in HookSlots, Hooks!Check(h)
  PROVE  HooksInv'
<1>1. PICK o : o = hook[h]
  OBVIOUS
<1>2. PICK d : d = o.to
  OBVIOUS
<1>3. PICK key : key = o.req.key
  OBVIOUS
<1>4. PICK e : e = Hooks!Event(d, key)
  OBVIOUS
<1>5. PICK K : K = Hooks!Kept(d) \cup {e}
  OBVIOUS
<1>6. PICK isLoop \in BOOLEAN :
        isLoop <=> key # NoKey /\ Hooks!Cardinality(Hooks!Of(K, key)) >= RepeatThreshold
  OBVIOUS
<1>7. PICK asked : asked = [o EXCEPT !.pc = "record", !.real = "ask", !.rule = "loop"]
  OBVIOUS
<1>8. PICK on : on = [o EXCEPT !.pc = "budget"]
  OBVIOUS
<1>9. PICK k : k = IF isLoop THEN asked ELSE on
  OBVIOUS
<1>10. /\ o.pc = "loop" /\ hook' = [hook EXCEPT ![h] = k]
       /\ daemon' = IF key = NoKey THEN daemon ELSE [daemon EXCEPT ![d].history = K]
       /\ letPass' = IF key = NoKey \/ isLoop THEN letPass ELSE [letPass EXCEPT ![d] = @ \cup {e}]
       /\ UNCHANGED <<socket, modeFile, clock, prompted, toolCalls>>
  BY <1>1, <1>2, <1>3, <1>4, <1>5, <1>6, <1>7, <1>8, <1>9 DEF Hooks!Check, Hooks!Goto, Hooks!Ask
<1>11. /\ o \in HookState /\ HookSound(o) /\ d \in Daemons /\ daemon[d].at = "serving"
       /\ o.req \in ToolCalls /\ key \in LoopKeys
  BY <1>1, <1>2, <1>3, <1>10, HookAt, RulesAre DEF HookSound, Serving
<1>12. k \in HookState /\ HookSound(k)
  <2>1. /\ asked \in HookState /\ asked.at = o.at /\ asked.req = o.req /\ asked.to = o.to
        /\ asked.pc = "record" /\ asked.real = "ask" /\ asked.rule = "loop" /\ asked.late = o.late
    BY <1>7, <1>11 DEF HookState, Outcomes
  <2>2. /\ on \in HookState /\ on.at = o.at /\ on.req = o.req /\ on.to = o.to
        /\ on.pc = "budget" /\ on.real = o.real /\ on.rule = o.rule /\ on.late = o.late
    BY <1>8, <1>11 DEF HookState, Outcomes
  <2>3. Covers(o.req, "ask")
    BY <1>10, <1>11, RulesAre DEF HookSound, Serving, Covers, Outcomes
  <2>4. HookSound(asked)
    BY <1>10, <1>11, <2>1, <2>3 DEF HookSound, Serving
  <2>5. HookSound(on)
    BY <1>10, <1>11, <2>2 DEF HookSound, Serving
  <2> QED
    BY <1>9, <2>1, <2>2, <2>4, <2>5
<1>13. PICK H : H = daemon[d].history
  OBVIOUS
<1>14. PICK P : P = letPass[d]
  OBVIOUS
<1>15. H \in SUBSET LoopEvent /\ P \in SUBSET LoopEvent /\ Remembers(H, P) /\ clock \in 0..HookHorizon
  BY <1>11, <1>13, <1>14 DEF HooksInv, HooksTypes, DaemonState, DaemonSound
<1>16. e \in LoopEvent /\ e.key = key /\ e.ts = clock
  BY <1>4, <1>11, EventIs
<1>17. K = {x \in H : x.ts + WindowSeconds > clock} \cup {e}
  BY <1>5, <1>11, <1>13, KeptIs
<1>18. K \in SUBSET LoopEvent
  BY <1>15, <1>16, <1>17
<1>19. PICK x : x = IF key = NoKey THEN daemon[d] ELSE [daemon[d] EXCEPT !.history = K]
  OBVIOUS
<1>20. PICK Q : Q = IF key = NoKey \/ isLoop THEN P ELSE P \cup {e}
  OBVIOUS
<1>21. /\ x \in DaemonState /\ x.at = "serving" /\ x.flagged = daemon[d].flagged
       /\ x.history = IF key = NoKey THEN H ELSE K
  BY <1>11, <1>13, <1>18, <1>19 DEF HooksInv, HooksTypes, DaemonState
<1>22. Q \in SUBSET LoopEvent
  BY <1>15, <1>16, <1>20
<1>23. /\ daemon' = [daemon EXCEPT ![d] = x] /\ letPass' = [letPass EXCEPT ![d] = Q]
       /\ daemon'[d] = x /\ letPass'[d] = Q
       /\ \A y \in Daemons : y # d => daemon'[y] = daemon[y] /\ letPass'[y] = letPass[y]
  BY <1>10, <1>11, <1>14, <1>19, <1>20 DEF HooksInv, HooksTypes
<1>24. Remembers(x.history, Q)
  <2>1. CASE key = NoKey
    BY <1>15, <1>20, <1>21, <2>1
  <2>2. CASE key # NoKey /\ isLoop
    BY <1>15, <1>17, <1>20, <1>21, <2>2, StopsAreRemembered
  <2>3. CASE key # NoKey /\ ~ isLoop
    <3>1. IsFiniteSet(Hooks!Of(K, key))
      <4>1. IsFiniteSet(K)
        <5>1. Remembers(K, P)
          BY <1>15, <1>17, StopsAreRemembered
        <5> QED
          BY <5>1 DEF Remembers
      <4>2. Hooks!Of(K, key) \subseteq K
        BY DEF Hooks!Of
      <4> QED
        BY <4>1, <4>2, FS_Subset
    <3>2. Cardinality(Hooks!Of(K, key)) \in Nat
      BY <3>1, FS_CardinalityType
    <3>3. Cardinality(Hooks!Of(K, key)) < RepeatThreshold
      BY <1>6, <2>3, <3>2, HookCounts, RulesAre
    <3>4. Remembers(K, P \cup {e})
      BY <1>15, <1>16, <1>17, <2>3, <3>3, PassesAreFew
    <3> QED
      BY <1>20, <1>21, <2>3, <3>4
  <2> QED
    BY <2>1, <2>2, <2>3
<1>25. HooksTypes'
  <2>1. daemon' \in [Daemons -> DaemonState] /\ letPass' \in [Daemons -> SUBSET LoopEvent]
    BY <1>21, <1>22, <1>23 DEF HooksInv, HooksTypes
  <2>2. hook' \in [HookSlots -> HookState]
    BY <1>10, <1>12 DEF HooksInv, HooksTypes
  <2>3. socket' # NoOne => daemon'[socket'].at \in {"serving", "dead"}
    BY <1>10, <1>21, <1>23 DEF HooksInv, HooksTypes
  <2> QED
    BY <1>10, <2>1, <2>2, <2>3 DEF HooksInv, HooksTypes
<1>26. ASSUME NEW y \in Daemons PROVE DaemonSound(y)'
  <2>1. CASE y = d
    <3>1. Remembers(x.history, Q)'
      BY <1>10, <1>24 DEF Remembers
    <3>2. y \in prompted' => daemon'[y].flagged
      BY <1>10, <1>11, <1>21, <1>23, <2>1 DEF HooksInv, DaemonSound
    <3> QED
      BY <1>23, <2>1, <3>1, <3>2 DEF DaemonSound
  <2>2. CASE y # d
    <3>1. PICK A : A = daemon[y].history
      OBVIOUS
    <3>2. PICK B : B = letPass[y]
      OBVIOUS
    <3>3. Remembers(A, B)'
      BY <1>10, <3>1, <3>2 DEF HooksInv, DaemonSound, Remembers
    <3> QED
      BY <1>10, <1>23, <2>2, <3>1, <3>2, <3>3 DEF HooksInv, DaemonSound
  <2> QED
    BY <2>1, <2>2
<1>27. ASSUME NEW j \in HookSlots PROVE HookSound(hook[j])'
  <2>1. PICK z : z = hook'[j]
    OBVIOUS
  <2>2. HookSound(z)
    BY <1>10, <1>12, <2>1 DEF HooksInv, HooksTypes
  <2>3. z.pc # "none" => daemon'[z.to].at = "serving" /\ (z.to \in prompted => z.to \in prompted')
    BY <1>10, <1>21, <1>23, <2>2 DEF HookSound, Serving
  <2>4. HookSound(z)'
    BY <2>2, <2>3, HookStays
  <2> QED
    BY <2>1, <2>4
<1> QED
  BY <1>25, <1>26, <1>27 DEF HooksInv

\* Neither the clock nor the mode file moves a daemon or a hook.
LEMMA TimeKeeps ==
  ASSUME HooksInv, clock' = clock \/ (clock < HookHorizon /\ clock' = clock + 1),
         modeFile' \in {"shadow", "enforce"},
         UNCHANGED <<socket, daemon, hook, letPass, prompted, toolCalls>>
  PROVE  HooksInv'
<1>1. HooksTypes'
  BY RulesAre DEF HooksInv, HooksTypes
<1>2. ASSUME NEW y \in Daemons PROVE DaemonSound(y)'
  <2>1. PICK A : A = daemon[y].history
    OBVIOUS
  <2>2. PICK B : B = letPass[y]
    OBVIOUS
  <2>3. Remembers(A, B) /\ B \in SUBSET LoopEvent /\ clock \in Nat /\ clock' \in Nat /\ clock <= clock'
    BY <2>1, <2>2, RulesAre DEF HooksInv, HooksTypes, DaemonSound
  <2>4. \A x \in B : x.ts \in Nat
    BY <2>3, RulesAre DEF LoopEvent
  <2>5. Remembers(A, B)'
    BY <2>3, <2>4, RulesAre DEF Remembers
  <2> QED
    BY <2>1, <2>2, <2>5 DEF HooksInv, DaemonSound
<1>3. ASSUME NEW j \in HookSlots PROVE HookSound(hook[j])'
  <2>1. PICK z : z = hook[j]
    OBVIOUS
  <2>2. HookSound(z)'
    BY <2>1, HookAt, HookStays DEF HookSound, Serving
  <2> QED
    BY <2>1, <2>2
<1> QED
  BY <1>1, <1>2, <1>3 DEF HooksInv

LEMMA HooksKeep == HooksInv /\ [Hooks!Next]_(Hooks!vars) => HooksInv'
<1> SUFFICES ASSUME HooksInv, [Hooks!Next]_(Hooks!vars) PROVE HooksInv'
  OBVIOUS
<1>1. ASSUME NEW h \in HookSlots,
             \/ \E req \in ToolCalls : Hooks!PreToolUse(h, req)
             \/ Hooks!Dial(h) \/ Hooks!DialRefused(h) \/ Hooks!GiveUp(h) \/ Hooks!Serve(h)
      PROVE  HooksInv'
  BY <1>1, PreToolUseKeeps, DialKeeps, DialRefusedKeeps, GiveUpKeeps, DecideKeeps, PanicKeeps,
     CheckKeeps, BudgetKeeps, FlagKeeps, ReplyKeeps DEF Hooks!Serve
<1>2. ASSUME NEW d \in Daemons, Hooks!RemoveSocket(d) \/ Hooks!Listen(d) \/ Hooks!Die(d)
      PROVE  HooksInv'
  BY <1>2, RemoveSocketKeeps, ListenKeeps, DieKeeps
<1>3. CASE Hooks!FlipMode \/ Hooks!Tick
  BY <1>3, TimeKeeps DEF Hooks!FlipMode, Hooks!Tick, HooksInv, HooksTypes
<1>4. CASE UNCHANGED Hooks!vars
  BY <1>4, TimeKeeps DEF Hooks!vars, HooksInv, HooksTypes
<1> QED
  BY <1>1, <1>2, <1>3, <1>4 DEF Hooks!Next

LEMMA HooksHold ==
  HooksInv => Hooks!TypeOK /\ Hooks!LoopsMet /\ Hooks!PromptedOnce /\ Hooks!ToldAsLogged
<1> SUFFICES ASSUME HooksInv
             PROVE  Hooks!TypeOK /\ Hooks!LoopsMet /\ Hooks!PromptedOnce /\ Hooks!ToldAsLogged
  OBVIOUS
<1>1. Hooks!TypeOK
  <2>1. ASSUME NEW d \in Daemons
        PROVE  /\ daemon[d].at \in {"unborn", "starting", "removed", "serving", "dead"}
               /\ daemon[d].flagged \in BOOLEAN
    BY DEF HooksInv, HooksTypes, DaemonState
  <2>2. ASSUME NEW h \in HookSlots
        PROVE  /\ hook[h].at \in {"idle", "dial", "waiting", "gone", "told"}
               /\ hook[h].pc \in {"none", "mode", "loop", "budget", "flag", "record"}
               /\ hook[h].pc # "none" => daemon[hook[h].to].at = "serving"
               /\ hook[h].told \in {"nothing", "ask", "deny"}
    BY HookAt DEF HookState, HookSound, Serving
  <2> QED
    BY <2>1, <2>2 DEF HooksInv, HooksTypes, Hooks!TypeOK
<1>2. Hooks!LoopsMet
  <2> SUFFICES ASSUME NEW d \in Daemons, NEW key \in LoopKeys \ {NoKey}, NEW t \in 0..HookHorizon
               PROVE  Hooks!Cardinality(InWindow(letPass[d], key, t)) < RepeatThreshold
    BY DEF Hooks!LoopsMet, InWindow, LoopKeys
  <2> QED
    BY HookCounts DEF HooksInv, DaemonSound, Remembers
<1>3. Hooks!PromptedOnce
  BY HookAt DEF Hooks!PromptedOnce, HookSound
<1>4. Hooks!ToldAsLogged
  BY HookAt DEF Hooks!ToldAsLogged, HookSound, ToldAs, Covers
<1> QED
  BY <1>1, <1>2, <1>3, <1>4

---------------------------------------------------------------------------
(* Engine: the parts together                                              *)

\* A step of the engine is one of the part that moves; the rest stays.
LEMMA PartMoves ==
  ASSUME [EngineNext]_engineVars
  PROVE  /\ part' = part
         /\ [Next]_vars
         /\ [CredentialsNext]_credentialVars
         /\ part = "launcher" => [Launcher!Next]_(Launcher!vars)
         /\ part = "hooks" => [Hooks!Next]_(Hooks!vars)
<1>1. CASE EngineNext
  BY <1>1 DEF EngineNext, QueuePart, OAuthPart, VaultPart, TokensPart, LauncherPart, HooksPart,
              CredentialsNext
<1>2. CASE UNCHANGED engineVars
  BY <1>2 DEF engineVars, launcherVars, hooksVars, Launcher!vars, Hooks!vars
<1> QED
  BY <1>1, <1>2

LEMMA QueueRuns == EngineSpec => Spec
<1>1. EngineInit => Init
  BY DEF EngineInit
<1>2. [EngineNext]_engineVars => [Next]_vars
  BY PartMoves
<1> QED
  BY <1>1, <1>2, PTL DEF EngineSpec, Spec

LEMMA CredentialsRun == EngineSpec => CredentialsSpec
<1>1. EngineInit => CredentialsInit
  BY DEF EngineInit
<1>2. [EngineNext]_engineVars => [CredentialsNext]_credentialVars
  BY PartMoves
<1> QED
  BY <1>1, <1>2, PTL DEF EngineSpec, CredentialsSpec

LEMMA LauncherInvariance == EngineSpec => [](part = "launcher" => LauncherInv)
<1>1. EngineInit => (part = "launcher" => LauncherInv)
  BY LauncherStarts DEF EngineInit
<1>2. (part = "launcher" => LauncherInv) /\ [EngineNext]_engineVars => (part = "launcher" => LauncherInv)'
  BY LauncherKeeps, PartMoves
<1> QED
  BY <1>1, <1>2, PTL DEF EngineSpec

LEMMA HooksInvariance == EngineSpec => [](part = "hooks" => HooksInv)
<1>1. EngineInit => (part = "hooks" => HooksInv)
  BY HooksStart DEF EngineInit
<1>2. (part = "hooks" => HooksInv) /\ [EngineNext]_engineVars => (part = "hooks" => HooksInv)'
  BY HooksKeep, PartMoves
<1> QED
  BY <1>1, <1>2, PTL DEF EngineSpec

---------------------------------------------------------------------------
(* Engine: the theorems                                                    *)

\* Only a binary that was published runs, an engine stopped in good order is
\* advertised no more, a client meets the engine its record names and sends the
\* key that engine was given unless two keys were generated (local-engine.ts,
\* local.ts): for any numbers of launchers, ports, clients and starts, however
\* their reads and writes of the files interleave and whoever is killed.
THEOREM LauncherIsSafe == EngineSpec => []LauncherSafe
<1>1. (part = "launcher" => LauncherInv) => LauncherSafe
  BY LauncherHolds DEF LauncherSafe
<1> QED
  BY <1>1, LauncherInvariance, PTL

\* A daemon lets no action repeat to the threshold within a window, asks once
\* for the session budget, and what Claude Code is told is what the ledger
\* records and as strict as the rules (LoopTracker.Check, EvaluateSessionBudget,
\* Engine.Decide, decisionFor): for any numbers of hooks, daemons and calls, any
\* window and any threshold.
THEOREM HooksAreSafe == EngineSpec => []HooksSafe
<1>1. (part = "hooks" => HooksInv) => HooksSafe
  BY HooksHold DEF HooksSafe
<1> QED
  BY <1>1, HooksInvariance, PTL

\* Every variable of the queue, of the credentials, of the launchers and of the
\* plugin keeps its type; in particular an engine is spawned with a port and a
\* key (startLocalEngine), and a request is served by a living daemon only.
THEOREM EngineTypes == EngineSpec => []PartTypeOK
<1>1. (part = "launcher" => LauncherInv) => (part = "launcher" => Launcher!TypeOK)
  BY LauncherHolds
<1>2. (part = "hooks" => HooksInv) => (part = "hooks" => Hooks!TypeOK)
  BY HooksHold
<1>3. EngineSpec => []TypeOK
  BY QueueRuns, TypeCorrect, PTL
<1>4. EngineSpec => []CredentialsTypeOK
  BY CredentialsRun, CredentialTypes, PTL
<1> QED
  BY <1>1, <1>2, <1>3, <1>4, LauncherInvariance, HooksInvariance, PTL DEF PartTypeOK

\* What was proved of the queue (persist, resolveIfPending, markRedeemed) and of
\* the credentials (mcpauth/server.go, vault.go, tokens.go) holds of the engine
\* they are parts of.
THEOREM EngineKeeps ==
  EngineSpec => [](QueueKeeps /\ OAuthSafe /\ CredentialsSafe) /\ ImplementsLifecycle
<1>1. EngineSpec => []QueueKeeps /\ ImplementsLifecycle
  BY QueueRuns, QueueSound, RefinesLifecycle
<1>2. EngineSpec => []OAuthSafe
  BY CredentialsRun, EachRuns, OAuthSound
<1>3. EngineSpec => []CredentialsSafe
  BY CredentialsRun, CredentialsAreSafe
<1> QED
  BY <1>1, <1>2, <1>3, PTL
=============================================================================
