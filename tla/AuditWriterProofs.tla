------------------------ MODULE AuditWriterProofs ------------------------
(***************************************************************************)
(* Proofs about AuditWriter, for any number of goroutines and events, any  *)
(* channel and batch size, and any number of restarts.                     *)
(***************************************************************************)
EXTENDS AuditWriter, FiniteSetTheorems, TLAPS

---------------------------------------------------------------------------
(* The inductive invariant                                                 *)

\* Nothing goes wrong but writes to the sink: the state file can be saved and
\* the engine stops only after Close.
Orderly == conf.faults \subseteq {"write"}

\* The hash the next event has to name.
Tip == IF log = << >> THEN Genesis ELSE log[Len(log)].id

\* What was buffered is moved to the batch as a whole.
BufferMoves ==
  /\ wpc = "select" => batch = << >>
  /\ wpc = "emit" => buf = << >>

\* LossesCounted needs to know that adding and removing a holder changes the
\* number of holders by one.
Accounted == IsFiniteSet(Holding) /\ IsFiniteSet(created) /\ LossesCounted

\* The chain alone is not inductive: New trusts the state file, and so the
\* file must be current whenever the engine may stop.
Chained ==
  /\ VerifyChain(log)
  /\ lastHash = Tip
  /\ wpc = "select" => state.hash = Tip
  /\ ~ up => wpc = "select"

Distinct(s) == \A j, k \in 1 .. Len(s) : s[j].seq = s[k].seq => j = k
HeldNumbers == {hold[g].seq : g \in Holding}

\* Every number up to seq is in one place at most, and when the engine may stop
\* the state file names a counter that is past every number on the log.
Numbered ==
  /\ Distinct(log) /\ Distinct(batch) /\ Distinct(buf) /\ Distinct(queue)
  /\ \A g, h \in Holding : hold[g].seq = hold[h].seq => g = h
  /\ Numbers(log) \cap (Numbers(batch) \cup Numbers(buf) \cup Numbers(queue) \cup HeldNumbers) = {}
  /\ (Numbers(batch) \cup Numbers(buf)) \cap (Numbers(queue) \cup HeldNumbers) = {}
  /\ Numbers(queue) \cap HeldNumbers = {}
  /\ Numbers(log) \cup Numbers(batch) \cup Numbers(buf) \cup Numbers(queue) \cup HeldNumbers
       \subseteq 0 .. seq
  /\ wpc = "select" => Numbers(log) \subseteq 0 .. state.next

\* Until a first restart the chain is whole and every event has a number of its
\* own up to seq, whatever fails: nothing was read back from the state file.
FirstProcess ==
  starts = 0 =>
    /\ VerifyChain(log) /\ lastHash = Tip
    /\ Cardinality(created) = seq
    /\ \A e \in created : e.seq <= seq
    /\ Numbers(log) \cup Numbers(batch) \cup Numbers(buf) \cup Numbers(queue) \cup HeldNumbers
         \subseteq 0 .. seq

IInv == TypeOK /\ BufferMoves /\ Accounted /\ FirstProcess /\ (Orderly => Chained /\ Numbered)

---------------------------------------------------------------------------
(* What Append and Tail do to the numbers of a sequence                    *)

\* What an item more at the end is.
LEMMA AppendItems ==
  ASSUME NEW S, NEW s \in Seq(S), NEW e
  PROVE  /\ Len(s) \in Nat /\ Len(Append(s, e)) = Len(s) + 1
         /\ Append(s, e)[Len(s) + 1] = e
         /\ \A k \in 1 .. Len(s) : Append(s, e)[k] = s[k]
OBVIOUS

LEMMA AppendNumbers ==
  ASSUME NEW T, \A x \in T : x.seq \in Nat, NEW s \in Seq(T), NEW e \in T
  PROVE  /\ Numbers(Append(s, e)) = Numbers(s) \cup {e.seq}
         /\ Distinct(s) /\ e.seq \notin Numbers(s) => Distinct(Append(s, e))
<1> DEFINE t == Append(s, e)
<1>1. /\ t \in Seq(T) /\ Len(t) = Len(s) + 1 /\ t[Len(s) + 1] = e
      /\ \A k \in 1 .. Len(s) : t[k] = s[k]
  OBVIOUS
<1>2. Len(s) \in Nat /\ 1 .. Len(t) = (1 .. Len(s)) \cup {Len(s) + 1}
  BY <1>1
<1> HIDE DEF t
<1>3. Numbers(t) = Numbers(s) \cup {e.seq}
  <2>1. Numbers(s) \subseteq Numbers(t) /\ e.seq \in Numbers(t)
    BY <1>1, <1>2 DEF Numbers
  <2>2. ASSUME NEW k \in 1 .. Len(t) PROVE t[k].seq \in Numbers(s) \cup {e.seq}
    BY <1>1, <1>2 DEF Numbers
  <2> QED
    BY <2>1, <2>2 DEF Numbers
<1>4. Distinct(s) /\ e.seq \notin Numbers(s) => Distinct(t)
  BY <1>1, <1>2 DEF Numbers, Distinct
<1> QED
  BY <1>3, <1>4 DEF t

LEMMA TailNumbers ==
  ASSUME NEW T, \A x \in T : x.seq \in Nat, NEW s \in Seq(T), s # << >>
  PROVE  /\ Head(s) \in T /\ Tail(s) \in Seq(T) /\ Len(Tail(s)) = Len(s) - 1
         /\ Head(s).seq \in Numbers(s)
         /\ Numbers(s) = Numbers(Tail(s)) \cup {Head(s).seq}
         /\ Distinct(s) => Distinct(Tail(s)) /\ Head(s).seq \notin Numbers(Tail(s))
<1> DEFINE t == Tail(s)
<1>1. /\ t \in Seq(T) /\ Len(t) = Len(s) - 1 /\ Len(s) \in Nat /\ Len(s) >= 1
      /\ Head(s) = s[1] /\ Head(s) \in T
      /\ \A k \in 1 .. Len(t) : t[k] = s[k + 1]
  OBVIOUS
<1> HIDE DEF t
<1>2. Head(s).seq \in Numbers(s) /\ Numbers(t) \subseteq Numbers(s)
  <2>1. 1 \in 1 .. Len(s) /\ \A k \in 1 .. Len(t) : k + 1 \in 1 .. Len(s)
    BY <1>1
  <2> QED
    BY <1>1, <2>1 DEF Numbers
<1>3. ASSUME NEW n \in Numbers(s), n # Head(s).seq
      PROVE  n \in Numbers(t)
  <2>1. PICK k \in 1 .. Len(s) : n = s[k].seq
    BY DEF Numbers
  <2>2. k - 1 \in 1 .. Len(t) /\ t[k - 1] = s[k]
    BY <1>1, <1>3, <2>1
  <2> QED
    BY <2>1, <2>2 DEF Numbers
<1>4. ASSUME Distinct(s)
      PROVE  Distinct(t) /\ Head(s).seq \notin Numbers(t)
  <2>1. ASSUME NEW k \in 1 .. Len(t)
        PROVE  k + 1 \in 1 .. Len(s) /\ k + 1 # 1 /\ 1 \in 1 .. Len(s) /\ t[k] = s[k + 1]
    BY <1>1
  <2>2. Distinct(t)
    BY <1>4, <2>1 DEF Distinct
  <2>3. ASSUME NEW k \in 1 .. Len(t) PROVE t[k].seq # s[1].seq
    <3>1. s[k + 1].seq # s[1].seq
      BY <1>4, <2>1 DEF Distinct
    <3> QED
      BY <2>1, <3>1
  <2> QED
    BY <1>1, <2>2, <2>3 DEF Numbers
<1> QED
  BY <1>1, <1>2, <1>3, <1>4 DEF t

LEMMA EmptyNumbers == Numbers(<< >>) = {} /\ Distinct(<< >>)
BY DEF Numbers, Distinct

\* Every event and every written event has a number.
LEMMA EventNumbers ==
  /\ \A x \in Event : x.seq \in Nat /\ x.id \in Nat
  /\ \A x \in Written : x.seq \in Nat /\ x.id \in Nat
  /\ NoEvent \in Event
BY DEF Event, Written, NoEvent

---------------------------------------------------------------------------
(* The first state                                                         *)

LEMMA InitInvariant == Init => IInv
<1> SUFFICES ASSUME Init PROVE IInv
  OBVIOUS
<1>1. TypeOK
  <2>1. hold \in [Loggers -> Event]
    BY EventNumbers DEF Init
  <2>2. << >> \in Seq(Event) /\ << >> \in Seq(Written) /\ {} \in SUBSET Event
    OBVIOUS
  <2>3. state \in [hash : Nat, next : Nat] /\ base \in [seq : Nat, len : Nat]
    BY DEF Init, Genesis
  <2> QED
    BY <2>1, <2>2, <2>3 DEF Init, TypeOK, Genesis
<1>2. Holding = {} /\ Cardinality(Holding) = 0 /\ IsFiniteSet(Holding) /\ IsFiniteSet(created)
  BY FS_EmptySet DEF Init, Holding
<1>3. BufferMoves /\ Accounted
  <2>1. OnTheWay = 0 /\ Lost = 0 /\ Len(log) = 0
    BY <1>2 DEF Init, OnTheWay, Lost
  <2>2. LossesCounted
    BY <2>1 DEF Init, LossesCounted
  <2> QED
    BY <1>2, <2>2 DEF Init, BufferMoves, Accounted
<1>4. Chained
  BY DEF Init, Chained, VerifyChain, Tip
<1>5. Numbered /\ FirstProcess
  <2>1. HeldNumbers = {} /\ Cardinality(created) = 0 /\ VerifyChain(log) /\ lastHash = Tip
    BY <1>2, FS_EmptySet DEF Init, HeldNumbers, VerifyChain, Tip
  <2> QED
    BY <1>2, <2>1, EmptyNumbers DEF Init, Numbered, FirstProcess
<1> QED
  BY <1>1, <1>3, <1>4, <1>5 DEF IInv

---------------------------------------------------------------------------
(* Types and the buffer                                                    *)

LEMMA TypeStep ==
  ASSUME TypeOK, IsFiniteSet(created), [Next]_vars
  PROVE  TypeOK'
<1>1. CASE \E g \in Loggers : Assign(g)
  <2>1. PICK g \in Loggers : Assign(g)
    BY <1>1
  <2>2. Cardinality(created) \in Nat
    BY FS_CardinalityType
  <2>3. [seq |-> seq + 1, id |-> Cardinality(created) + 1] \in Event
    BY <2>2 DEF Event, TypeOK
  <2> QED
    BY <2>1, <2>3 DEF Assign, TypeOK, Event
<1>2. CASE \E g \in Loggers : Send(g)
  <2>1. PICK g \in Loggers : Send(g)
    BY <1>2
  <2>2. hold[g] \in Event /\ NoEvent \in Event
    BY EventNumbers DEF TypeOK
  <2> QED
    <3>1. hold' \in [Loggers -> Event]
      BY <2>1, <2>2 DEF Send, TypeOK
    <3>2. queue \in Seq(Event) /\ Append(queue, hold[g]) \in Seq(Event) /\ dropped \in Nat
      BY <2>2 DEF TypeOK
    <3>3. queue' \in Seq(Event) /\ dropped' \in Nat
      <4>1. \/ queue' = Append(queue, hold[g]) /\ dropped' = dropped
            \/ queue' = queue /\ dropped' = dropped + 1
        BY <2>1 DEF Send
      <4>2. dropped + 1 \in Nat
        BY <3>2
      <4> QED
        BY <3>2, <4>1, <4>2
    <3> QED
      BY <2>1, <3>1, <3>3 DEF Send, TypeOK
<1>3. CASE Receive
  <2>1. Head(queue) \in Event /\ Tail(queue) \in Seq(Event)
    BY <1>3 DEF Receive, TypeOK
  <2> QED
    <3>1. Append(buf, Head(queue)) \in Seq(Event) /\ << >> \in Seq(Event)
      BY <2>1 DEF TypeOK
    <3>2. queue' \in Seq(Event) /\ buf' \in Seq(Event) /\ batch' \in Seq(Event)
          /\ wpc' \in {"select", "emit"}
      BY <1>3, <2>1, <3>1 DEF Receive, TypeOK
    <3> QED
      BY <1>3, <3>2 DEF Receive, TypeOK
<1>4. CASE Flush
  BY <1>4 DEF Flush, TypeOK
<1>5. CASE Emit
  <2> DEFINE w == [seq |-> Head(batch).seq, id |-> Head(batch).id, prev |-> lastHash]
  <2>1. /\ Head(batch) \in Event /\ Tail(batch) \in Seq(Event) /\ Len(batch) \in Nat
        /\ << >> \in Seq(Event)
    BY <1>5 DEF Emit, TypeOK
  <2>2. w \in Written /\ Head(batch).id \in Nat
    BY <2>1 DEF TypeOK, Event, Written
  <2> HIDE DEF w
  <2>3. Append(log, w) \in Seq(Written)
    BY <2>2 DEF TypeOK
  <2>4. /\ log' = log \/ log' = Append(log, w)
        /\ lastHash' = lastHash \/ lastHash' = Head(batch).id
        /\ batch' = Tail(batch) \/ batch' = << >>
        /\ writeErrs' = writeErrs \/ writeErrs' = writeErrs + Len(batch)
        /\ UNCHANGED <<conf, up, seq, hold, queue, closed, buf, wpc, dropped,
                       state, created, base, starts>>
    BY <1>5 DEF Emit, w
  <2>5. log' \in Seq(Written) /\ lastHash' \in Nat /\ batch' \in Seq(Event) /\ writeErrs' \in Nat
    <3>1. log \in Seq(Written) /\ lastHash \in Nat /\ writeErrs \in Nat
      BY DEF TypeOK
    <3> QED
      <4>1. log' \in Seq(Written)
        BY <2>3, <2>4, <3>1
      <4>2. lastHash' \in Nat
        BY <2>2, <2>4, <3>1
      <4>3. batch' \in Seq(Event)
        BY <2>1, <2>4
      <4>4. writeErrs' \in Nat
        BY <2>1, <2>4, <3>1
      <4> QED
        BY <4>1, <4>2, <4>3, <4>4
  <2> QED
    BY <2>4, <2>5 DEF TypeOK
<1>6. CASE persist
  BY <1>6 DEF persist, TypeOK
<1>7. CASE Close
  BY <1>7 DEF Close, TypeOK
<1>8. CASE Stop
  BY <1>8 DEF Stop, mem, TypeOK
<1>9. CASE New
  <2>1. Len(log) \in Nat
    BY DEF TypeOK
  <2> QED
    <3>1. hold' \in [Loggers -> Event]
      BY <1>9, EventNumbers DEF New
    <3>2. << >> \in Seq(Event) /\ base' \in [seq : Nat, len : Nat]
      BY <1>9, <2>1 DEF New, TypeOK
    <3> QED
      <4>1. /\ UNCHANGED <<conf, log, state, created>>
            /\ up' = TRUE /\ closed' = FALSE /\ seq' = state.next /\ lastHash' = state.hash
            /\ queue' = << >> /\ buf' = << >> /\ batch' = << >> /\ wpc' = "select"
            /\ dropped' = 0 /\ writeErrs' = 0 /\ starts' = starts + 1
        BY <1>9 DEF New
      <4>2. state.next \in Nat /\ state.hash \in Nat /\ starts + 1 \in Nat
        BY DEF TypeOK
      <4> QED
        BY <3>1, <3>2, <4>1, <4>2 DEF TypeOK
<1>10. CASE UNCHANGED vars
  BY <1>10 DEF vars, mem, TypeOK
<1> QED
  BY <1>1, <1>2, <1>3, <1>4, <1>5, <1>6, <1>7, <1>8, <1>9, <1>10 DEF Next, Writer

LEMMA BufferStep ==
  ASSUME TypeOK, BufferMoves, [Next]_vars
  PROVE  BufferMoves'
<1> USE DEF BufferMoves
<1>1. CASE \E g \in Loggers : Assign(g) \/ Send(g)
  BY <1>1 DEF Assign, Send
<1>2. CASE Receive
  BY <1>2 DEF Receive
<1>3. CASE Flush
  BY <1>3 DEF Flush
<1>4. CASE Emit
  BY <1>4 DEF Emit
<1>5. CASE persist
  BY <1>5 DEF persist
<1>6. CASE Close \/ Stop \/ New
  BY <1>6 DEF Close, Stop, New, mem
<1>7. CASE UNCHANGED vars
  BY <1>7 DEF vars, mem
<1> QED
  BY <1>1, <1>2, <1>3, <1>4, <1>5, <1>6, <1>7 DEF Next, Writer

---------------------------------------------------------------------------
(* Losses are counted                                                      *)

\* The goroutines that hold an event, after one has taken or sent its own.
LEMMA HoldersStep ==
  ASSUME TypeOK, IsFiniteSet(Holding), NEW g \in Loggers, NEW e \in Event,
         hold' = [hold EXCEPT ![g] = e]
  PROVE  /\ IsFiniteSet(Holding')
         /\ e = NoEvent => Holding' = Holding \ {g}
         /\ e # NoEvent => Holding' = Holding \cup {g}
         /\ Cardinality(Holding) \in Nat
         /\ hold[g] = NoEvent /\ e # NoEvent => Cardinality(Holding') = Cardinality(Holding) + 1
         /\ hold[g] # NoEvent /\ e = NoEvent => Cardinality(Holding') = Cardinality(Holding) - 1
<1>1. \A h \in Loggers : hold'[h] = IF h = g THEN e ELSE hold[h]
  BY DEF TypeOK
<1>2. /\ e = NoEvent => Holding' = Holding \ {g}
      /\ e # NoEvent => Holding' = Holding \cup {g}
      /\ g \in Holding <=> hold[g] # NoEvent
  BY <1>1 DEF Holding
<1>3. Cardinality(Holding) \in Nat
  BY FS_CardinalityType
<1>4. /\ IsFiniteSet(Holding \ {g}) /\ IsFiniteSet(Holding \cup {g})
      /\ g \in Holding => Cardinality(Holding \ {g}) = Cardinality(Holding) - 1
      /\ g \notin Holding => Cardinality(Holding \cup {g}) = Cardinality(Holding) + 1
  BY FS_AddElement, FS_RemoveElement
<1> QED
  BY <1>2, <1>3, <1>4

\* The numbers that are added up, and the sum without differences.
LEMMA Sums ==
  ASSUME TypeOK, IsFiniteSet(Holding)
  PROVE  /\ Len(log) \in Nat /\ Len(queue) \in Nat /\ Len(buf) \in Nat /\ Len(batch) \in Nat
         /\ Cardinality(Holding) \in Nat /\ dropped \in Nat /\ writeErrs \in Nat /\ seq \in Nat
         /\ base.seq \in Nat /\ base.len \in Nat
         /\ OnTheWay \in Nat /\ Lost \in Nat
<1>1. Cardinality(Holding) \in Nat
  BY FS_CardinalityType
<1> QED
  BY <1>1 DEF TypeOK, OnTheWay, Lost

LEMMA AccountStep ==
  ASSUME TypeOK, BufferMoves, Accounted, [Next]_vars
  PROVE  Accounted'
<1>0. IsFiniteSet(Holding) /\ IsFiniteSet(created) /\ (up => LossesCounted)
  BY DEF Accounted
<1>a. /\ Len(log) \in Nat /\ Len(queue) \in Nat /\ Len(buf) \in Nat /\ Len(batch) \in Nat
      /\ Cardinality(Holding) \in Nat /\ dropped \in Nat /\ writeErrs \in Nat /\ seq \in Nat
      /\ base.seq \in Nat /\ base.len \in Nat /\ OnTheWay \in Nat /\ Lost \in Nat
  BY <1>0, Sums
<1>1. ASSUME NEW g \in Loggers, Assign(g)
      PROVE  Accounted'
  <2> DEFINE e == [seq |-> seq + 1, id |-> Cardinality(created) + 1]
  <2>1. e \in Event /\ e # NoEvent
    BY <1>0, FS_CardinalityType DEF TypeOK, Event, NoEvent
  <2>2. /\ up /\ hold[g] = NoEvent /\ seq' = seq + 1
        /\ hold' = [hold EXCEPT ![g] = e] /\ created' = created \cup {e}
        /\ UNCHANGED <<up, queue, buf, batch, log, base, dropped, writeErrs>>
    BY <1>1 DEF Assign
  <2> HIDE DEF e
  <2>3. IsFiniteSet(Holding') /\ Cardinality(Holding') = Cardinality(Holding) + 1
    BY <1>0, <2>1, <2>2, HoldersStep
  <2>4. IsFiniteSet(created')
    BY <1>0, <2>2, FS_AddElement
  <2>5. OnTheWay' = OnTheWay + 1 /\ Lost' = Lost
    BY <1>a, <2>2, <2>3 DEF OnTheWay, Lost
  <2>6. LossesCounted'
    <3>1. seq - base.seq = (Len(log) - base.len) + (OnTheWay + Lost)
      BY <1>0, <2>2 DEF LossesCounted
    <3>2. OnTheWay' + Lost' = (OnTheWay + Lost) + 1
      BY <1>a, <2>5
    <3>3. (seq + 1) - base.seq = (Len(log) - base.len) + ((OnTheWay + Lost) + 1)
      <4>1. PICK x \in Int, y \in Nat : x = Len(log) - base.len /\ y = OnTheWay + Lost
        BY <1>a
      <4>2. seq \in Nat /\ base.seq \in Nat /\ seq - base.seq = x + y
        BY <1>a, <3>1, <4>1
      <4>3. (seq + 1) - base.seq = x + (y + 1)
        BY <4>2
      <4> QED
        BY <4>1, <4>3
    <3> QED
      BY <2>2, <3>2, <3>3 DEF LossesCounted
  <2> QED
    BY <2>3, <2>4, <2>6 DEF Accounted
<1>2. ASSUME NEW g \in Loggers, Send(g)
      PROVE  Accounted'
  <2>1. /\ up /\ hold[g] # NoEvent /\ hold' = [hold EXCEPT ![g] = NoEvent]
        /\ UNCHANGED <<up, seq, buf, batch, log, base, writeErrs, created>>
    BY <1>2 DEF Send
  <2>2. IsFiniteSet(Holding') /\ Cardinality(Holding') = Cardinality(Holding) - 1
    BY <1>0, <2>1, HoldersStep, EventNumbers
  <2>3. \/ Len(queue') = Len(queue) + 1 /\ dropped' = dropped
        \/ Len(queue') = Len(queue) /\ dropped' = dropped + 1
    <3>1. Len(Append(queue, hold[g])) = Len(queue) + 1
      BY DEF TypeOK
    <3> QED
      BY <1>2, <3>1 DEF Send
  <2>4. OnTheWay' + Lost' = OnTheWay + Lost /\ OnTheWay' \in Nat /\ Lost' \in Nat
    <3>1. CASE Len(queue') = Len(queue) + 1 /\ dropped' = dropped
      BY <1>a, <2>1, <2>2, <3>1 DEF OnTheWay, Lost
    <3>2. CASE Len(queue') = Len(queue) /\ dropped' = dropped + 1
      <4>1. Cardinality(Holding') \in Nat
        BY <2>2, FS_CardinalityType
      <4>2. OnTheWay' = OnTheWay - 1 /\ OnTheWay' \in Nat
        BY <1>a, <2>1, <2>2, <3>2, <4>1 DEF OnTheWay
      <4>3. Lost' = Lost + 1
        BY <1>a, <2>1, <3>2 DEF Lost
      <4> QED
        BY <1>a, <4>2, <4>3
    <3> QED
      BY <2>3, <3>1, <3>2
  <2>5. LossesCounted'
    <3>1. seq - base.seq = (Len(log) - base.len) + (OnTheWay + Lost)
      BY <1>0, <2>1 DEF LossesCounted
    <3> QED
      BY <2>1, <2>4, <3>1 DEF LossesCounted
  <2> QED
    BY <1>0, <2>1, <2>2, <2>5 DEF Accounted
<1>3. CASE Receive \/ Flush
  <2>1. /\ UNCHANGED <<up, seq, hold, log, base, dropped, writeErrs, created>>
        /\ Len(queue') + Len(buf') + Len(batch') = Len(queue) + Len(buf) + Len(batch)
    <3>1. CASE Receive
      <4>1. /\ Len(Tail(queue)) = Len(queue) - 1 /\ batch = << >>
            /\ Len(Append(buf, Head(queue))) = Len(buf) + 1
        BY <3>1 DEF Receive, TypeOK, BufferMoves
      <4> QED
        <5>1. \/ buf' = Append(buf, Head(queue)) /\ batch' = batch
              \/ buf' = << >> /\ batch' = Append(buf, Head(queue))
          BY <3>1 DEF Receive
        <5>2. Len(queue') = Len(queue) - 1 /\ Len(batch) = 0 /\ Len(<< >>) = 0
          BY <3>1, <4>1 DEF Receive
        <5>3. Len(buf') + Len(batch') = Len(buf) + 1 /\ Len(buf') \in Nat /\ Len(batch') \in Nat
          BY <1>a, <4>1, <5>1, <5>2
        <5>4. Len(queue) \in Nat /\ Len(buf) \in Nat
          BY <1>a
        <5> QED
          <6>1. UNCHANGED <<up, seq, hold, log, base, dropped, writeErrs, created>>
            BY <3>1 DEF Receive
          <6>2. Len(queue') + (Len(buf') + Len(batch')) = (Len(queue) - 1) + (Len(buf) + 1)
            BY <5>2, <5>3
          <6>3. Len(queue') \in Int
            BY <5>2, <5>4
          <6> QED
            BY <5>2, <5>3, <5>4, <6>1, <6>2, <6>3
    <3>2. CASE Flush
      BY <1>a, <3>2 DEF Flush, BufferMoves
    <3> QED
      BY <1>3, <3>1, <3>2
  <2>2. Holding' = Holding
    BY <2>1 DEF Holding
  <2>3. OnTheWay' = OnTheWay /\ Lost' = Lost
    BY <2>1, <2>2 DEF OnTheWay, Lost
  <2>4. LossesCounted'
    BY <1>0, <2>1, <2>3 DEF LossesCounted
  <2> QED
    BY <1>0, <2>1, <2>2, <2>4 DEF Accounted
<1>4. CASE Emit
  <2>1. UNCHANGED <<up, seq, hold, queue, buf, base, dropped, created>>
    BY <1>4 DEF Emit
  <2>2. Holding' = Holding
    BY <2>1 DEF Holding
  <2>3. \/ Len(log') = Len(log) + 1 /\ Len(batch') = Len(batch) - 1 /\ writeErrs' = writeErrs
        \/ Len(log') = Len(log) /\ Len(batch') = 0 /\ writeErrs' = writeErrs + Len(batch)
    <3>1. /\ Len(Tail(batch)) = Len(batch) - 1
          /\ Len(<< >>) = 0
      BY <1>4 DEF Emit, TypeOK
    <3>2. \A w : Len(Append(log, w)) = Len(log) + 1
      BY DEF TypeOK
    <3> QED
      BY <1>4, <3>1, <3>2 DEF Emit
  <2>4. LossesCounted'
    <3>1. CASE Len(log') = Len(log) + 1 /\ Len(batch') = Len(batch) - 1 /\ writeErrs' = writeErrs
      <4>1. OnTheWay' = OnTheWay - 1 /\ Lost' = Lost
        BY <1>a, <2>1, <2>2, <3>1 DEF OnTheWay, Lost
      <4> QED
        <5>1. PICK x \in Int, y \in Nat : x = Len(log) - base.len /\ y = OnTheWay + Lost
          BY <1>a
        <5>2. OnTheWay' + Lost' = y - 1
          BY <1>a, <4>1, <5>1
        <5>3. Len(log') - base'.len = x + 1
          <6>1. PICK l \in Nat, bl \in Nat : l = Len(log) /\ bl = base.len
            BY <1>a
          <6>2. (l + 1) - bl = (l - bl) + 1
            OBVIOUS
          <6>3. Len(log') = l + 1 /\ base'.len = bl /\ x = l - bl
            BY <2>1, <3>1, <5>1, <6>1
          <6> QED
            BY <6>2, <6>3
        <5>4. up => seq - base.seq = (x + 1) + (y - 1)
          BY <1>0, <5>1 DEF LossesCounted
        <5> QED
          BY <2>1, <5>2, <5>3, <5>4 DEF LossesCounted
    <3>2. CASE Len(log') = Len(log) /\ Len(batch') = 0 /\ writeErrs' = writeErrs + Len(batch)
      <4>1. OnTheWay' = OnTheWay - Len(batch) /\ Lost' = Lost + Len(batch)
        BY <1>a, <2>1, <2>2, <3>2 DEF OnTheWay, Lost
      <4> QED
        BY <1>0, <1>a, <2>1, <3>2, <4>1 DEF LossesCounted
    <3> QED
      BY <2>3, <3>1, <3>2
  <2> QED
    BY <1>0, <2>1, <2>2, <2>4 DEF Accounted
<1>5. CASE persist \/ Close \/ UNCHANGED vars
  <2>1. UNCHANGED <<up, seq, hold, queue, buf, batch, log, base, dropped, writeErrs, created>>
    BY <1>5 DEF persist, Close, vars, mem
  <2>2. Holding' = Holding
    BY <2>1 DEF Holding
  <2>3. OnTheWay' = OnTheWay /\ Lost' = Lost
    BY <2>1, <2>2 DEF OnTheWay, Lost
  <2>4. LossesCounted'
    BY <1>0, <2>1, <2>3 DEF LossesCounted
  <2> QED
    BY <1>0, <2>1, <2>2, <2>4 DEF Accounted
<1>6. CASE Stop
  <2>1. up' = FALSE /\ hold' = hold /\ created' = created
    BY <1>6 DEF Stop, mem
  <2>2. Holding' = Holding
    BY <2>1 DEF Holding
  <2> QED
    BY <1>0, <2>1, <2>2 DEF Accounted, LossesCounted
<1>7. CASE New
  <2>1. Holding' = {}
    BY <1>7 DEF New, Holding
  <2>2. IsFiniteSet(Holding') /\ Cardinality(Holding') = 0
    BY <2>1, FS_EmptySet
  <2>3. /\ seq' = base'.seq /\ base'.seq \in Nat /\ base'.len = Len(log')
        /\ queue' = << >> /\ buf' = << >> /\ batch' = << >> /\ dropped' = 0 /\ writeErrs' = 0
        /\ log' = log /\ created' = created
    BY <1>7 DEF New, TypeOK
  <2>4. OnTheWay' = 0 /\ Lost' = 0
    BY <2>2, <2>3 DEF OnTheWay, Lost
  <2>5. LossesCounted'
    BY <1>a, <2>3, <2>4 DEF LossesCounted
  <2> QED
    BY <1>0, <2>2, <2>3, <2>5 DEF Accounted
<1> QED
  BY <1>1, <1>2, <1>3, <1>4, <1>5, <1>6, <1>7 DEF Next, Writer

---------------------------------------------------------------------------
(* The chain                                                               *)

\* One event more, linked to the last one.
LEMMA ChainGrows ==
  ASSUME log \in Seq(Written), VerifyChain(log), NEW w \in Written, w.prev = Tip,
         log' = Append(log, w)
  PROVE  VerifyChain(log') /\ w.id = Tip'
<1>1. /\ Len(log) \in Nat /\ Len(log') = Len(log) + 1 /\ log'[Len(log) + 1] = w
      /\ \A k \in 1 .. Len(log) : log'[k] = log[k]
  BY AppendItems
<1>2. log' # << >> /\ (log = << >> <=> Len(log) = 0)
  <2>1. log = << >> <=> Len(log) = 0
    OBVIOUS
  <2> QED
    BY <1>1, <2>1
<1>3. w.id = Tip'
  BY <1>1, <1>2 DEF Tip
<1>4. ASSUME NEW k \in 1 .. Len(log')
      PROVE  log'[k].prev = IF k = 1 THEN Genesis ELSE log'[k - 1].id
  <2>1. CASE k \in 1 .. Len(log)
    <3>1. k # 1 => k - 1 \in 1 .. Len(log)
      BY <1>1, <2>1
    <3> QED
      BY <1>1, <2>1, <3>1 DEF VerifyChain
  <2>2. CASE k = Len(log) + 1
    <3>1. k # 1 => Len(log) \in 1 .. Len(log) /\ k - 1 = Len(log) /\ log # << >>
      BY <1>1, <1>2, <2>2
    <3>2. k = 1 => log = << >>
      BY <1>1, <1>2, <2>2
    <3> QED
      BY <1>1, <2>2, <3>1, <3>2 DEF Tip
  <2> QED
    BY <1>1, <2>1, <2>2
<1> QED
  BY <1>3, <1>4 DEF VerifyChain

LEMMA ChainStep ==
  ASSUME TypeOK, BufferMoves, Chained, Orderly, [Next]_vars
  PROVE  Chained'
<1>1. CASE (\E g \in Loggers : Assign(g) \/ Send(g)) \/ Close \/ UNCHANGED vars
  <2>1. UNCHANGED <<up, log, lastHash, wpc, state>>
    BY <1>1 DEF Assign, Send, Close, vars, mem
  <2> QED
    BY <2>1 DEF Chained, VerifyChain, Tip
<1>2. CASE Receive \/ Flush
  <2>1. UNCHANGED <<up, log, lastHash, state>> /\ up /\ wpc = "select"
    BY <1>2 DEF Receive, Flush
  <2> QED
    BY <2>1 DEF Chained, VerifyChain, Tip
<1>3. CASE Emit
  <2>1. UNCHANGED <<up, wpc, state>> /\ up /\ wpc = "emit"
    BY <1>3 DEF Emit
  <2>2. CASE log' = log /\ lastHash' = lastHash
    BY <2>1, <2>2 DEF Chained, VerifyChain, Tip
  <2>3. CASE /\ log' = Append(log, [seq |-> Head(batch).seq, id |-> Head(batch).id,
                                    prev |-> lastHash])
             /\ lastHash' = Head(batch).id
    <3> DEFINE w == [seq |-> Head(batch).seq, id |-> Head(batch).id, prev |-> lastHash]
    <3>1. w \in Written /\ w.id = Head(batch).id /\ w.prev = Tip
      <4>1. Head(batch) \in Event /\ lastHash \in Nat
        BY <1>3 DEF Emit, TypeOK
      <4> QED
        BY <4>1, EventNumbers DEF Written, Chained
    <3> HIDE DEF w
    <3>2. VerifyChain(log') /\ lastHash' = Tip'
      BY <2>3, <3>1, ChainGrows DEF w, Chained, TypeOK
    <3> QED
      BY <2>1, <3>2 DEF Chained
  <2> QED
    BY <1>3, <2>2, <2>3 DEF Emit
<1>4. CASE persist
  <2>1. UNCHANGED <<up, log, lastHash>> /\ up /\ "state" \notin conf.faults
    BY <1>4 DEF persist, Orderly
  <2>2. state'.hash = lastHash
    BY <1>4, <2>1 DEF persist
  <2> QED
    BY <2>1, <2>2 DEF Chained, VerifyChain, Tip
<1>5. CASE Stop
  <2>1. wpc = "select" /\ UNCHANGED <<log, lastHash, wpc, state>>
    BY <1>5 DEF Stop, Drained, mem, Orderly
  <2> QED
    BY <2>1 DEF Chained, VerifyChain, Tip
<1>6. CASE New
  <2>1. wpc = "select" /\ wpc' = "select" /\ lastHash' = state.hash /\ UNCHANGED <<log, state>>
    BY <1>6 DEF New, Chained
  <2> QED
    BY <2>1, <1>6 DEF New, Chained, VerifyChain, Tip
<1> QED
  BY <1>1, <1>2, <1>3, <1>4, <1>5, <1>6 DEF Next, Writer

---------------------------------------------------------------------------
(* The numbers                                                             *)

HeldApart == \A g, h \in Holding : hold[g].seq = hold[h].seq => g = h

\* Taking a number, and giving the event away.
LEMMA HeldStep ==
  ASSUME TypeOK, HeldApart, NEW g \in Loggers, NEW e \in Event, hold' = [hold EXCEPT ![g] = e]
  PROVE  /\ hold[g] = NoEvent /\ e # NoEvent /\ e.seq \notin HeldNumbers =>
              HeldNumbers' = HeldNumbers \cup {e.seq} /\ HeldApart'
         /\ hold[g] # NoEvent /\ e = NoEvent =>
              /\ hold[g].seq \in HeldNumbers
              /\ HeldNumbers' = HeldNumbers \ {hold[g].seq} /\ HeldApart'
<1>1. \A h \in Loggers : hold'[h] = IF h = g THEN e ELSE hold[h]
  BY DEF TypeOK
<1>2. ASSUME hold[g] = NoEvent, e # NoEvent, e.seq \notin HeldNumbers
      PROVE  HeldNumbers' = HeldNumbers \cup {e.seq} /\ HeldApart'
  <2>1. /\ Holding' = Holding \cup {g} /\ g \notin Holding /\ hold'[g] = e
        /\ \A h \in Holding : hold'[h] = hold[h]
    BY <1>1, <1>2 DEF Holding
  <2>2. \A h \in Holding : hold[h].seq # e.seq
    BY <1>2 DEF HeldNumbers
  <2> QED
    BY <2>1, <2>2 DEF HeldNumbers, HeldApart
<1>3. ASSUME hold[g] # NoEvent, e = NoEvent
      PROVE  /\ hold[g].seq \in HeldNumbers
             /\ HeldNumbers' = HeldNumbers \ {hold[g].seq} /\ HeldApart'
  <2>1. /\ Holding' = Holding \ {g} /\ g \in Holding
        /\ \A h \in Holding \ {g} : hold'[h] = hold[h]
    BY <1>1, <1>3 DEF Holding
  <2>2. \A h \in Holding \ {g} : hold[h].seq # hold[g].seq
    BY <2>1 DEF HeldApart
  <2> QED
    BY <2>1, <2>2 DEF HeldNumbers, HeldApart
<1> QED
  BY <1>2, <1>3

LEMMA NumberStep ==
  ASSUME TypeOK, IsFiniteSet(created), BufferMoves, Chained, Numbered, Orderly, [Next]_vars
  PROVE  Numbered'
<1> USE EventNumbers
<1>0. seq \in Nat /\ HeldApart
  BY DEF Numbered, HeldApart, TypeOK
<1>1. ASSUME NEW g \in Loggers, Assign(g)
      PROVE  Numbered'
  <2> DEFINE e == [seq |-> seq + 1, id |-> Cardinality(created) + 1]
  <2>1. e \in Event /\ e # NoEvent /\ e.seq = seq + 1
    BY FS_CardinalityType DEF TypeOK, Event, NoEvent
  <2>2. /\ hold[g] = NoEvent /\ seq' = seq + 1 /\ hold' = [hold EXCEPT ![g] = e]
        /\ UNCHANGED <<log, batch, buf, queue, wpc, state>>
    BY <1>1 DEF Assign
  <2> HIDE DEF e
  <2>3. seq + 1 \notin 0 .. seq /\ 0 .. seq \subseteq 0 .. (seq + 1) /\ seq + 1 \in 0 .. (seq + 1)
    BY <1>0
  <2>4. seq + 1 \notin Numbers(log) \cup Numbers(batch) \cup Numbers(buf) \cup Numbers(queue) \cup HeldNumbers
    BY <2>3 DEF Numbered
  <2>5. HeldNumbers' = HeldNumbers \cup {seq + 1} /\ HeldApart'
    BY <1>0, <2>1, <2>2, <2>4, HeldStep
  <2> QED
    BY <2>2, <2>3, <2>4, <2>5 DEF Numbered, HeldApart
<1>2. ASSUME NEW g \in Loggers, Send(g)
      PROVE  Numbered'
  <2>1. /\ hold[g] # NoEvent /\ hold' = [hold EXCEPT ![g] = NoEvent]
        /\ UNCHANGED <<log, batch, buf, seq, wpc, state>>
        /\ queue' = queue \/ queue' = Append(queue, hold[g])
    BY <1>2 DEF Send
  <2>2. hold[g].seq \in HeldNumbers /\ HeldNumbers' = HeldNumbers \ {hold[g].seq} /\ HeldApart'
    BY <1>0, <2>1, HeldStep
  <2>3. CASE queue' = queue
    BY <2>1, <2>2, <2>3 DEF Numbered, HeldApart
  <2>4. CASE queue' = Append(queue, hold[g])
    <3>1. queue \in Seq(Event) /\ hold[g] \in Event /\ hold[g].seq \notin Numbers(queue)
      BY <2>2 DEF TypeOK, Numbered
    <3>2. Numbers(queue') = Numbers(queue) \cup {hold[g].seq} /\ Distinct(queue')
      BY <2>4, <3>1, AppendNumbers DEF Numbered
    <3> QED
      BY <2>1, <2>2, <3>2 DEF Numbered, HeldApart
  <2> QED
    BY <2>1, <2>3, <2>4
<1>3. CASE Receive
  <2>1. /\ queue # << >> /\ queue' = Tail(queue) /\ wpc = "select" /\ batch = << >>
        /\ UNCHANGED <<log, hold, seq, state>>
        /\ \/ buf' = Append(buf, Head(queue)) /\ batch' = batch
           \/ buf' = << >> /\ batch' = Append(buf, Head(queue))
        /\ wpc' = "select" => wpc = "select"
    BY <1>3 DEF Receive, BufferMoves
  <2> DEFINE n == Head(queue).seq
             b == Append(buf, Head(queue))
  <2>2. /\ Head(queue) \in Event /\ n \in Numbers(queue) /\ Numbers(queue) = Numbers(queue') \cup {n}
        /\ Distinct(queue') /\ n \notin Numbers(queue')
    BY <2>1, TailNumbers DEF TypeOK, Numbered
  <2>3. Numbers(b) = Numbers(buf) \cup {n} /\ Distinct(b)
    <3>1. n \notin Numbers(buf) /\ Distinct(buf) /\ buf \in Seq(Event)
      BY <2>2 DEF Numbered, TypeOK
    <3> QED
      BY <2>2, <3>1, AppendNumbers
  <2>4. HeldNumbers' = HeldNumbers /\ Holding' = Holding
    BY <2>1 DEF HeldNumbers, Holding
  <2>5. Numbers(batch) = {}
    BY <2>1, EmptyNumbers
  <2> HIDE DEF n, b
  <2>6. Distinct(buf') /\ Distinct(batch') /\ Numbers(buf') \cup Numbers(batch') = Numbers(buf) \cup {n}
    BY <2>1, <2>3, <2>5, EmptyNumbers DEF b
  <2> QED
    BY <2>1, <2>2, <2>4, <2>5, <2>6 DEF Numbered
<1>4. CASE Flush
  <2>1. /\ batch' = buf /\ buf' = << >> /\ batch = << >> /\ wpc = "select"
        /\ UNCHANGED <<log, hold, queue, seq, state>>
    BY <1>4 DEF Flush, BufferMoves
  <2>2. HeldNumbers' = HeldNumbers /\ Holding' = Holding
    BY <2>1 DEF HeldNumbers, Holding
  <2> QED
    BY <2>1, <2>2, EmptyNumbers DEF Numbered
<1>5. CASE Emit
  <2> DEFINE w == [seq |-> Head(batch).seq, id |-> Head(batch).id, prev |-> lastHash]
             n == Head(batch).seq
  <2>1. /\ batch # << >> /\ wpc' = "emit" /\ UNCHANGED <<hold, queue, buf, seq, state>>
        /\ \/ log' = Append(log, w) /\ batch' = Tail(batch)
           \/ log' = log /\ batch' = << >>
    BY <1>5 DEF Emit
  <2>2. HeldNumbers' = HeldNumbers /\ Holding' = Holding
    BY <2>1 DEF HeldNumbers, Holding
  <2>3. CASE log' = log /\ batch' = << >>
    BY <2>1, <2>2, <2>3, EmptyNumbers DEF Numbered
  <2>4. CASE log' = Append(log, w) /\ batch' = Tail(batch)
    <3>1. /\ Head(batch) \in Event /\ n \in Numbers(batch) /\ Numbers(batch) = Numbers(batch') \cup {n}
          /\ Distinct(batch') /\ n \notin Numbers(batch')
      BY <2>1, <2>4, TailNumbers DEF TypeOK, Numbered
    <3>2. w \in Written /\ w.seq = n
      BY <3>1 DEF Event, Written, TypeOK
    <3> HIDE DEF w, n
    <3>3. Numbers(log') = Numbers(log) \cup {n} /\ Distinct(log')
      <4>1. n \notin Numbers(log) /\ Distinct(log) /\ log \in Seq(Written)
        BY <3>1 DEF Numbered, TypeOK
      <4> QED
        BY <2>4, <3>2, <4>1, AppendNumbers
    <3>4. n \notin Numbers(buf) \cup Numbers(queue) \cup HeldNumbers
      <4>1. wpc = "emit" /\ buf = << >>
        BY <1>5 DEF Emit, BufferMoves
      <4> QED
        BY <3>1, <4>1, EmptyNumbers DEF Numbered
    <3> QED
      BY <2>1, <2>2, <3>1, <3>3, <3>4 DEF Numbered
  <2> QED
    BY <2>1, <2>3, <2>4
<1>6. CASE persist
  <2>1. /\ state'.next = seq /\ UNCHANGED <<log, hold, queue, buf, batch, seq>>
    BY <1>6 DEF persist, Orderly
  <2>2. HeldNumbers' = HeldNumbers /\ Holding' = Holding
    BY <2>1 DEF HeldNumbers, Holding
  <2> QED
    BY <2>1, <2>2 DEF Numbered
<1>7. CASE Close \/ Stop \/ UNCHANGED vars
  <2>1. UNCHANGED <<log, hold, queue, buf, batch, seq, wpc, state>>
    BY <1>7 DEF Close, Stop, vars, mem
  <2>2. HeldNumbers' = HeldNumbers /\ Holding' = Holding
    BY <2>1 DEF HeldNumbers, Holding
  <2> QED
    BY <2>1, <2>2 DEF Numbered
<1>8. CASE New
  <2>1. /\ wpc = "select" /\ seq' = state.next /\ UNCHANGED <<log, state>>
        /\ queue' = << >> /\ buf' = << >> /\ batch' = << >>
    BY <1>8 DEF New, Chained
  <2>2. HeldNumbers' = {} /\ Holding' = {}
    BY <1>8 DEF New, HeldNumbers, Holding
  <2> QED
    BY <2>1, <2>2, EmptyNumbers DEF Numbered
<1> QED
  BY <1>1, <1>2, <1>3, <1>4, <1>5, <1>6, <1>7, <1>8 DEF Next, Writer

---------------------------------------------------------------------------
(* What the gaps of a log add up to                                        *)

Increasing(s) == \A k \in 2 .. Len(s) : s[k - 1].seq < s[k].seq

\* A set of positions has a first one.
LEMMA FirstPosition ==
  ASSUME NEW T, T \subseteq Nat, T # {}
  PROVE  \E m \in T : \A k \in T : m <= k
<1>1. PICK m \in T : \A k \in T : ~ (<<k, m>> \in OpToRel(<, Nat))
  BY NatLessThanWellFounded, WFMin
<1>2. \A k \in T : ~ (k < m)
  BY <1>1 DEF OpToRel
<1> QED
  BY <1>2

\* Neighbours in order put any two events in order.
LEMMA IncreasingAll ==
  ASSUME NEW s \in Seq(Written), Increasing(s), NEW j \in 1 .. Len(s), NEW k \in 1 .. Len(s), j < k
  PROVE  s[j].seq < s[k].seq
<1> DEFINE T == {m \in j + 1 .. Len(s) : ~ s[j].seq < s[m].seq}
<1>0. Len(s) \in Nat /\ \A m \in 1 .. Len(s) : s[m].seq \in Nat
  BY EventNumbers
<1>1. SUFFICES ASSUME T # {} PROVE FALSE
  BY <1>0
<1>2. PICK m \in T : \A n \in T : m <= n
  <2>1. T \subseteq Nat
    BY <1>0
  <2> HIDE DEF T
  <2> QED
    BY <1>1, <2>1, FirstPosition
<1>3. m \in 2 .. Len(s) /\ m - 1 \in 1 .. Len(s) /\ s[m - 1].seq < s[m].seq /\ m - 1 \notin T
  BY <1>0, <1>2 DEF Increasing
<1>4. m - 1 = j \/ s[j].seq < s[m - 1].seq
  BY <1>0, <1>2, <1>3
<1> QED
  BY <1>0, <1>2, <1>3, <1>4

LEMMA Without ==
  ASSUME NEW S, NEW T, IsFiniteSet(S), T \subseteq S
  PROVE  IsFiniteSet(S \ T) /\ Cardinality(S \ T) = Cardinality(S) - Cardinality(T)
<1>1. S \cap T = T
  OBVIOUS
<1> QED
  BY <1>1, FS_Difference

\* From the first number to the last, every number is on the log or in one gap.
LEMMA GapsAndNumbers ==
  ASSUME NEW s \in Seq(Written), s # << >>, Increasing(s)
  PROVE  /\ Missing(s) \in Nat
         /\ s[Len(s)].seq - s[1].seq + 1 = Len(s) + Missing(s)
         /\ \A k \in 1 .. Len(s) : s[k].seq <= s[Len(s)].seq
         /\ s[Len(s)].seq \in Numbers(s)
<1> DEFINE a == s[1].seq
           b == s[Len(s)].seq
           P == UNION {{k} \X GapNumbers(s, k) : k \in SeqGaps(s)}
           D == (a .. b) \ Numbers(s)
<1>0. Len(s) \in Nat /\ Len(s) >= 1 /\ \A m \in 1 .. Len(s) : s[m].seq \in Nat
  BY EventNumbers
<1>1. \A j, k \in 1 .. Len(s) : j < k => s[j].seq < s[k].seq
  BY IncreasingAll
<1>2. 1 \in 1 .. Len(s) /\ Len(s) \in 1 .. Len(s) /\ a \in Nat /\ b \in Nat
  BY <1>0
<1>3. \A k \in 1 .. Len(s) : a <= s[k].seq /\ s[k].seq <= b
  BY <1>0, <1>1, <1>2
<1>4. \A p : p \in P <=> /\ p = <<p[1], p[2]>> /\ p[1] \in SeqGaps(s)
                         /\ p[2] \in GapNumbers(s, p[1])
  OBVIOUS
<1>5. ASSUME NEW k \in SeqGaps(s), NEW n \in GapNumbers(s, k)
      PROVE  /\ k \in 2 .. Len(s) /\ k - 1 \in 1 .. Len(s) /\ k \in 1 .. Len(s)
             /\ n \in Nat /\ s[k - 1].seq < n /\ n < s[k].seq
  <2>1. k \in 2 .. Len(s) /\ k - 1 \in 1 .. Len(s) /\ k \in 1 .. Len(s)
    BY <1>0 DEF SeqGaps
  <2>2. s[k - 1].seq \in Nat /\ s[k].seq \in Nat
    BY <1>0, <2>1
  <2> QED
    BY <2>1, <2>2 DEF GapNumbers
<1>6. ASSUME NEW k \in SeqGaps(s), NEW n \in GapNumbers(s, k)
      PROVE  n \in D
  <2>1. n \in a .. b
    BY <1>0, <1>2, <1>3, <1>5
  <2>2. ASSUME NEW m \in 1 .. Len(s) PROVE s[m].seq # n
    <3>1. m \in Nat /\ k \in Nat /\ (m < k - 1 \/ m = k - 1 \/ m = k \/ m > k)
      BY <1>0, <1>5
    <3>2. s[m].seq <= s[k - 1].seq \/ s[m].seq >= s[k].seq
      BY <1>0, <1>1, <1>5, <3>1
    <3> QED
      BY <1>0, <1>5, <3>2
  <2> QED
    BY <2>1, <2>2 DEF Numbers
<1>7. ASSUME NEW n \in D
      PROVE  \E k \in SeqGaps(s) : n \in GapNumbers(s, k)
  <2>1. n \in Nat /\ a <= n /\ n <= b /\ \A m \in 1 .. Len(s) : s[m].seq # n
    BY <1>2 DEF Numbers
  <2> DEFINE T == {m \in 1 .. Len(s) : s[m].seq > n}
  <2>2. Len(s) \in T /\ 1 \notin T /\ T \subseteq Nat
    BY <1>0, <1>2, <2>1
  <2>3. PICK k \in T : \A m \in T : k <= m
    BY <2>2, FirstPosition
  <2>4. k \in 2 .. Len(s) /\ k - 1 \in 1 .. Len(s) /\ k - 1 \notin T
    BY <1>0, <2>2, <2>3
  <2>5. s[k - 1].seq \in Nat /\ s[k].seq \in Nat /\ s[k - 1].seq < n /\ n < s[k].seq
    BY <1>0, <2>1, <2>3, <2>4
  <2> QED
    BY <2>1, <2>4, <2>5 DEF SeqGaps, GapNumbers
<1>8. ASSUME NEW j \in SeqGaps(s), NEW k \in SeqGaps(s),
             NEW n \in GapNumbers(s, j), n \in GapNumbers(s, k)
      PROVE  j = k
  <2>1. \A x, y \in 1 .. Len(s) : x <= y => s[x].seq <= s[y].seq
    BY <1>0, <1>1
  <2>2. /\ j \in Nat /\ k \in Nat /\ n \in Nat
        /\ j \in 1 .. Len(s) /\ k \in 1 .. Len(s) /\ j - 1 \in 1 .. Len(s) /\ k - 1 \in 1 .. Len(s)
        /\ s[j - 1].seq < n /\ n < s[j].seq /\ s[k - 1].seq < n /\ n < s[k].seq
    BY <1>0, <1>5, <1>8
  <2>3. CASE j < k
    BY <1>0, <2>1, <2>2, <2>3
  <2>4. CASE k < j
    BY <1>0, <2>1, <2>2, <2>4
  <2> QED
    BY <2>2, <2>3, <2>4
<1> HIDE DEF P, D
<1>9. \E f \in Injection(P, D) : f \in Surjection(P, D)
  <2> DEFINE f == [p \in P |-> p[2]]
  <2>1. f \in [P -> D]
    BY <1>4, <1>6
  <2>2. \A p, q \in P : f[p] = f[q] => p = q
    BY <1>4, <1>8
  <2>3. ASSUME NEW n \in D PROVE \E p \in P : f[p] = n
    <3>1. PICK k \in SeqGaps(s) : n \in GapNumbers(s, k)
      BY <1>7
    <3>2. <<k, n>> \in P
      BY <1>4, <3>1
    <3> QED
      BY <3>2
  <2> HIDE DEF f
  <2>4. f \in Injection(P, D) /\ f \in Surjection(P, D)
    BY <2>1, <2>2, <2>3 DEF Injection, Surjection, IsInjective
  <2> QED
    BY <2>4
<1>10. ExistsBijection(1 .. Len(s), Numbers(s))
  <2> DEFINE f == [k \in 1 .. Len(s) |-> s[k].seq]
  <2>1. f \in [1 .. Len(s) -> Numbers(s)] /\ \A n \in Numbers(s) : \E k \in 1 .. Len(s) : f[k] = n
    BY DEF Numbers
  <2>2. \A j, k \in 1 .. Len(s) : f[j] = f[k] => j = k
    BY <1>0, <1>1
  <2> HIDE DEF f
  <2>3. f \in Injection(1 .. Len(s), Numbers(s)) /\ f \in Surjection(1 .. Len(s), Numbers(s))
    BY <2>1, <2>2 DEF Injection, Surjection, IsInjective
  <2> QED
    BY <2>3 DEF ExistsBijection, Bijection
<1>11. IsFiniteSet(a .. b) /\ Cardinality(a .. b) = b - a + 1
  <2>1. a <= b /\ a \in Int /\ b \in Int
    BY <1>2, <1>3
  <2> HIDE DEF a, b
  <2>2. /\ IsFiniteSet(a .. b)
        /\ Cardinality(a .. b) = IF a > b THEN 0 ELSE b - a + 1
    BY <2>1, FS_Interval
  <2> QED
    BY <2>1, <2>2
<1>12. Cardinality(Numbers(s)) = Len(s)
  BY <1>0, <1>10, FS_CountingElements
<1>13. IsFiniteSet(D) /\ Cardinality(D) = (b - a + 1) - Len(s)
  <2>1. Numbers(s) \subseteq a .. b
    BY <1>2, <1>3, <1>0 DEF Numbers
  <2> HIDE DEF a, b
  <2>2. IsFiniteSet(D) /\ Cardinality(D) = Cardinality(a .. b) - Cardinality(Numbers(s))
    BY <1>11, <2>1, Without DEF D
  <2> QED
    BY <1>11, <1>12, <2>2
<1>14. Missing(s) = Cardinality(D) /\ Cardinality(D) \in Nat
  <2>1. Cardinality(P) = Cardinality(D)
    BY <1>9, <1>13, FS_Injection
  <2> QED
    BY <1>13, <2>1, FS_CardinalityType DEF Missing, P
<1> QED
  BY <1>0, <1>2, <1>3, <1>13, <1>14 DEF Numbers

---------------------------------------------------------------------------
(* The first process                                                       *)

LEMMA FirstProcessStep ==
  ASSUME TypeOK, IsFiniteSet(created), FirstProcess, [Next]_vars
  PROVE  FirstProcess'
<1> USE EventNumbers
<1>0. seq \in Nat /\ starts \in Nat /\ \A e \in created : e.seq \in Nat
  BY DEF TypeOK
<1>1. CASE New
  BY <1>0, <1>1 DEF New, FirstProcess
<1>2. SUFFICES ASSUME ~ New, starts = 0, starts' = 0
      PROVE  FirstProcess'
  <2>1. New \/ starts' = starts
    BY DEF Next, Writer, Assign, Send, Receive, Flush, Emit, persist, Close, Stop, vars
  <2> QED
    BY <1>1, <1>2, <2>1 DEF FirstProcess
<1> DEFINE All == Numbers(log) \cup Numbers(batch) \cup Numbers(buf) \cup Numbers(queue) \cup HeldNumbers
<1>3. /\ VerifyChain(log) /\ lastHash = Tip /\ Cardinality(created) = seq
      /\ \A e \in created : e.seq <= seq
      /\ All \subseteq 0 .. seq
  BY <1>2 DEF FirstProcess
<1>4. ASSUME UNCHANGED <<log, lastHash>>
      PROVE  VerifyChain(log') /\ lastHash' = Tip'
  BY <1>3, <1>4 DEF Tip
<1>5. ASSUME NEW g \in Loggers, Assign(g)
      PROVE  FirstProcess'
  <2> DEFINE e == [seq |-> seq + 1, id |-> Cardinality(created) + 1]
  <2>1. e.seq = seq + 1
    OBVIOUS
  <2>2. /\ seq' = seq + 1 /\ hold' = [hold EXCEPT ![g] = e] /\ created' = created \cup {e}
        /\ UNCHANGED <<log, lastHash, batch, buf, queue>>
    BY <1>5 DEF Assign
  <2> HIDE DEF e
  <2>3. e \notin created
    BY <1>0, <1>3, <2>1
  <2>4. Cardinality(created') = seq'
    BY <1>3, <2>2, <2>3, FS_AddElement
  <2>5. \A d \in created' : d.seq <= seq'
    BY <1>0, <1>3, <2>1, <2>2
  <2>6. \A h \in Loggers : hold'[h] = IF h = g THEN e ELSE hold[h]
    BY <2>2 DEF TypeOK
  <2>7. HeldNumbers' \subseteq HeldNumbers \cup {seq + 1}
    BY <2>1, <2>6 DEF HeldNumbers, Holding
  <2>8. 0 .. seq \subseteq 0 .. seq' /\ seq + 1 \in 0 .. seq'
    BY <1>0, <2>2
  <2>9. All' \subseteq 0 .. seq'
    BY <1>3, <2>2, <2>7, <2>8
  <2> QED
    BY <1>4, <2>2, <2>4, <2>5, <2>9 DEF FirstProcess
<1>6. ASSUME NEW g \in Loggers, Send(g)
      PROVE  FirstProcess'
  <2>1. /\ hold[g] # NoEvent /\ hold' = [hold EXCEPT ![g] = NoEvent]
        /\ UNCHANGED <<log, lastHash, batch, buf, seq, created>>
        /\ queue' = queue \/ queue' = Append(queue, hold[g])
    BY <1>6 DEF Send
  <2>2. \A h \in Loggers : hold'[h] = IF h = g THEN NoEvent ELSE hold[h]
    BY <2>1 DEF TypeOK
  <2>3. HeldNumbers' \subseteq HeldNumbers /\ hold[g].seq \in HeldNumbers
    BY <2>1, <2>2 DEF HeldNumbers, Holding
  <2>4. queue \in Seq(Event) /\ hold[g] \in Event
    BY DEF TypeOK
  <2>5. Numbers(queue') \subseteq Numbers(queue) \cup {hold[g].seq}
    BY <2>1, <2>4, AppendNumbers
  <2>6. All' \subseteq 0 .. seq'
    BY <1>3, <2>1, <2>3, <2>5
  <2> QED
    BY <1>3, <1>4, <2>1, <2>6 DEF FirstProcess
<1>7. CASE Receive
  <2> DEFINE n == Head(queue).seq
             b == Append(buf, Head(queue))
  <2>1. /\ queue # << >> /\ queue' = Tail(queue)
        /\ UNCHANGED <<log, lastHash, hold, seq, created>>
        /\ \/ buf' = b /\ batch' = batch
           \/ buf' = << >> /\ batch' = b
    BY <1>7 DEF Receive
  <2>2. Head(queue) \in Event /\ n \in Numbers(queue) /\ Numbers(queue') \subseteq Numbers(queue)
    <3>1. queue \in Seq(Event)
      BY DEF TypeOK
    <3> QED
      BY <2>1, <3>1, TailNumbers
  <2>3. Numbers(b) = Numbers(buf) \cup {n}
    <3>1. buf \in Seq(Event)
      BY DEF TypeOK
    <3> QED
      BY <2>2, <3>1, AppendNumbers
  <2> HIDE DEF n, b
  <2>4. Numbers(buf') \cup Numbers(batch') \subseteq Numbers(buf) \cup Numbers(batch) \cup {n}
    BY <2>1, <2>3, EmptyNumbers
  <2>5. HeldNumbers' = HeldNumbers
    BY <2>1 DEF HeldNumbers, Holding
  <2>6. All' \subseteq 0 .. seq'
    BY <1>3, <2>1, <2>2, <2>4, <2>5
  <2> QED
    BY <1>3, <1>4, <2>1, <2>6 DEF FirstProcess
<1>8. CASE Flush
  <2>1. batch' = buf /\ buf' = << >> /\ UNCHANGED <<log, lastHash, hold, queue, seq, created>>
    BY <1>8 DEF Flush
  <2>2. HeldNumbers' = HeldNumbers
    BY <2>1 DEF HeldNumbers, Holding
  <2>3. All' \subseteq 0 .. seq'
    BY <1>3, <2>1, <2>2, EmptyNumbers
  <2> QED
    BY <1>3, <1>4, <2>1, <2>3 DEF FirstProcess
<1>9. CASE Emit
  <2> DEFINE w == [seq |-> Head(batch).seq, id |-> Head(batch).id, prev |-> lastHash]
             n == Head(batch).seq
  <2>1. /\ batch # << >> /\ UNCHANGED <<hold, queue, buf, seq, created>>
        /\ \/ log' = Append(log, w) /\ lastHash' = Head(batch).id /\ batch' = Tail(batch)
           \/ log' = log /\ lastHash' = lastHash /\ batch' = << >>
    BY <1>9 DEF Emit
  <2>2. HeldNumbers' = HeldNumbers
    BY <2>1 DEF HeldNumbers, Holding
  <2>3. CASE log' = log /\ lastHash' = lastHash /\ batch' = << >>
    <3>1. All' \subseteq 0 .. seq'
      BY <1>3, <2>1, <2>2, <2>3, EmptyNumbers
    <3> QED
      BY <1>3, <1>4, <2>1, <2>3, <3>1 DEF FirstProcess
  <2>4. CASE log' = Append(log, w) /\ lastHash' = Head(batch).id /\ batch' = Tail(batch)
    <3>1. /\ Head(batch) \in Event /\ n \in Numbers(batch)
          /\ Numbers(batch') \subseteq Numbers(batch)
      <4>1. batch \in Seq(Event)
        BY DEF TypeOK
      <4> QED
        BY <2>1, <2>4, <4>1, TailNumbers
    <3>2. w \in Written /\ w.seq = n
      BY <3>1 DEF Event, Written, TypeOK
    <3>0. log \in Seq(Written) /\ w.id = Head(batch).id /\ w.prev = lastHash
      BY DEF TypeOK
    <3> HIDE DEF w, n
    <3>3. Numbers(log') = Numbers(log) \cup {n}
      BY <2>4, <3>2, <3>0, AppendNumbers
    <3>4. All' \subseteq 0 .. seq'
      BY <1>3, <2>1, <2>2, <3>1, <3>3
    <3>5. VerifyChain(log') /\ lastHash' = Tip'
      BY <1>3, <2>4, <3>2, <3>0, ChainGrows
    <3> QED
      BY <1>3, <2>1, <3>4, <3>5 DEF FirstProcess
  <2> QED
    BY <2>1, <2>3, <2>4
<1>10. CASE persist \/ Close \/ Stop \/ UNCHANGED vars
  <2>1. UNCHANGED <<log, lastHash, hold, queue, buf, batch, seq, created>>
    BY <1>10 DEF persist, Close, Stop, vars, mem
  <2>2. HeldNumbers' = HeldNumbers
    BY <2>1 DEF HeldNumbers, Holding
  <2>3. All' \subseteq 0 .. seq'
    BY <1>3, <2>1, <2>2
  <2> QED
    BY <1>3, <1>4, <2>1, <2>3 DEF FirstProcess
<1> QED
  BY <1>2, <1>5, <1>6, <1>7, <1>8, <1>9, <1>10 DEF Next, Writer

\* A log of the first process accounts for its losses.
LEMMA GapsCount ==
  ASSUME TypeOK, FirstProcess
  PROVE  GapsCountLosses
<1> SUFFICES ASSUME starts = 0, log # << >>, Increasing(log)
             PROVE  /\ Missing(log) + Truncated(log, seq) + (log[1].seq - 1)
                         = Cardinality(created) - Len(log)
                    /\ Complete(log, seq) <=> Cardinality(created) - Len(log) = log[1].seq - 1
  BY DEF GapsCountLosses, Increasing
<1> DEFINE a == log[1].seq
           b == log[Len(log)].seq
           n == Len(log)
           m == Missing(log)
<1>1. /\ m \in Nat /\ b - a + 1 = n + m /\ b \in Numbers(log)
      /\ \A x \in Numbers(log) : x <= b
  BY GapsAndNumbers DEF TypeOK, Numbers
<1>2. n \in Nat /\ n >= 1 /\ a \in Nat /\ b \in Nat /\ seq \in Nat
  BY EventNumbers DEF TypeOK
<1>3. b <= seq
  BY <1>1, <1>2 DEF FirstProcess
<1>4. Max({0} \cup Numbers(log)) = b
  <2> HIDE DEF b
  <2> DEFINE S == {0} \cup Numbers(log)
  <2>1. b \in S /\ \A x \in S : b >= x
    BY <1>1, <1>2
  <2>2. \A x \in S : x \in Nat
    BY EventNumbers DEF TypeOK, Numbers
  <2> HIDE DEF S
  <2>3. PICK x \in S : x = Max(S) /\ \A y \in S : x >= y
    BY <2>1 DEF Max
  <2>4. x \in Nat /\ x >= b /\ b >= x
    BY <2>1, <2>2, <2>3
  <2>5. Max(S) = b
    BY <1>2, <2>3, <2>4
  <2> QED
    BY <2>5 DEF S
<1>5. Truncated(log, seq) = seq - b
  BY <1>2, <1>3, <1>4 DEF Truncated
<1>6. Cardinality(created) = seq /\ VerifyChain(log)
  BY DEF FirstProcess
<1>7. Complete(log, seq) <=> m = 0 /\ seq - b = 0
  BY <1>5, <1>6 DEF Complete
<1> HIDE DEF a, b, n, m
<1>8. m + (seq - b) + (a - 1) = seq - n
  BY <1>1, <1>2
<1>9. (m = 0 /\ seq - b = 0) <=> seq - n = a - 1
  BY <1>1, <1>2, <1>3, <1>8
<1> QED
  BY <1>5, <1>6, <1>7, <1>8, <1>9 DEF a, b, n, m

---------------------------------------------------------------------------
(* The theorems                                                            *)

LEMMA StepInvariant == IInv /\ [Next]_vars => IInv'
<1> SUFFICES ASSUME IInv, [Next]_vars PROVE IInv'
  OBVIOUS
<1>1. TypeOK' /\ BufferMoves' /\ Accounted' /\ FirstProcess'
  BY TypeStep, BufferStep, AccountStep, FirstProcessStep DEF IInv, Accounted
<1>2. conf' = conf
  BY DEF Next, Writer, Assign, Send, Receive, Flush, Emit, persist, Close, Stop, New, vars
<1>3. ASSUME Orderly PROVE Chained' /\ Numbered'
  BY <1>3, ChainStep, NumberStep DEF IInv, Accounted
<1>4. Orderly' => Orderly
  BY <1>2 DEF Orderly
<1> QED
  BY <1>1, <1>3, <1>4 DEF IInv

LEMMA Invariance == Spec => []IInv
<1> QED
  BY InitInvariant, StepInvariant, PTL DEF Spec

\* audit.Writer: whatever fails, stops or dies, every event of a process's
\* life is on the log, on its way, or counted as dropped or failed.
THEOREM NothingLostSilently == Spec => [](TypeOK /\ LossesCounted)
<1>1. IInv => TypeOK /\ LossesCounted
  BY DEF IInv, Accounted
<1> QED
  BY <1>1, Invariance, PTL

\* audit.Writer, New and VerifyChain: as long as the state file can be saved and
\* the engine is stopped through Close, the log verifies over any number of
\* restarts, no number occurs twice on it, and no loss goes uncounted.
THEOREM LogStaysSound == Spec => [](Orderly => LogSound)
<1>1. IInv => (Orderly => LogSound)
  BY DEF IInv, Accounted, LogSound, Chained, ChainIntact, Numbered, Distinct, NumbersUnique
<1> QED
  BY <1>1, Invariance, PTL

\* SeqGaps, ChainReport.Complete and the high-water mark: whatever fails, what a
\* verifier finds missing in the log of the first process is exactly what that
\* process lost after the first event written, and the log is certified whole
\* just when nothing was.
THEOREM GapsAreTheLosses == Spec => []GapsCountLosses
<1>1. IInv => GapsCountLosses
  BY GapsCount DEF IInv
<1> QED
  BY <1>1, Invariance, PTL
==========================================================================
