--------------------------- MODULE AuditWriter ---------------------------
(***************************************************************************)
(* The buffered, hash-chained audit log writer of                          *)
(* engine/internal/audit/audit.go (with a signer and a state file).        *)
(*                                                                         *)
(* Goroutines that log an event number it from an atomic counter and then  *)
(* send it on a bounded channel: two steps.  One flush goroutine takes     *)
(* events off the channel, and writes them in batches, each chained to the *)
(* one before it; at the end of a batch it saves the chain hash and the    *)
(* counter to the state file, from which the next process resumes.         *)
(*                                                                         *)
(* `conf.faults' says what may go wrong: "write" (an event cannot be       *)
(* canonicalised, signed or written, and the rest of its batch is          *)
(* abandoned), "state" (the state file cannot be saved, an error the code  *)
(* ignores), "crash" (the process dies).                                   *)
(***************************************************************************)
EXTENDS AuditVerifier, FiniteSets

CONSTANTS Loggers,      \* goroutines that log
          QueueDepth,   \* capacity of the channel
          BatchSize,    \* events per flush
          Configs,      \* Config.BlockOnFull and the faults to consider
          MaxEvents,    \* bound: events created in a behaviour
          MaxStarts     \* bound: process starts after the first

ASSUME AuditAssumption ==
  /\ QueueDepth \in Nat \ {0}
  /\ BatchSize \in Nat \ {0}
  /\ Configs \subseteq [block : BOOLEAN, faults : SUBSET {"write", "state", "crash"}]
  /\ MaxEvents \in Nat
  /\ MaxStarts \in Nat

VARIABLES
  conf,      \* the configuration, fixed in a behaviour
  up,        \* the process runs
  seq,       \* Writer.seq, the atomic counter
  hold,      \* per goroutine: the numbered event not yet sent
  queue,     \* the channel
  closed,    \* the channel is closed (Close)
  buf,       \* the flush goroutine's buffer
  batch,     \* what the flush under way has still to write
  wpc,       \* where the flush goroutine is
  lastHash,  \* hash of the last event written
  dropped,   \* Writer.dropped
  writeErrs, \* Writer.writeErrs
  log,       \* the sink: the events written
  state,     \* the state file: chain hash and next_seq
  created,   \* every event ever created, as a set (history)
  base,      \* counter and log length when the process started (history)
  starts     \* restarts so far (for the bound)

mem == <<seq, hold, queue, closed, buf, batch, wpc, lastHash, dropped, writeErrs>>
vars == <<conf, up, mem, log, state, created, base, starts>>

Event == [seq : Nat, id : Nat]
NoEvent == [seq |-> 0, id |-> 0]
Written == [seq : Nat, id : Nat, prev : Nat]

Holding == {g \in Loggers : hold[g] # NoEvent}

---------------------------------------------------------------------------
Init ==
  /\ conf \in Configs
  /\ up = TRUE
  /\ seq = 0
  /\ hold = [g \in Loggers |-> NoEvent]
  /\ queue = << >>
  /\ closed = FALSE
  /\ buf = << >>
  /\ batch = << >>
  /\ wpc = "select"
  /\ lastHash = Genesis
  /\ dropped = 0
  /\ writeErrs = 0
  /\ log = << >>
  /\ state = [hash |-> Genesis, next |-> 0]
  /\ created = {}
  /\ base = [seq |-> 0, len |-> 0]
  /\ starts = 0

---------------------------------------------------------------------------
(* Log                                                                     *)

\* The number is burned before anything else can happen to the event.
Assign(g) ==
  LET e == [seq |-> seq + 1, id |-> Cardinality(created) + 1]
  IN  /\ up
      /\ hold[g] = NoEvent
      /\ Cardinality(created) < MaxEvents
      /\ seq' = e.seq
      /\ hold' = [hold EXCEPT ![g] = e]
      /\ created' = created \cup {e}
      /\ UNCHANGED <<conf, up, queue, closed, buf, batch, wpc, lastHash, dropped, writeErrs,
                     log, state, base, starts>>

\* Mutant of Send: a dropped event gives its number back.
Send_Unburn(g) ==
  /\ up
  /\ hold[g] # NoEvent
  /\ hold' = [hold EXCEPT ![g] = NoEvent]
  /\ IF ~ closed /\ Len(queue) < QueueDepth
       THEN queue' = Append(queue, hold[g]) /\ UNCHANGED <<seq, dropped>>
       ELSE seq' = seq - 1 /\ dropped' = dropped + 1 /\ UNCHANGED queue
  /\ UNCHANGED <<conf, up, closed, buf, batch, wpc, lastHash, writeErrs,
                 log, state, created, base, starts>>

\* Sending on a closed channel panics, and the recovered panic counts a drop;
\* so does a full channel, unless BlockOnFull makes the goroutine wait.
Send(g) ==
  /\ up
  /\ hold[g] # NoEvent
  /\ hold' = [hold EXCEPT ![g] = NoEvent]
  /\ \/ /\ ~ closed
        /\ Len(queue) < QueueDepth
        /\ queue' = Append(queue, hold[g])
        /\ UNCHANGED dropped
     \/ /\ closed \/ (Len(queue) >= QueueDepth /\ ~ conf.block)
        /\ dropped' = dropped + 1
        /\ UNCHANGED queue
  /\ UNCHANGED <<conf, up, seq, closed, buf, batch, wpc, lastHash, writeErrs,
                 log, state, created, base, starts>>

---------------------------------------------------------------------------
(* start: the flush goroutine                                              *)

Receive ==
  /\ up
  /\ wpc = "select"
  /\ queue # << >>
  /\ queue' = Tail(queue)
  /\ IF Len(buf) + 1 >= BatchSize
       THEN batch' = Append(buf, Head(queue)) /\ buf' = << >> /\ wpc' = "emit"
       ELSE buf' = Append(buf, Head(queue)) /\ UNCHANGED <<batch, wpc>>
  /\ UNCHANGED <<conf, up, seq, hold, closed, lastHash, dropped, writeErrs,
                 log, state, created, base, starts>>

\* Mutant of Flush: no ticker, a partial buffer waits for Close.
Flush_NoTicker ==
  /\ up /\ wpc = "select" /\ buf # << >>
  /\ closed /\ queue = << >>
  /\ batch' = buf /\ buf' = << >> /\ wpc' = "emit"
  /\ UNCHANGED <<conf, up, seq, hold, queue, closed, lastHash, dropped, writeErrs,
                 log, state, created, base, starts>>

\* The ticker fires, or the channel is closed and drained.
Flush ==
  /\ up
  /\ wpc = "select"
  /\ buf # << >>
  /\ batch' = buf
  /\ buf' = << >>
  /\ wpc' = "emit"
  /\ UNCHANGED <<conf, up, seq, hold, queue, closed, lastHash, dropped, writeErrs,
                 log, state, created, base, starts>>

\* Mutant of Emit: the chain advances before the write is known to be good.
Emit_AdvanceFirst ==
  /\ up /\ wpc = "emit" /\ batch # << >>
  /\ lastHash' = Head(batch).id
  /\ \/ /\ log' = Append(log, [seq |-> Head(batch).seq, id |-> Head(batch).id,
                               prev |-> lastHash])
        /\ batch' = Tail(batch)
        /\ UNCHANGED writeErrs
     \/ /\ "write" \in conf.faults
        /\ writeErrs' = writeErrs + Len(batch)
        /\ batch' = << >>
        /\ UNCHANGED log
  /\ UNCHANGED <<conf, up, seq, hold, queue, closed, buf, wpc, dropped,
                 state, created, base, starts>>

\* Mutant of Emit: only the event that failed is counted, not its batch.
Emit_CountOne ==
  /\ up /\ wpc = "emit" /\ batch # << >>
  /\ \/ /\ log' = Append(log, [seq |-> Head(batch).seq, id |-> Head(batch).id,
                               prev |-> lastHash])
        /\ lastHash' = Head(batch).id
        /\ batch' = Tail(batch)
        /\ UNCHANGED writeErrs
     \/ /\ "write" \in conf.faults
        /\ writeErrs' = writeErrs + 1
        /\ batch' = << >>
        /\ UNCHANGED <<log, lastHash>>
  /\ UNCHANGED <<conf, up, seq, hold, queue, closed, buf, wpc, dropped,
                 state, created, base, starts>>

\* One event of the batch.  The chain advances only when it was written;
\* otherwise the rest of the batch is abandoned and counted.
Emit ==
  /\ up
  /\ wpc = "emit"
  /\ batch # << >>
  /\ \/ /\ log' = Append(log, [seq |-> Head(batch).seq, id |-> Head(batch).id,
                               prev |-> lastHash])
        /\ lastHash' = Head(batch).id
        /\ batch' = Tail(batch)
        /\ UNCHANGED writeErrs
     \/ /\ "write" \in conf.faults
        /\ writeErrs' = writeErrs + Len(batch)
        /\ batch' = << >>
        /\ UNCHANGED <<log, lastHash>>
  /\ UNCHANGED <<conf, up, seq, hold, queue, closed, buf, wpc, dropped,
                 state, created, base, starts>>

\* Mutant of persist: next_seq is the number of the last event written.
persist_LastWritten ==
  /\ up /\ wpc = "emit" /\ batch = << >>
  /\ wpc' = "select"
  /\ state' = [hash |-> lastHash,
               next |-> IF log = << >> THEN 0 ELSE log[Len(log)].seq]
  /\ UNCHANGED <<conf, up, seq, hold, queue, closed, buf, batch, lastHash, dropped,
                 writeErrs, log, created, base, starts>>

\* The end of every flush of a non-empty buffer.
persist ==
  /\ up
  /\ wpc = "emit"
  /\ batch = << >>
  /\ wpc' = "select"
  /\ \/ state' = [hash |-> lastHash, next |-> seq]
     \/ "state" \in conf.faults /\ UNCHANGED state
  /\ UNCHANGED <<conf, up, seq, hold, queue, closed, buf, batch, lastHash, dropped,
                 writeErrs, log, created, base, starts>>

---------------------------------------------------------------------------
(* Shutdown, crash and restart                                             *)

Close ==
  /\ up
  /\ ~ closed
  /\ closed' = TRUE
  /\ UNCHANGED <<conf, up, seq, hold, queue, buf, batch, wpc, lastHash, dropped, writeErrs,
                 log, state, created, base, starts>>

Drained == closed /\ queue = << >> /\ buf = << >> /\ wpc = "select"

\* Close has returned and the process ends, or it dies.
Stop ==
  /\ up
  /\ Drained \/ "crash" \in conf.faults
  /\ up' = FALSE
  /\ UNCHANGED <<conf, mem, log, state, created, base, starts>>

\* Mutant of New: the counter is taken for the next free number.
New_OffByOne ==
  /\ ~ up
  /\ starts < MaxStarts
  /\ up' = TRUE
  /\ seq' = state.next - 1
  /\ lastHash' = state.hash
  /\ hold' = [g \in Loggers |-> NoEvent]
  /\ queue' = << >> /\ closed' = FALSE
  /\ buf' = << >> /\ batch' = << >> /\ wpc' = "select"
  /\ dropped' = 0 /\ writeErrs' = 0
  /\ base' = [seq |-> state.next, len |-> Len(log)]
  /\ starts' = starts + 1
  /\ UNCHANGED <<conf, log, state, created>>

\* New: resume from the state file.
New ==
  /\ ~ up
  /\ starts < MaxStarts
  /\ up' = TRUE
  /\ seq' = state.next
  /\ lastHash' = state.hash
  /\ hold' = [g \in Loggers |-> NoEvent]
  /\ queue' = << >>
  /\ closed' = FALSE
  /\ buf' = << >>
  /\ batch' = << >>
  /\ wpc' = "select"
  /\ dropped' = 0
  /\ writeErrs' = 0
  /\ base' = [seq |-> state.next, len |-> Len(log)]
  /\ starts' = starts + 1
  /\ UNCHANGED <<conf, log, state, created>>

---------------------------------------------------------------------------
Writer == Receive \/ Flush \/ Emit \/ persist

Next ==
  \/ \E g \in Loggers : Assign(g) \/ Send(g)
  \/ Writer
  \/ Close \/ Stop \/ New

Spec == Init /\ [][Next]_vars

\* The flush goroutine runs and its ticker fires; a goroutine blocked on the
\* channel gets its turn, because Go queues blocked senders first in first out.
FairSpec == Spec /\ WF_vars(Writer) /\ \A g \in Loggers : SF_vars(Send(g))

---------------------------------------------------------------------------
(* Properties                                                              *)

TypeOK ==
  /\ conf \in Configs
  /\ up \in BOOLEAN
  /\ seq \in Nat
  /\ hold \in [Loggers -> Event]
  /\ queue \in Seq(Event)
  /\ closed \in BOOLEAN
  /\ buf \in Seq(Event)
  /\ batch \in Seq(Event)
  /\ wpc \in {"select", "emit"}
  /\ lastHash \in Nat
  /\ dropped \in Nat
  /\ writeErrs \in Nat
  /\ log \in Seq(Written)
  /\ state \in [hash : Nat, next : Nat]
  /\ created \in SUBSET Event
  /\ base \in [seq : Nat, len : Nat]
  /\ starts \in Nat

\* The log verifies from its first event to its last, whatever was dropped or
\* could not be written and however often the engine was shut down and
\* started: Config.StatePath is there "so the chain survives a restart".
ChainIntact == VerifyChain(log)

OnTheWay == Len(queue) + Len(buf) + Len(batch) + Cardinality(Holding)
Lost == dropped + writeErrs

\* No event of a process's life goes missing silently: each one is on the
\* log, on its way, or counted in dropped or writeErrs, which is what /healthz
\* and the metrics report.
LossesCounted ==
  up => seq - base.seq = (Len(log) - base.len) + (OnTheWay + Lost)

\* No two events on the log carry the same number, over restarts too.
NumbersUnique ==
  \A j, k \in 1 .. Len(log) : log[j].seq = log[k].seq => j = k

\* What holds of the log in every state (Writer): the four above.
LogSound == TypeOK /\ ChainIntact /\ LossesCounted /\ NumbersUnique

Quiet == queue = << >> /\ buf = << >> /\ batch = << >> /\ wpc = "select" /\ Holding = {}

\* Gaps and truncation count every event the first process lost, except those
\* before the first event written, provided goroutines did not overtake each
\* other between numbering and sending.
GapsCountLosses ==
  /\ up /\ Quiet /\ starts = 0 /\ log # << >>
  /\ \A k \in 2 .. Len(log) : log[k - 1].seq < log[k].seq
  => /\ Missing(log) + Truncated(log, seq) + (log[1].seq - 1) = Cardinality(created) - Len(log)
     /\ Complete(log, seq) <=> Cardinality(created) - Len(log) = log[1].seq - 1

\* The event is on its way to the log.
InFlight(e) ==
  \/ \E g \in Loggers : hold[g] = e
  \/ \E k \in 1 .. Len(queue) : queue[k] = e
  \/ \E k \in 1 .. Len(buf) : buf[k] = e
  \/ \E k \in 1 .. Len(batch) : batch[k] = e

\* With BlockOnFull and a working sink, every event reaches the log unless
\* the engine shuts down meanwhile: no goroutine waits on the channel for
\* ever and no buffered event waits for the next one.
EventuallyLogged ==
  \A n \in 1 .. MaxEvents :
    (conf.block /\ conf.faults = {} /\ \E e \in created : e.id = n /\ InFlight(e))
      ~> (closed \/ \E k \in 1 .. Len(log) : log[k].id = n)
==========================================================================
