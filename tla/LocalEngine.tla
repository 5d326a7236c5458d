---------------------------- MODULE LocalEngine ----------------------------
(***************************************************************************)
(* The zero-configuration engine of `lelu-mcp start`                       *)
(* (sdk/mcp/src/local-engine.ts, cli.ts) and its discovery by the SDK      *)
(* (sdk/typescript/src/local.ts).  Launchers share the files of ~/.lelu:   *)
(* the engine binary, the API key and engine.json, the record of a running *)
(* engine.  Nothing locks these files: every read and every write is a     *)
(* step, a launcher may be killed between any two and its engine then     *)
(* lives on.  An engine is a process some time before it listens on its    *)
(* port and some time after it stopped listening, and may die at any time. *)
(***************************************************************************)
EXTENDS Naturals, FiniteSets

CONSTANTS Launchers, Ports, Clients, NoOne,
          MaxStarts   \* bound: starts of one launcher

\* A process, and the key it would generate; key 0 is from an earlier install.
Pids == Launchers \X (1..MaxStarts)
Keys == Launchers \X (0..MaxStarts)

VARIABLES
  keyFile,   \* engine.key: the key it holds, {} when it is missing or truncated
  made,      \* the keys generated so far
  cached,    \* the engine binary under bin/: missing, whole or damaged
  record,    \* engine.json: a process and its port
  mcp,       \* what each launcher is doing
  started,   \* the engines started so far, with their port and key
  starting,  \* the engine processes that do not listen yet
  serving,   \* the engine that listens on a port
  closing,   \* the engine processes that listen no more and finish their work
  contested,   \* history: the engines whose port was handed to another launcher
             \* before they listened on it
  left,      \* the engines that were advertised and then stopped in good order
  client     \* what each SDK client is doing

vars == <<keyFile, made, cached, record, mcp, started, starting, serving, closing, contested,
          left, client>>
files == <<keyFile, made, cached, record>>
engines == <<starting, serving, closing, contested>>

\* A signal 0 reaches a process that exists, whatever it listens on.
Alive(pid) == pid \in starting \cup closing \/ \E p \in Ports : serving[p] = pid
Down(pid) == [p \in Ports |-> IF serving[p] = pid THEN NoOne ELSE serving[p]]

Off(n) == [step |-> "off", n |-> n, bin |-> "todo", key |-> "todo", held |-> NoOne,
           port |-> NoOne, mine |-> FALSE, torn |-> FALSE]
Pid(l) == <<l, mcp[l].n>>

Init ==
  /\ keyFile \in {{}} \cup {{<<l, 0>>} : l \in Launchers}
  /\ made = keyFile
  /\ cached \in {NoOne, "whole"}
  /\ record = NoOne
  /\ mcp = [l \in Launchers |-> Off(0)]
  /\ started = {}
  /\ starting = {} /\ closing = {} /\ contested = {}
  /\ serving = [p \in Ports |-> NoOne]
  /\ left = {}
  /\ client = [c \in Clients |-> [step |-> "new", pid |-> NoOne, met |-> NoOne,
                              found |-> NoOne, key |-> NoOne]]

At(l, step) == mcp[l].step = step
Do(l, rec) == mcp' = [mcp EXCEPT ![l] = rec]

---------------------------------------------------------------------------
(* startLocalEngine: the binary, the policy and the key are seen to at the *)
(* same time; the starter policy touches nothing that is modelled here.    *)

startLocalEngine(l) ==
  /\ At(l, "off")
  /\ mcp[l].n < MaxStarts
  /\ Do(l, [Off(mcp[l].n + 1) EXCEPT !.step = "prepare"])
  /\ UNCHANGED <<files, started, engines, left, client>>

\* Without a cached binary one is downloaded; only a download whose checksum
\* is the published one is kept, under a name of its own.
resolveBinary(l) ==
  /\ mcp[l].bin = "todo" /\ At(l, "prepare")
  /\ IF cached # NoOne THEN Do(l, [mcp[l] EXCEPT !.bin = "done"])
       ELSE Do(l, [mcp[l] EXCEPT !.bin = "fetch"])
  /\ UNCHANGED <<files, started, engines, left, client>>

downloadEngine_NoChecksum(l) ==   \* whatever arrives is installed
  /\ mcp[l].bin = "fetch"
  /\ \E got \in {"whole", "damaged"} : cached' = got
  /\ Do(l, [mcp[l] EXCEPT !.bin = "done"])
  /\ UNCHANGED <<keyFile, made, record, started, engines, left, client>>
downloadEngine(l) ==
  /\ mcp[l].bin = "fetch"
  /\ \E got \in {"whole", "damaged", "nothing"} :
       Do(l, [mcp[l] EXCEPT !.bin = IF got = "whole" THEN "rename" ELSE "failed",
                            !.step = IF got = "whole" THEN @ ELSE "fallback"])
  /\ UNCHANGED <<files, started, engines, left, client>>

installEngine(l) ==
  /\ mcp[l].bin = "rename"
  /\ cached' = "whole"
  /\ Do(l, [mcp[l] EXCEPT !.bin = "done"])
  /\ UNCHANGED <<keyFile, made, record, started, engines, left, client>>

\* The key on disk is used; a missing or empty file gets a new one.  Writing
\* truncates the file first.
ensureLocalApiKey(l) ==
  /\ mcp[l].key = "todo" /\ mcp[l].step \in {"prepare", "fallback"}
  /\ IF keyFile # {}
       THEN /\ \E k \in keyFile : Do(l, [mcp[l] EXCEPT !.key = "done", !.held = k])
            /\ UNCHANGED made
       ELSE /\ Do(l, [mcp[l] EXCEPT !.key = "truncate", !.held = Pid(l)])
            /\ made' = made \cup {Pid(l)}
  /\ UNCHANGED <<keyFile, cached, record, started, engines, left, client>>

truncateKey(l) ==
  /\ mcp[l].key = "truncate"
  /\ keyFile' = {}
  /\ Do(l, [mcp[l] EXCEPT !.key = "write"])
  /\ UNCHANGED <<made, cached, record, started, engines, left, client>>

writeKey_Lost(l) ==   \* the new key is used and not kept
  /\ mcp[l].key = "write"
  /\ Do(l, [mcp[l] EXCEPT !.key = "done"])
  /\ UNCHANGED <<files, started, engines, left, client>>
writeKey(l) ==
  /\ mcp[l].key = "write"
  /\ keyFile' = {mcp[l].held}
  /\ Do(l, [mcp[l] EXCEPT !.key = "done"])
  /\ UNCHANGED <<made, cached, record, started, engines, left, client>>

\* The port is meant for this process, which does not listen on it yet.
Pending(pid, p) ==
  \/ \E l \in Launchers : At(l, "spawn") /\ pid = Pid(l) /\ mcp[l].port = p
  \/ pid \in starting /\ \E e \in started : e.pid = pid /\ e.port = p
Rivals(p) == {pid \in Pids : Pending(pid, p)}

TakePort(l, p) ==
  /\ serving[p] = NoOne
  /\ Do(l, [mcp[l] EXCEPT !.step = "spawn", !.port = p])
  /\ contested' = IF Rivals(p) = {} THEN contested ELSE contested \cup Rivals(p) \cup {Pid(l)}
  /\ UNCHANGED <<files, started, starting, serving, closing, left, client>>

freePort_Early(l) ==   \* the key is not waited for
  /\ At(l, "prepare") /\ mcp[l].bin = "done"
  /\ \E p \in Ports : TakePort(l, p)
\* A free port is found by binding it, and released again before the engine
\* is spawned: until the engine listens, the port is free for another launcher.
freePort(l) ==
  /\ At(l, "prepare") /\ mcp[l].bin = "done" /\ mcp[l].key = "done"
  /\ \E p \in Ports : TakePort(l, p)

\* The process exists from here on.
spawnEngine(l) ==
  /\ At(l, "spawn")
  /\ started' = started \cup {[pid |-> Pid(l), port |-> mcp[l].port, key |-> mcp[l].held,
                               bin |-> cached]}
  /\ starting' = starting \cup {Pid(l)}
  /\ Do(l, [mcp[l] EXCEPT !.step = "health"])
  /\ UNCHANGED <<files, serving, closing, contested, left, client>>

waitHealthy_Skip(l) ==   \* the engine is taken for healthy once it is started
  /\ At(l, "health")
  /\ Do(l, [mcp[l] EXCEPT !.step = "advertise"])
  /\ UNCHANGED <<files, started, engines, left, client>>
\* Whoever listens on the port answers /healthz; that the engine has exited is
\* known only once its exit event came.
waitHealthy(l) ==
  /\ At(l, "health")
  /\ serving[mcp[l].port] # NoOne
  /\ Do(l, [mcp[l] EXCEPT !.step = "advertise"])
  /\ UNCHANGED <<files, started, engines, left, client>>

\* The engine's exit is noticed, or 15 s pass: it is stopped.
unhealthy(l) ==
  /\ At(l, "health")
  /\ Do(l, [mcp[l] EXCEPT !.step = "stop"])
  /\ UNCHANGED <<files, started, engines, left, client>>

writeRuntimeFile(l) ==
  /\ At(l, "advertise")
  /\ record' = [pid |-> Pid(l), port |-> mcp[l].port]
  /\ Do(l, [mcp[l] EXCEPT !.step = "running"])
  /\ UNCHANGED <<keyFile, made, cached, started, engines, left, client>>

---------------------------------------------------------------------------
(* stop: the record is read, removed when it is the launcher's own, and    *)
(* the engine is told to go.                                               *)

\* A signal may come while the record is being written.
stop(l) ==
  /\ At(l, "running") \/ At(l, "advertise")
  /\ Do(l, [mcp[l] EXCEPT !.step = "stop", !.torn = At(l, "advertise")])
  /\ UNCHANGED <<files, started, engines, left, client>>

readOwnRecord(l) ==
  /\ At(l, "stop")
  /\ Do(l, [mcp[l] EXCEPT !.step = "remove", !.mine = record # NoOne /\ record.pid = Pid(l)])
  /\ UNCHANGED <<files, started, engines, left, client>>

\* The engine is signalled; when it stops listening and exits is its own affair.
Leave(l) ==
  /\ left' = IF mcp[l].torn THEN left ELSE left \cup {Pid(l)}
  /\ Do(l, Off(mcp[l].n))
  /\ UNCHANGED <<keyFile, made, cached, started, engines, client>>

removeRuntimeFile_Keep(l) ==   \* the record stays
  At(l, "remove") /\ Leave(l) /\ UNCHANGED record
\* The unlink does not look at the record again; a write that was under way
\* may still land.
removeRuntimeFile(l) ==
  /\ At(l, "remove")
  /\ \/ record' = IF mcp[l].mine THEN NoOne ELSE record
     \/ mcp[l].torn /\ record' = [pid |-> Pid(l), port |-> mcp[l].port]
  /\ Leave(l)

\* The launcher is killed: no handler runs, and its engine lives on.
Kill(l) ==
  /\ ~ At(l, "off")
  /\ Do(l, Off(mcp[l].n))
  /\ UNCHANGED <<files, started, engines, left, client>>

---------------------------------------------------------------------------
(* The engine process (engine/cmd/engine/main.go)                           *)

\* It listens on its port last of all, or exits because another took it.
ListenAndServe(e) ==
  /\ e.pid \in starting
  /\ serving' = IF serving[e.port] = NoOne THEN [serving EXCEPT ![e.port] = e.pid] ELSE serving
  /\ starting' = starting \ {e.pid}
  /\ UNCHANGED <<files, mcp, started, closing, contested, left, client>>

\* A signal, of its launcher or of anybody, closes the listener, or keeps it
\* from opening; requests under way and the audit log are finished first.
Shutdown(pid) ==
  /\ Alive(pid) /\ pid \notin closing
  /\ starting' = starting \ {pid}
  /\ serving' = Down(pid)
  /\ closing' = closing \cup {pid}
  /\ UNCHANGED <<files, mcp, started, contested, left, client>>

\* It has finished, failed or was killed.
Exit(pid) ==
  /\ Alive(pid)
  /\ starting' = starting \ {pid}
  /\ serving' = Down(pid)
  /\ closing' = closing \ {pid}
  /\ UNCHANGED <<files, mcp, started, contested, left, client>>

---------------------------------------------------------------------------
(* discoverLocalEngine, run by the constructor of LeluClient.              *)

\* The url is the recorded one, whoever listens there; how far the recorded
\* process is nobody asks.
Found(c) ==
  client' = [client EXCEPT ![c] =
    [step |-> "key", pid |-> record.pid, met |-> serving[record.port], key |-> NoOne,
     found |-> IF record.pid \in starting THEN "starting"
               ELSE IF record.pid \in closing THEN "closing" ELSE "listening"]]

discoverLocalEngine_Trusting(c) ==   \* the process is not looked for
  /\ client[c].step = "new" /\ record # NoOne
  /\ Found(c)
  /\ UNCHANGED <<files, mcp, started, engines, left>>
\* The record counts only while its process lives.
discoverLocalEngine(c) ==
  /\ client[c].step = "new" /\ record # NoOne
  /\ Alive(record.pid)
  /\ Found(c)
  /\ UNCHANGED <<files, mcp, started, engines, left>>

readKey(c) ==
  /\ client[c].step = "key"
  /\ \E k \in IF keyFile = {} THEN {NoOne} ELSE keyFile :
       client' = [client EXCEPT ![c].step = "ready", ![c].key = k]
  /\ UNCHANGED <<files, mcp, started, engines, left>>

Next ==
  \/ \E l \in Launchers :
       \/ startLocalEngine(l) \/ resolveBinary(l) \/ downloadEngine(l) \/ installEngine(l)
       \/ ensureLocalApiKey(l) \/ truncateKey(l) \/ writeKey(l)
       \/ freePort(l) \/ spawnEngine(l) \/ waitHealthy(l) \/ unhealthy(l) \/ writeRuntimeFile(l)
       \/ stop(l) \/ readOwnRecord(l) \/ removeRuntimeFile(l) \/ Kill(l)
  \/ \E e \in started : ListenAndServe(e)
  \/ \E pid \in Pids : Shutdown(pid) \/ Exit(pid)
  \/ \E c \in Clients : discoverLocalEngine(c) \/ readKey(c)

Spec == Init /\ [][Next]_vars
---------------------------------------------------------------------------
Prepared == {"spawn", "health", "advertise", "running"}

\* Every variable has its type, and an engine is spawned with a port and a key.
TypeOK ==
  /\ keyFile \subseteq Keys /\ Cardinality(keyFile) <= 1 /\ made \subseteq Keys
  /\ cached \in {NoOne, "whole", "damaged"}
  /\ record # NoOne => record \in [pid : Pids, port : Ports]
  /\ \A l \in Launchers :
       /\ mcp[l].step \in Prepared \cup {"off", "prepare", "fallback", "stop", "remove"}
       /\ mcp[l].n \in 0..MaxStarts
       /\ mcp[l].bin \in {"todo", "fetch", "rename", "done", "failed"}
       /\ mcp[l].key \in {"todo", "truncate", "write", "done"}
       /\ mcp[l].held \in Keys \cup {NoOne} /\ mcp[l].port \in Ports \cup {NoOne}
       /\ mcp[l].step \in Prepared => mcp[l].held \in Keys /\ mcp[l].port \in Ports
  /\ \A e \in started : e.pid \in Pids /\ e.port \in Ports /\ e.key \in Keys
  /\ starting \subseteq Pids /\ closing \subseteq Pids /\ contested \subseteq Pids
  /\ \A p \in Ports : serving[p] \in Pids \cup {NoOne}
  /\ left \subseteq Pids
  /\ \A c \in Clients : /\ client[c].step \in {"new", "key", "ready"}
                       /\ client[c].pid \in Pids \cup {NoOne}
                       /\ client[c].met \in Pids \cup {NoOne}
                       /\ client[c].found \in {NoOne, "starting", "listening", "closing"}
                       /\ client[c].key \in Keys \cup {NoOne}

\* No engine runs from a binary that is incomplete or is not the published
\* one, although launchers download and install it at the same time and may be
\* killed in between (downloadEngine, resolveBinary).
RunsWhole == \A e \in started : e.bin = "whole"

\* An engine that was stopped in good order is advertised no more, although
\* other launchers rewrite and remove the same record (removeRuntimeFile).
NoStaleAdvert == record # NoOne => record.pid \notin left

\* A client that finds a recorded process alive is sent to that process, with
\* two exceptions: the process had closed its listener, or it was not listening
\* yet and another launcher had been handed its port meanwhile, so that the
\* rival's engine answered the health check in its place (freePort, waitHealthy,
\* writeRuntimeFile, discoverLocalEngine).
MetTheRecorded ==
  \A c \in Clients : client[c].step # "new" /\ client[c].met # client[c].pid =>
    \/ client[c].found = "closing"
    \/ client[c].found = "starting" /\ client[c].pid \in contested

\* A client sends the key that the engine it meets, and the one its record
\* names, were started with, unless two launchers each generated one on the
\* first run (ensureLocalApiKey, discoverLocalEngine).
KeyFits ==
  Cardinality(made) <= 1 =>
    \A c \in Clients : \A e \in started :
      client[c].step = "ready" /\ e.pid \in {client[c].met, client[c].pid} => client[c].key = e.key
============================================================================
