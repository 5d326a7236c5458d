------------------------------- MODULE Engine -------------------------------
(***************************************************************************)
(* Parts of the engine and of what runs beside it on a developer's machine.*)
(* A behaviour is one of                                                   *)
(*   "queue"     the review queue in the process and in SQLite,            *)
(*   "oauth"     the OAuth server for MCP clients,                         *)
(*   "vault"     one credential of the OAuth token vault,                  *)
(*   "tokens"    agent tokens and the dependency fallback,                 *)
(*   "launcher"  the MCP servers that start a local engine, and its        *)
(*               clients,                                                  *)
(*   "hooks"     the Claude Code plugin: hooks and the daemon they ask.    *)
(* Only the chosen part moves.  The queue and the credentials rest at their*)
(* start in the others; the variables of the launcher and of the plugin    *)
(* are 0 when it is not theirs.                                            *)
(***************************************************************************)
EXTENDS LocalReviewQueue, Credentials, FiniteSets

CONSTANTS NoOne,
          \* LocalEngine
          Launchers, Ports, LocalClients, MaxStarts,
          \* HookDaemon
          HookSlots, Daemons, ToolCalls, NoKey, RepeatThreshold, WindowSeconds,
          MaxToolCalls, HookHorizon

VARIABLES
  part,
  keyFile, made, cached, record, mcp, started, starting, serving, closing, contested, left, sdk,
  socket, daemon, hook, modeFile, clock, letPass, prompted, toolCalls

Launcher == INSTANCE LocalEngine WITH Clients <- LocalClients, client <- sdk
Hooks == INSTANCE HookDaemon
  WITH Hooks <- HookSlots, Requests <- ToolCalls, MaxCalls <- MaxToolCalls,
       Horizon <- HookHorizon, None <- NoOne,
       mode <- modeFile, now <- clock, passed <- letPass, calls <- toolCalls

\* Absence is told from every value.  A threshold of no repetition would stop
\* every call, whatever is counted.
ASSUME EngineAssumption ==
  /\ MaxStarts \in Nat
  /\ NoOne \notin Ports \cup Launcher!Pids \cup Launcher!Keys \cup Daemons \cup {"whole", "damaged"}
  /\ NoOne \notin [pid : Launcher!Pids, port : Ports]
  /\ ToolCalls \subseteq [key : {r.key : r \in ToolCalls}, tier1 : {"allow", "ask", "deny"},
                          hookify : {"allow", "ask", "deny"}]
  /\ RepeatThreshold \in Nat \ {0} /\ WindowSeconds \in Nat
  /\ MaxToolCalls \in Nat /\ HookHorizon \in Nat

launcherVars == <<keyFile, made, cached, record, mcp, started, starting, serving, closing,
                  contested, left, sdk>>
hooksVars == <<socket, daemon, hook, modeFile, clock, letPass, prompted, toolCalls>>
engineVars == <<part, vars, credentialVars, launcherVars, hooksVars>>
-----------------------------------------------------------------------------
NoLauncher == /\ keyFile = 0 /\ made = 0 /\ cached = 0 /\ record = 0 /\ mcp = 0
              /\ started = 0 /\ starting = 0 /\ serving = 0 /\ closing = 0
              /\ contested = 0 /\ left = 0 /\ sdk = 0
NoHooks == /\ socket = 0 /\ daemon = 0 /\ hook = 0 /\ modeFile = 0
           /\ clock = 0 /\ letPass = 0 /\ prompted = 0 /\ toolCalls = 0

\* What a part chooses at its start is chosen only when it moves.
EngineInit ==
  /\ part \in {"queue", "oauth", "vault", "tokens", "launcher", "hooks"}
  /\ Init /\ CredentialsInit
  /\ part # "oauth" => ~ fails
  /\ part # "tokens" => mode = "open"
  /\ IF part = "launcher" THEN Launcher!Init ELSE NoLauncher
  /\ IF part = "hooks" THEN Hooks!Init ELSE NoHooks

QueuePart == part = "queue" /\ Next /\ UNCHANGED <<part, credentialVars, launcherVars, hooksVars>>
OAuthPart == part = "oauth" /\ OAuthStep /\ UNCHANGED <<part, vars, launcherVars, hooksVars>>
VaultPart == part = "vault" /\ VaultStep /\ UNCHANGED <<part, vars, launcherVars, hooksVars>>
TokensPart == part = "tokens" /\ TokensStep /\ UNCHANGED <<part, vars, launcherVars, hooksVars>>
LauncherPart ==
  part = "launcher" /\ Launcher!Next /\ UNCHANGED <<part, vars, credentialVars, hooksVars>>
HooksPart ==
  part = "hooks" /\ Hooks!Next /\ UNCHANGED <<part, vars, credentialVars, launcherVars>>

EngineNext ==
  QueuePart \/ OAuthPart \/ VaultPart \/ TokensPart \/ LauncherPart \/ HooksPart
EngineSpec == EngineInit /\ [][EngineNext]_engineVars
-----------------------------------------------------------------------------
(* The properties are those of the parts; each is explained there.  Those   *)
(* of the queue (QueueKeeps, ImplementsLifecycle) and of the credentials    *)
(* (OAuthSafe, CredentialsSafe) hold while they rest, too.                  *)

\* Every variable has its type; in particular an engine is spawned with a port
\* and a key (LocalEngine, startLocalEngine).
PartTypeOK ==
  /\ TypeOK /\ CredentialsTypeOK
  /\ part = "launcher" => Launcher!TypeOK
  /\ part = "hooks" => Hooks!TypeOK

\* LocalEngine (local-engine.ts, local.ts): a damaged download never runs, an
\* engine stopped in good order is advertised no more, a client meets the
\* engine its record names unless that one closes or lost its port to a rival
\* before it listened, and sends the key of the engine it meets.
LauncherSafe ==
  part = "launcher" =>
    /\ Launcher!RunsWhole
    /\ Launcher!NoStaleAdvert
    /\ Launcher!MetTheRecorded /\ Launcher!KeyFits

\* HookDaemon (lelu-hook, lelu-daemon): a daemon lets no action repeat to the
\* threshold, asks once for the session budget, and what Claude Code is told
\* is what the ledger records and as strict as the rules.
HooksSafe ==
  part = "hooks" => Hooks!LoopsMet /\ Hooks!PromptedOnce /\ Hooks!ToldAsLogged
=============================================================================
