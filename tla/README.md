# A TLA+ verification of Lelu

Lelu is an authorization engine for AI agents.  An agent asks before it acts;
the engine answers *allow*, *read-only*, *ask a human* or *deny*, keeps the
items that wait for a human, and writes an audit log that can be verified later.
Around it are SDKs whose gates run or hold a tool, a hosted platform with
accounts, keys, quota and a dashboard, a launcher that starts an engine on a
developer's machine, and a Claude Code plugin with a small daemon of its own.
This directory holds TLA+ models of the stateful parts, TLC configurations that
check them on small instances, and TLAPS proofs of nearly all the safety
properties of the engine and its launcher, the SDK's gates, the plugin and the hosted
platform for every instance.

Paths below are relative to the repository's root (`engine/` is the Go engine,
`platform/ui/` the hosted platform, `sdk/` the SDKs and the MCP server).

Contents: [inventory](#1-inventory), [modules and code](#2-modules-and-code),
[runs](#3-runs), [fairness](#4-fairness), [proofs](#5-proofs),
[disagreements found and known limits](#6-disagreements-found-and-known-limits),
[what is not modelled](#7-what-is-not-modelled), [plan](#8-plan),
[how to run](#9-how-to-run).

## 1. Inventory

### The parts, their state and operations

| Part | Source | State | Operations | What makes it correct |
|---|---|---|---|---|
| Review queue | `engine/internal/queue/queue.go` | Redis keys (payload, index, two locks, stream), or a map with a SQLite table | enqueue, get, list, resolve, redeem | an item is decided once, an approval is redeemed once for its own payload, nothing that waits is hidden |
| Audit writer, verifier | `engine/internal/audit/audit.go` | counter, bounded channel, flush buffer, last hash, state file | Log, flush, Close, New; VerifyChain, SeqGaps, Complete | the chain verifies, every event is written or counted as lost |
| Decision pipeline | `engine/internal/server/server.go` | none of its own; reads and feeds the caches and the queue | POST /v1/agent/authorize | a denial by policy is final, destructive actions always meet a human |
| Risk model, gate | `engine/internal/server/risk.go`, `confidence/` | thresholds | evaluate | more critical is never treated more mildly |
| Reputation cache, anomaly tracker | `risk.go`, `server.go` | LRU with trusted set; denial times per agent | reliability, record; currentCount, record | forgetting never makes an agent look clean, live denials are not displaced |
| Policy evaluator | `engine/internal/evaluator/` | the loaded policy and its digest | EvaluateAgent | the order of the rules and checks |
| Policy replacement | `server.go` (`handlePolicyPut`), `sync/sync.go`, `platform/ui/lib/policy-sync.ts` | live policy, file, mutex, worker's ETag, dashboard table | PUT, poll, crash, restart | what is enforced is what a restart loads; a published policy arrives |
| Agent tokens, fallback | `engine/internal/tokens`, `fallback` | Redis, in-memory cache, health flag | mint, validate, revoke, record success or failure | revoked means revoked unless the fallback says otherwise |
| MCP OAuth server | `engine/internal/mcpauth/server.go` | clients, codes, refresh tokens | register, authorize, the three grants, revoke, introspect | a used or revoked grant yields nothing, scopes never grow |
| OAuth vault | `engine/internal/vault/` | encrypted credentials | store, get with refresh, revoke | a refresh keeps what was stored last |
| SDK gates, waiting client | `sdk/typescript/src`, `sdk/mcp/src/server.ts` | the held call, its review item | eight gates, waitForApproval, waitAndRedeem | a tool runs only as the answer grants, once for an approval; a wait ends |
| Local engine | `sdk/mcp/src/local-engine.ts`, `sdk/typescript/src/local.ts` | key file, binary, `engine.json`, processes, ports | start, stop, discover | only a checked binary runs; a client meets the advertised engine with its key |
| Claude Code plugin | `plugin-claude-code/daemon` | socket file, daemon processes, loop history, budget flag, mode file, ledger | hook: dial, spawn, give up; daemon: Decide | a runaway action is met, one prompt a session, what is told is what is logged |
| Accounts | `platform/ui/lib/auth.ts`, `app/api/auth/` | users, linked accounts, link tokens, sessions | register, mail and consume links, log in, OAuth | an address counts as verified for a reason only |
| Cloud gateway | `app/api/v1/authorize`, `lib/quota.ts`, `lib/apikeys.ts`, `lib/audit.ts` | keys, plan, audit rows of the month | check key, check quota, forward, log | usage is metered, overshoot is bounded by the calls that overlap |
| Billing | `app/api/billing/` | plan and customer of a user | checkout, webhook | once the events are in, the plan follows the subscription |
| Policy editor | `app/policies/page.tsx`, `lib/policies.ts`, `lib/policy-sync.ts` | the page's list, the table, the engine's rules | create, edit, toggle, delete, test, push | the page shows the table, the engine follows the page |
| Key, dashboard and agent pages | `app/api-key`, `app/dashboard`, `app/agents` | each page's rows, the secret on screen | load, create, revoke, suspend | a new secret is not taken off the screen by another answer, a row shown as revoked stays so, a confirmation is about a live row |
| Policy safety | `app/policies/safety`, `app/api/simulator` | draft, traces, result | simulate, review, apply | the simulator decides as the engine, what is applied was reviewed |
| Fallback rules | `app/api/v1/authorize`, `app/api/sandbox/authorize` | none | evaluate a tool name | no rule hides a stricter one, and the copies agree (the sandbox's does neither for some exports, section 6) |
| Playground | `app/sandbox/page.tsx` | form, address bar, requests, history | type, send, open a scenario | form and link settle and agree |
| Non-human identities | `app/nhi/page.tsx`, `lib/nhi-scoring.ts` | the scored rows | scan, retire | the level is that of the worst finding |

Parts that are not modelled are listed in `PROJECT.json` with the reason, and in
[section 7](#7-what-is-not-modelled).

### How they interact

A request to `/v1/agent/authorize` passes the rate limiter, the injection filter
and the shadow-agent detector, then the pipeline: it reads the reputation cache
and the anomaly tracker, evaluates the policy, the gate and the risk model, takes
the most restrictive outcome, records the outcome in the reputation cache, puts
a review item on the queue, answers, and records a denial in the tracker.  Every
decision is logged through the audit writer.  A gate of the SDK turns the answer
into running the tool, holding it, redirecting or refusing it.  A human resolves
the item over the dashboard; the client polls for the decision and redeems it
with the request it is about to run.  The policy the pipeline reads can be
replaced under it at any time by a PUT (which the dashboard's policy editor sends
after every change of its table), by the sync worker or by a restart.

Hosted users come in through the platform's gateway, which checks the key and
the month's quota against the rows it writes after each answer; the plan behind
the quota is what Stripe's webhooks last set.  On a developer's machine the MCP
server launches an engine and the SDK discovers it through a file; Claude Code's
hook asks the plugin's daemon over a socket and starts it when nobody listens.

### What is hard

- *Interleavings of replicas and handlers*: an operation is several Redis
  commands, SQL statements or lock sections, and hardly any are in transactions.
- *Lost replies and partial failures*: a command that was executed and reported
  as failed; a compensation that fails for the same reason as the step it undoes.
- *Crash and restart*: between a write and the state that describes it (audit
  chain, policy file, SQLite write-through, the launcher's record).
- *Answers that arrive late*: the pages send, change their copy and apply answers
  in whatever order they come.
- *Bounded resources*: a full audit channel, full reputation and anomaly caches.
- *Checks made before a lock*: If-Match, expiry, the health flag, quota, OAuth codes.
- *Clocks and timers*: expiry computed when an item is read, keys with different
  TTLs, a long poll against the server's write timeout.
- *Processes that find each other through files*: a socket, a key file, a record.
- *Order of checks* in the evaluator, in eight gates and in first-match rule lists.

`PROJECT.json` lists the hazards with their lines and the properties that cover
each.

## 2. Modules and code

The `map` in `PROJECT.json` gives the source lines of every definition that
models code.  Definitions named `X_Something` directly above `X` are *mutants*:
plausible bugs in the code behind `X`, each of which makes a property fail.

### The review queue

`ReviewLifecycle` is the abstract specification: an item is submitted, decided
once, and an approval is spent once.  Two detailed specifications implement it.

`RedisReviewQueue` is the queue on Redis.  One Redis command is one action.

| State | Code |
|---|---|
| `payload` | `lelu:review:pending:<id>` with status, times, TTL and bound fingerprint |
| `index` | the sorted set `lelu:review:pending-index` |
| `resolveLock`, `redeemLock` | the `SET NX EX` keys, as the instant they disappear |
| `call` | the local variables of each HTTP handler, over all replicas |
| `hist` | what callers were told; history, never read |

| Actions | Code |
|---|---|
| `EnqueueSet`, `EnqueueZAdd`, `EnqueueXAdd` | `EnqueueRequest` |
| `ResolveGet`, `ResolveClaim`, `ResolveStore`, `ResolveRelease`, `ResolveUnlist` | `resolve` |
| `RedeemGet`, `claimRedemption` | `Redeem`, `claimRedemption` |
| `ListRange`, `fetchIndexed`, `ListTrim` | `ListPendingPage`, `fetchIndexed` |
| `Crash`, `Tick` | a replica dies; time passes |

Each behaviour has a set of faults: commands *refused* (not executed), replies
*lost* (executed, reported as an error), *crash*.  Properties that the code
cannot keep when replies are lost say so (`"lost" \notin faults`), and the
comments explain the behaviour that breaks them.

`LocalReviewQueue` is the same queue as a mutex-protected map written through to
SQLite.  `set`, `resolveIfPending` and `markRedeemed` run under the mutex and are
one action each; `Redeem` checks a copy and locks again, which is two.  SQLite
writes may fail (then the map is rolled back), the engine may stop anywhere, and
`load` drops resolved rows that are past their retention.

### The audit log

`AuditWriter` has the two steps of `Log` (`Assign` takes a number, `Send` puts the
event on the channel or drops it), the flush goroutine (`Receive`, `Flush`, `Emit`
event by event, `persist`), and `Close`, `Stop` and `New`.  An event's identity
stands for its content and its chain hash.  `conf` holds `BlockOnFull` and the
faults.  `AuditVerifier` has `VerifyChain`, `SeqGaps`, `Truncated` and `Complete`
as operators on a written log.

### The decision pipeline

`AgentDecision` composes `ActorStats`, `AnomalyTracker`, `PolicyEvaluator` and
`RiskModel`.  A handler takes the locks of the caches one after the other, and so
a request is several steps: `Receive` (look up the reputation), `Count` (read the
denial count, merge the three outcomes), `Record` (reputation and review item),
`Answer` (shadow mode, anomaly record); a request without a confidence score goes
`Receive`, `Missing`.

Confidences, criticalities and thresholds are integers in hundredths and a
reliability is a pair of counts, so scores are compared exactly, by cross
multiplication.  A policy is a record of rules, scopes and roles whose patterns
are the sets of names they match.  The calibrator and the SQLite reputation
manager are any members of given sets.

### Replacing the policy

`PolicyStore` has the dashboard's push (`Edit`, `listPolicies`, `handlePolicyGet`,
`Refetch`), the handler of PUT (`CheckIfMatch`, `LockAndProbe`,
`atomicWritePolicy`, `Swap`), the sync worker (`poll`, `Load`), the control plane
(`Release`), and `Crash` and `Restart`.  A policy stands for its text, its digest
and its ETag.  An engine has a policy file for PUT, a control plane to poll, or
both; whether the policy directory is writable and whether the control plane
sends ETags are chosen in the initial state.

### The engine's credentials, the launcher and the plugin

| Module | One step is | State |
|---|---|---|
| `OAuthServer` | one SQL statement of a handler | `client`, `code`, `token` are the three tables (with what was deleted), `call` the handlers' locals; `fails` lets statements fail whose errors the code ignores |
| `CredentialVault` | one SQL statement, or the exchange with the provider | `row` is the credential of one (agent, user, provider); an access token is the Store it descends from and the number of refreshes since |
| `AgentTokens` | one Redis command, one lock section of the strategy or of the cache | `redis`, `memory`, `healthy`, `mode`, and `passed`: a call was let through although Redis failed |
| `LocalEngine` | one read or write of a file, one system call | the files of `~/.lelu`, each launcher's step, each client's step; the engine processes: `starting` (spawned, not listening yet), `serving` (who listens on each port), `closing` (the listener is closed, the process still there), and the history `contested` of processes whose port was handed to a rival before they listened |
| `HookDaemon` | one dial, one read of a file or one lock section | `socket` (whose bind the socket file is), `daemon` (life, loop history as a set of events, budget flag), `hook` (a hook process and the goroutine that serves it), `mode` |

`AgentTokens` follows `MintAgentToken`, `ValidateToken` and `RevokeToken` through
`Command`, then `RecordSuccess` or `RecordFailure` and `ShouldAllow`, then
`InMemory`.  `Credentials` has the OAuth server, the vault and the agent tokens side by
side.  `HookDaemon` follows `askDaemon` (`Dial`, `DialRefused`, which spawns
at most once, `GiveUp`), a daemon's start (`RemoveSocket`, `Listen`) and death, and
`Engine.Decide` (`Decide`, `Check`, `Budget`, `Flag`, `Reply`, or `Panic`).

### The gates of the SDK

`ToolGuard` composes the engine's answer, a gate and those who resume a held call.
`Answers` are the combinations of flags that the engine's code sends: `Decided` for each
of its four outcomes with or without the policy's redirect (a read-only one is sent with
compute), `Enforced` with the denial without a confidence signal that says
it was downgraded, and what `applyShadowMode` makes of each of them.  Each gate
is an operator from an answer to a reaction (`secureTool` for Vercel, `SecureTool` for
LangChain, `secureNode` for LangGraph, `leluAuthorize` for Express, `decide` for
Strands with its three settings, `agentDecisionStatus` for MCP), in the order in which
the gate tests the flags.  A resumer polls
(`waitForApproval`, with a hard abort), redeems (`handleQueueRedeem`), may lose the
reply and start again, and may present another request than the reviewed one.
`Tick` moves the clocks of the polls, and `WriteTimeout` is the engine's.

### The platform

| Module | One step is | What interleaves |
|---|---|---|
| `Accounts` | one SQL statement, mail or provider call of a route | two routes, on the same address or not; statements whose answer is lost; links that expire |
| `CloudGateway` | one await of the authorize route | calls, revocations, plan changes, the month's end, the row written after the answer |
| `Billing` | one route call, one event delivered | Stripe's events, in any order and repeated until answered |
| `PolicyEditor` | sending, serving or receiving a request; listing and putting of a push | requests of one page, pushes of several writes |
| `ResourcePages` | sending, serving or applying a request | loads, creates, revokes and the user's clicks on three pages |
| `PolicySafety` | a click, an answer of the simulator | editing while a simulation runs |
| `Playground` | typing, a completed navigation, an answer | the two effects between form and address bar |
| `NHIInventory` | an answer of one of two fetches, a change of a row | scans and changes |
| `RuleSets` | a word more in a tool name | nothing; a table of two rule lists |

`PolicyEditor` and `PolicySafety` take the engine's decision from `PolicyEvaluator`,
and `Playground` takes the fallback from `RuleSets`, so that the copies are compared
with what they copy.

### The suites

`MCHeldCalls`, `MCEngine` and `MCPlatform` check several parts in one run.  A
variable `part` is chosen in the initial state and only that part has steps, so the
state spaces add up and do not multiply; the parts share no state in the code
either, except where a module above composes them.  `MCEngine` and `MCPlatform`
only give values to the constants of `Engine` and `Platform`, which have the parts side by
side for any values, so that the run and the proofs are about one specification.

`Engine` extends `LocalReviewQueue` and `Credentials`, whose variables rest at their start
when another part moves, so that their invariants need no condition; the launcher and
the plugin are instances, whose variables are 0 when it is not theirs (the launcher's
clients are `sdk`, the plugin's clock is `clock`, its mode file `modeFile`).

In `Platform` every one of the nine parts has variables of its own (billing's plan is `tier`, the
editor's table `policies`, its page `shown`, its requests `asks`); those of the parts
that are not there are 0 throughout.  The invariants are conjunctions `part = "x" =>
...` of properties that are defined and explained in the parts' modules.

## 3. Runs

*Passing* runs check that the properties hold.  *Violation* runs check a
statement that a comment of the repository makes and the code does not keep;
section 6 explains each.

| Run | Configuration, module | Expected | Distinct states | Properties |
|---|---|---|---|---|
| `redis_queue` | `RedisQueue.cfg`, `MCRedisReviewQueue` | pass | 997 042 | `TypeOK`, `OneWinner`, `RedeemSound`, `ListedUntilDecided`, `DecidedInTime`, `ImplementsLifecycle` |
| `engine` | `Engine.cfg`, `MCEngine` | pass | 945 584 | `PartTypeOK`, `QueueKeeps`, `LauncherSafe`, `OAuthSafe`, `CredentialsSafe`, `HooksSafe`, `ImplementsLifecycle` |
| `audit_writer` | `AuditWriter.cfg`, `MCAuditWriter` | pass | 45 921 | `LogSound`, `GapsCountLosses`, `EventuallyLogged` |
| `held_calls` | `HeldCalls.cfg`, `MCHeldCalls` | pass | 248 613 | `TypeOK`, `RunsAsAnswered`, `RedemptionSound`, `WaitEnds`, `ClaimDecides` |
| `platform` | `Platform.cfg`, `MCPlatform` | pass | 981 766 | `PartTypeOK`, `UsageMetered`, `AccountsHold`, `PlanFollowsSubscription`, `EditorTruthful`, `PagesTruthful`, `SimulatorsAgree`, `WorstFirst`, `PagesKeep`, `FormFollowsLink` |
| `decision` | `Decision.cfg`, `MCAgentDecision` | pass | 489 190 | `TypeOK`, `DenialSticks`, `DenyIsFinal`, `SilenceNeverHelps`, `RiskSound`, `LiveDenialsKept` |
| `policy_store` | `PolicyStore.cfg`, `MCPolicyStore` | pass | 561 032 | `TypeOK`, `LiveSurvivesRestart`, `SyncCatchesUp` |
| `decision_loosens` | `DecisionLoosens.cfg`, `MCAgentDecision` | violation | – | `PolicyDenyStands` |
| `policy_lost_update` | `PolicyLostUpdate.cfg`, `MCPolicyStore` | violation | – | `NoLostUpdate` |
| `policy_preview` | `PolicyPreview.cfg`, `MCPlatform` | violation | – | `DecisionsMatch` |
| `sdk_downgrade` | `ToolGuardDowngrade.cfg`, `MCHeldCalls` | violation | – | `DowngradeHonoured` |
| `sdk_throws` | `ToolGuardThrows.cfg`, `MCHeldCalls` | violation | – | `WaitAnswers` |

`CHECK_DEADLOCK FALSE` is set everywhere because the models end when their
clocks, requests or edits are used up.  That nobody waits for ever is the
business of the liveness properties.

Several properties are conjunctions of properties of one subject:

| Property | Conjuncts |
|---|---|
| `QueueKeeps` | `MemoryMatchesDisk`, `DecisionSurvives`, `RedeemSound` (`LocalReviewQueue`) |
| `LauncherSafe` | `RunsWhole`, `NoStaleAdvert`, `MetTheRecorded`, `KeyFits` |
| `OAuthSafe` | `GrantsOnce`, `RevokedInert`, `WithinCeiling` |
| `CredentialsSafe` | `LastWriterKept`, `AnswersFresh` (vault), `MemoryForgets`, `RevokedRefused` (tokens) |
| `HooksSafe` | `LoopsMet`, `PromptedOnce`, `ToldAsLogged` |
| `LogSound` | `TypeOK`, `ChainIntact`, `LossesCounted`, `NumbersUnique` |
| `RunsAsAnswered`, `RedemptionSound` | `RunIsGranted`, `CleanAllowOnly`; `SpentOnce`, `ApprovalBinds` |
| `RiskSound` | `NeverAutoAllowed`, `CriticalityMonotone` |
| `AccountsHold` | `VerifiedForAReason`, `PasswordLoginVerified`, `OneLiveLink`, `SameAccountSameUser`, `RegisteredOnce` |
| `UsageMetered` | `OvershootBounded`, `UsageAccounted` |
| `EditorTruthful` | `PageShowsTable`, `PageOrderDecides`, `TestPredictsPlain` |
| `PagesTruthful`, `PagesKeep` | `ActsOnActive`, `CreatedListed`; `KeepsRevoked`, `KeepsSecret` (steps) |
| `SimulatorsAgree` | `SimulationAgrees`, `BlastCounts`, `AppliedAsReviewed` (safety), `StrictestWins` (public list), `StrictestButExports` (sandbox list), `FallbackDiffers` (rules) |
| `FormFollowsLink` | `Settles`, `ClearsChip`, `LinkIsForm` (steps) |
| `WorstFirst` | `LevelIsWorst`, `RiskiestFirst` |

### What the passing runs show, and why the bounds are enough

**`redis_queue`.**  Three handlers work on one item.  Items do not interact (every
key has the item's ID, and a listing's page is a set of entries), so one item is
enough; three handlers allow a winner, a loser and a listing, redeemer or second
loser at once.  The periods are the smallest that satisfy `PeriodsAssumption`
with all of them different: an item can expire, an approval can time out, and
`Horizon` reaches the end of the locks' TTL.  Both regimes of faults are run.
Shown: one reviewer is told that the decision was applied and that decision is
stored (`OneWinner`); an approval is redeemed once and for its own fingerprint even
when replies are lost (`RedeemSound`); clean-up of the index never hides a waiting
item (`ListedUntilDecided`); a decision can be stored at most one call after the item
expired (`DecidedInTime`); and the queue implements `ReviewLifecycle`.

**`engine`.**  *Queue*: two items and two redeemers, a clock that passes expiry,
approval and retention, failed writes and any number of restarts; memory and
database agree whenever the engine runs, decisions and redemptions survive, and the
queue implements `ReviewLifecycle`.  *Launcher*: two launchers that start once each,
two ports, one client; all three files can be missing, stale or damaged, and
launchers and engines die anywhere.  An engine listens, closes its listener and exits in
steps of its own, so both launchers can be handed one port, and the one whose engine
will fail to bind can find the other's healthy there and record its address.  *OAuth* (191 425 states): two handlers at a time,
four calls, one code and a refresh token with its successor, so that a token can be
used, rotated, used again and revoked; a client registers for everything or for a
scope the server lacks.  *Vault* (7 237): a credential that is replaced once and
three Gets, two at a time, so that a refresh can meet another, a Store and a Revoke.
*Tokens* (82 677): two tokens, two calls at a time, any number of Redis failures, both
modes.  *Hooks* (289 294): two hooks and two daemons, which is enough for both hooks
to start one and for the second to take the first one's socket; a loop is two calls
in a window of two ticks, so that calls fall inside and outside of it.

**`audit_writer`.**  Two loggers, a channel of one, batches of two, four events and
one restart: the channel is full while a batch is being written, a batch fails in
the middle, events are sent after Close, and a second process continues the chain.
Configurations: a failing sink with drops, and blocking with nothing failing
(for `EventuallyLogged`).

**`held_calls`.**  *Guard*: one tool call behind any of eight gates, over every answer
shape, with two resumers that resume twice each; timeouts below and above the poll's
cap, and a write timeout shorter than the poll.  A second call would share nothing
with the first but the type of its ID; that approvals cannot be exchanged is the
request bound into the redemption, which the resumers vary.  *Redis*: three callers
and one item without faults; a resolver that found the item pending leads to a
stored decision (`ClaimDecides`), and so losing the claim means that somebody else
stores one.

**`platform`.**  *Accounts* (205 834 states): two addresses, two passwords, one provider
account, two link tokens, two requests at a time and three in all, enough for a
registration, a link and a log-in, or for two races and what follows.  *Gateway*
(252 126): two calls at a time against a plan of one call that can be raised to two,
three forwarded calls a month, months that end.  *Editor* (101 699): two policies, two
requests at a time, three in all; patterns that are plain, globs, alternations and no
regular expression at all.  *Resources* (59 227): two rows of any state, two creates at a
time, each of the three pages, and a row may change behind the page's back.
*Playground* (92 726): blank and padded texts, two scenarios, one request at a time.
*Inventory* (133 064): every combination of findings of one identity next to a second
one.  *Safety* (32 208): thresholds at, below and above the traces' confidences, also in
an unusual order.  *Billing* (102 834): one user, two
subscriptions, three events on the wire, any of which may come next; that other users'
events are of no account is proved (section 5).
*Rules* (2 048): every set of rule classes a name can fall under.

**`decision`.**  Two handlers, two agents, three requests, six configurations:
an open scope; a scope that denies and redirects the same action; rules whose
order matters, one with a misspelt decision; an agent without a scope;
a role with a narrow grant; and shadow mode.  Both caches have room for one agent, so
every second request finds them full; the trusted set too.  The anomaly threshold is
two denials, which one agent can reach and exceed.  The confidences are the ends of the
scale that lead to different outcomes in each band; the calibration is the identity
or one that lowers high scores; the reputation manager may report a disputed
history.

**`policy_store`.**  Two concurrent pushes, two good texts and one that does not
parse, two edits or releases, one crash, every kind of deployment.

Symmetry is used where handlers, agents, launchers, items, rows, addresses, passwords or fingerprints
are interchangeable and never in a run with a liveness property.

## 4. Fairness

- `RedisReviewQueue` (in `MCHeldCalls`): weak fairness of a handler's next command.
  Go schedules every runnable goroutine and every Redis command has a timeout, after
  which the handler goes on.  Nothing is assumed of reviewers, agents or replicas
  that crash.
- `ToolGuard`: weak fairness of time (`Tick`) and of a client's abort once its timer
  has run out: timers of a running event loop fire.  Nothing is assumed of the
  reviewer, the engine or the network; `WaitEnds` holds without an answer.
- `AuditWriter`: weak fairness of the flush goroutine (its select loop runs and its
  ticker fires), strong fairness of each blocked sender: Go's channels serve
  blocked senders first in, first out.  No fairness for Close, crash or restart.
- `PolicyStore`: weak fairness of the worker's load and of the restart (the
  process is supervised), strong fairness of a genuine answer to a poll: the
  control plane is not unreachable, nor its answers tampered with, for ever.  Without
  the last one nothing can be promised; the code retries at every interval.

The other modules promise nothing in time and are checked for safety.

## 5. Proofs

All theorems hold for every value of the constants that satisfies the named
assumptions.

**`RedisReviewQueueProofs`** (any number of items, handlers, fingerprints; any
periods with `PeriodsAssumption`: a pending item's life plus one call, and an
approval's life plus two calls, are shorter than the locks' TTL; the code has 7
days, 15 minutes and 30 days).  `Invariance` proves `IInv`, from which follow
`TypeCorrect`, `ResolveOnce` (`OneWinner`), `RedeemOnce` (`RedeemSound`),
`NothingHidden` (`ListedUntilDecided`) and `NoLateDecision` (`DecidedInTime`);
`DecidedForGood` (`DecisionPermanent`: a stored decision is never rewritten unless a
reply is lost) and `RefinesLifecycle` (`ImplementsLifecycle`) use it for the steps.

None of these properties is inductive.  `IInv` adds what a handler in the middle
of an operation knows: who is past the claim owns the lock, alone
(`LockOwned`, `LockExclusive`); a resolver that read the item as pending finds the
lock taken if somebody decided meanwhile, because it ends before the lock's TTL
does; a redeemer ends before somebody else's redeem lock disappears
(`RedeemerSane`, `ItemSpent`), which is where the assumption on the approval's life
is needed; a listing that is about to trim has only entries that nobody can decide any
more (`ListerSane`).  There is one lemma per action, and frame lemmas for the parts an
action does not touch.

**`EngineProofs`, the queue** (any items, callers, fingerprints, any periods, any number
of stops).  `TypeCorrect` (`TypeOK`), `QueueSound` (`QueueKeeps`) and `RefinesLifecycle`
(`ImplementsLifecycle`).  The properties relate memory, database and history, and
become inductive once it is said what the database row tells about the history
(`RowTells`: what a caller was told is on the row, and a row that waits was told to
nobody), what the copy a redeemer carries between its two lock sections is still worth
(`CopyHolds`), and that an engine that is down has no calls (`StoppedIsEmpty`).

**`AuditWriterProofs`** (any number of goroutines and events, any channel and batch
size, any number of restarts).  `NothingLostSilently` holds under all faults, crashes
included: an event of a process's life is on the log, on its way or counted
(`LossesCounted`).  It is a balance over the number of goroutines that hold an event, so
the invariant says that they are finitely many.  `LogStaysSound` is `LogSound` under
`Orderly`: only writes to the sink fail, the state file can be saved and the engine
stops through `Close`.  Without that hypothesis the chain breaks (section 6), and
the run is limited to the same configurations.  The chain is inductive only together
with the state file (`Chained`: when the engine may stop, the file names the last
hash), and the numbers only with all five places an event can be in (`Numbered`:
the places are disjoint and below the counter).  `GapsAreTheLosses` (`GapsCountLosses`)
holds under all faults again: until a first restart nothing is read back from the state
file, so the chain is whole, and every event created has a number of its own up to the
counter (`FirstProcess`).  What a verifier finds missing is then a count of the numbers from
the first to the last of the log that are not on it: each lies in exactly one gap
(`GapsAndNumbers`), because neighbours in order put any two events in order, by least
counterexample (`IncreasingAll`).

**`AgentDecisionProofs`** (any agents, handlers, policies, histories, any positive
capacities and scan length, any window and threshold).  Every property of the
`decision` run is a theorem: `PipelineTypes` (`TypeOK`), `DenialSticksInPipeline`
(`DenialSticks`), `DenialIsFinal` (`DenyIsFinal`), `SilenceIsNoHelp`
(`SilenceNeverHelps`), `RiskIsSound` (`RiskSound`) and `LiveDenialsAreKept`
(`LiveDenialsKept`, a property of the steps).  `PipelineAssumption` says what the code's
tables provide: every action has a criticality of the scale, confidences are
percentages, a calibrator maps them to percentages, a history is a pair of counts.

- *The caches* (`StatsInv`): a denied agent is cached with a denial on record, or it is
  in neither list and the cache is full, so that a look-up gives the conservative prior
  (`DeniedPlaced`).  The lemmas at the start say what the list operations do.
  `StatsConsistent` (`CachesAgree`) and `DenialsStick` state it for the cache with
  arbitrary callers, `StatsSpec`.
- *The tracker* (`TrackerInv`): the denials of an agent are in order and only of agents
  with any.  `pruneAnomalyTimes` is a recursive function; its lemma (`PruneFacts`: what is
  dropped had left the window, what is kept stays in order) goes by induction in the form
  that every set of numbers with a member has a least one (`LeastElement`).
- *The handlers* (`WorkSound`): what a handler carries from one lock to the next is
  at least as strict as what the policy and the gate said.  This makes a policy's
  denial final although reputation and denial counts are read at different times.
- *The risk model*: the score is a product of factors, in integers
  (`ScoreIsProduct`), each of which grows with criticality, and so does the outcome
  (`RiskMonotone`); a forbidden action is denied whatever the rest says
  (`ForbiddenIsDenied`).

**`ToolGuardProofs`** (any number of calls and resumers, any timeouts).  `TypeCorrect`
(`TypeOK`), `OnlyAsAnswered` (`RunsAsAnswered`) and `OneExecution` (`RedemptionSound`).
`ReactionMeans` goes through the eight gates and every answer shape.  The invariant
then follows a call (`CallSound`: what ran was granted by the answer or redeemed, and
nothing ran before) and a resumer (`ResumerSound`: a granted redemption that is not
used yet is for a call nobody has run), and says that two resumers never hold a grant
for one call (`OneGrant`), which is where a lost reply and a retry would break it.

**`EngineProofs`, the credentials** (any clients, scopes, tokens, any number of calls under way, rows,
stores and refreshes).  `EachRuns` takes a behaviour of `Credentials` to one of each
part.

- `OAuthTypes`, `OAuthSound` (`OAuthSafe`): a handler's locals are related to the tables it
  has read some statements ago (`CallSane`), which only holds because the tables change
  in one direction (`TablesEvolve`: a client once revoked stays so, a deleted row does
  not come back).  `GrantSane` and `EndedSane` say that a grant is gone before a call
  goes on to use it; they hold only when no statement fails unseen (`~ fails`), as the
  property says, too.
- `CredentialsAreSafe` (`CredentialsSafe`).  *Vault* (`VaultInv`): whether there is a refresh
  token is settled by the Store an entry descends from, and a refresh under way works on
  what was stored last unless something crossed it.  *Tokens* (`AgentInv`): a token being
  minted is known to no other call (`MintSane`), and as long as nothing was passed
  through, a revocation that goes on has deleted its token and no validation has found
  one that was revoked before it began (`AgentCallSane`).
- `CredentialTypes` (`CredentialsTypeOK`): the number of refreshes behind an access token is
  bounded by the Gets that have begun.

**`EngineProofs`, the launcher** (any launchers, ports, clients and starts).
`LauncherIsSafe` (`LauncherSafe`).  The steps of all launchers interleave on files that
nothing locks, so the invariant says what each launcher has prepared by each of its
steps (`Progress`) and that a process generates its key once, is started once and leaves
last (`Once`); the clauses of one launcher are then kept by the steps of another because
process numbers tell them apart (`Apart`, `OtherLaunchers`).  `PortsSound` gives a
process one port for good: a process that listens does so there.  A launcher may take
another engine for its own (`waitHealthy` asks whoever listens), but only when its port
was handed out twice, so a process that is `starting` and whose port is served by another
is `contested`; this is why a client that finds the recorded process alive meets it unless
that process has closed its listener or is a contested one that is yet to fail.  `KeysSound` is the argument behind `KeyFits`: while only one key was
generated, either it is on disk and nobody is about to truncate the file, or nothing has
been started yet.

**`EngineProofs`, the plugin** (any hooks, daemons and tool calls, any window, any
threshold of at least one).  `HooksAreSafe` (`HooksSafe`).  `Remembers` relates a daemon's
loop history, which drops what has left the window of the *present*, to all the events
it ever let pass, of which *every* window has fewer than the threshold: a window that
holds the present is within what is remembered, and any other is as it was
(`PassesAreFew`).  `Serving` says what a request under way knows of its daemon and of its
decision at each step.

`EngineTypes` (`PartTypeOK`) and `EngineKeeps` (`QueueKeeps`, `OAuthSafe`,
`CredentialsSafe`, `ImplementsLifecycle`) carry what was proved of the queue and of the
credentials over to `Engine` (`PartMoves`); `EngineAssumption` says that absence is told
from every value.

**`PolicyStoreProofs`** (any number of pushes and policies, any deployments, edits
and crashes).  `TypeCorrect` includes mutual exclusion of PUTs between probe and
swap.  `PutsSurviveRestart` (`LiveSurvivesRestart`) needs that the file already
holds what is about to be swapped in (`PutSound`) and that the worker only loads
where it is configured; `StartNeverFails` (`AlwaysLoadable`) that what passed the
probe parses.

**`PlatformProofs`** (gateway, accounts, billing, safety, rules and inventory) **and
`PagesProofs`** (playground, key and agent pages, editor; any numbers of users, keys, handlers, addresses, tokens, rows, tabs,
requests and events; any plans of which the paid one is no smaller; any drafts, rules,
traces and texts).  `PlatformAssumption` says that absence is told from every value, that
handlers are finitely many, that the paid plan allows no less than the free one, and
that the drafts, traces and identities are of the kinds the pages handle.  `PartMoves`
takes a behaviour of `Platform` to one of the part it is about; each part then has an
inductive invariant of its own.

- *Gateway* (`UsageIsMetered`: `UsageMetered`).  Both facts are balances over the number of
  handlers in a given state.  `Accounted` says where every call went that the engine got.
  For the overshoot it does not do to look at the calls that were sent: a handler that has
  read the usage below the limit may yet send.  `WithinPeak` counts those with the calls
  sent, for the limit of the best plan seen and for any larger one, because a plan may be
  raised while a handler is between its two reads.
- *Accounts* (`AccountsAreSound`: `AccountsHold`).  `RequestSound` says what a handler
  knows at each statement: the account it acts on exists, and a handler that will mark
  an address as verified has a ground for it, be it a link it has read and spent.
  `SeenSound`: whoever is about to insert a link has seen all the others of the user being
  drawn, which is what makes the one exception of `OneLiveLink` precise.
- *Billing* (`PlanFollows`: `PlanFollowsSubscription`), whatever order events come in.
  The plan lags behind, so the invariant runs a user's events ahead: `CustomerIs` is the
  customer the user will have when the events before the n-th are in, and `PaidIs` the plan
  once all are (`UserSettles`).  An event changes the plan of its own user and of nobody
  else, because a customer ID is one user's (`CustomersOwned`, `WebhookSets`), so the order
  between users is of no account.  Of a user of whom an event came in ahead of an older
  one (`overtaken`), or who held two subscriptions at a time (`doubled`), the property says
  nothing: there it is false (section 6).
- *Pages* (`PagesAreTruthful`, `PagesKeepShown`).  A tab is one record (`TabSound`):
  what it shows and has in flight against the table.  An answer with rows is of an
  earlier moment, of which only that is known which never changes back (`Reads`): a row that
  was there is there, a row that was retired is retired.  `Alone` says what is
  lost when creates overlap.
- *Playground* (`FormAndLinkAgree`: `FormFollowsLink`): the router is on its way to the link
  of the form or rests at it, and a link is trimmed already.
- *Safety and rules* (`SimulatorsSound`: `SimulatorsAgree`).  The result on screen is the
  simulator's for some draft and traces, the reviewed one unless it was edited.  The
  blast radius adds up because the nine transitions part the set of traces.  The
  simulator and the engine's evaluator are compared in a lemma about any draft and
  trace, the two rule lists by their first matches over any set of words (`RulesHold`).
  `StrictestWins` is about the public list; the sandbox list has the exception that
  `StrictestButExports` states exactly.
- *Editor* (`PageAndEngineAgree`: `EditorTruthful`).  Page and table hardly ever agree
  while a request is under way, so `Agrees` says that they differ by what is
  under way and in nothing else: the same policies but for those created or deleted
  by an answer that has not arrived, in the same order, in the same rows but for
  toggles that were shown before they were sent and edits that are shown after.  `Pushes`
  ties the engine to the table: what was listed last is the table as long as no push is
  due.  That the compiled list means the page read from top to bottom is
  `TopDecides`, an induction over the policies by least counterexample.
- *Inventory* (`WorstComesFirst`: `WorstFirst`).  The two lists are of different moments, but
  an identity is of one kind for good, so it is in one of them only (`RowsSound`).  That
  no average hides a critical finding and no number of medium ones looks like a high one
  is arithmetic over the numbers of findings of each severity (`LevelWorst`), and a risk order
  of fractions is an order of levels.

`DecidedForGood`, `StatsConsistent`, `StartNeverFails`, `NothingLostSilently`,
`TypeCorrect` of the queue in the process, `OAuthTypes` and `CredentialTypes` state
properties that no run checks by name; they are proved, and the runs of the same modules
check them as conjuncts of others (`PartTypeOK`, `LogSound`) or check their neighbours.

Only model-checked:

- the liveness properties `ClaimDecides`, `WaitEnds`, `EventuallyLogged` and
  `SyncCatchesUp`, which are outside what these provers do;
- the type invariant of the platform (`PartTypeOK` of `MCPlatform`) as a whole; those of the
  gateway, the accounts and the pages are conjuncts of the invariants proved.

## 6. Disagreements found and known limits

Each disagreement is the counterexample of a violation run; `PROJECT.json` quotes the
line that is contradicted.

1. `decision_loosens`: the read-only downgrade for low confidence returns before the
   inherited role is checked.  An action the role does not grant is denied at full
   confidence and allowed, read-only, at a lower one.
2. `policy_lost_update`: If-Match is compared before the lock is taken; two PUTs with
   the same digest both succeed.
3. `sdk_downgrade`: the Strands gate and the MCP server's status do not read
   `downgradedScope`, and a call that was downgraded to read-only runs unmodified.
4. `sdk_throws`: the client throws on the engine's 408 ("still pending") and on a
   refused redemption, where its comments promise an answer.
5. `policy_preview`: the policies page tests names with regular expressions and allows
   by default; the engine matches globs and denies by default.

Behaviours that are visible in the models and stated as the limits of a property:

- *Redis queue*: a lost reply to the SET of a decision lets a second reviewer overwrite
  it; when SET and the compensating DEL both fail, or the replica dies in between, the
  claim blocks the pending item for longer than it lives; an item may be decided up to
  one call after it expired.  An item that could not be enqueued has no ID to wait for.
- *Audit log*: a crash between the write and `persist` makes the next process link to
  an older event and reuse numbers; two goroutines that overtake each other leave a gap
  in an intact log (`GapsCountLosses` is about logs in order); events lost before the first
  one written leave no gap.
- *Pushes*: a text that a newer push has overtaken can stay in force, because a 412 only
  fetches the digest to send the same text with.
- *Fallback and tokens*: `RecordFailure` and `ShouldAllow` are two lock sections, and
  another call's `RecordSuccess` in between lets a failed check pass; in fail-open mode a
  revocation during an outage reaches the in-memory cache only.
- *OAuth server*: overlapping exchanges of one code, or refreshes of one token, may both
  succeed, and a refresh that races a client's revocation leaves a live token
  (`GrantsOnce`, `RevokedInert` speak of calls that begin after the use or revocation).
- *Vault*: a refresh that crosses a Store or a Revoke writes its result over it.
- *Launcher*: a launcher that is killed leaves its engine and its record behind; the
  record is found out when a client asks whether the process exists.  The port that
  `freePort` found is free again until the engine listens.  Two launchers can be handed the
  same one; `startLocalEngine` ("starts a local Lelu engine, returning its URL",
  `local-engine.ts`) of the one whose engine loses it may then return, and record with its
  own process's ID, the address at which the other's engine answers `/healthz`.  While
  the loser is about to exit, a client that sees its process is sent to the winner; and
  one that sees an engine which is shutting down is sent to a port nobody listens on,
  or another engine has taken by then (the two exceptions of `MetTheRecorded`).
- *Plugin*: two hooks that find no daemon start two.  The second removes the socket the
  first has bound and both live on, although the comment on `shouldSpawn` expects a
  second daemon to "just fail to bind the socket and exit" (`cmd/lelu-hook/main.go`).
  Loop counts are a daemon's own and start anew with it, and a budget prompt that falls
  into shadow mode is used up without being shown.
- *Billing*: an event that overtakes the end of a subscription brings the paid plan back
  (`overtaken` is the history variable that takes its user out of the property).
- *Fallback rules*: the sandbox list answers *compute* for a name that exports and also
  writes a file or deploys (`export_file`, `deploy_export`), because its rules for files and
  deployments come before the one for exports, whose comment says "Bulk data movement is
  sensitive regardless of what else it's named" (`app/api/sandbox/authorize/route.ts:71`):
  the comment names the rules below it, the ones above it are not
  covered.  And the two lists differ on exports: the public one allows those that the
  sandbox's sends to a review.
- *Pages*: when two creates of one tab overlap, on the dashboard or on the key page (close
  the dialog while the first is under way, open it again and submit), the later answer's
  secret replaces the first one on the screen, although the dialog says "Copy this key now.
  It won't be shown again" (`app/api-key/page.tsx:216`); the dashboard's reload that was
  answered before a revocation shows the revoked row once more; a row is shown as
  revoked although the DELETE was refused; a draft edited during a simulation is shown
  with the old draft's result; the identity page stays "scanning" after a failed fetch;
  `handleApply` of the safety page sends nothing.

## 7. What is not modelled

- *Cryptography and formats*: signatures, hashes, PKCE, JSON and YAML.  A hash is
  injective, a parse succeeds or fails, a proof is right or wrong.
- *Calibration and statistics*: the isotonic fit of the calibrator and the observability
  tables are numerics; the pipeline is checked for any given calibration.
- *Rego policies* (a vendored engine), *human users and delegation* in the evaluator
  (single reads of the policy), *glob syntax* (matching is set membership),
  *environment overrides* of the risk thresholds.
- *The stream of the Redis queue*: it only notifies; its failure is modelled because
  it decides whether the agent gets its review ID.
- *Stateless filters and thin parts*: injection patterns, the plugin's analysis of shell
  commands and its hookify rules (inputs of `HookDaemon`), incident notifier, telemetry,
  CLI, S3 sink, the rate limiter's token buckets (one mutex, one clock), the shadow-agent
  detector, the identity registry and the Go platform API (single-statement CRUD).
- *Reviewer credentials and tenant checks* of the queue's HTTP handlers: comparisons of
  one request with one row.
- *Pages without behaviour*: the hosted platform's TypeScript is 41 000 lines, of which the
  `map` covers about a ninth (the engine's Go is not in that count).  Some
  16 000 lines are documentation pages, 5 000 marketing and legal pages and 2 000 tests;
  of the rest, the greater part is JSX and styling of the pages whose state and handlers
  are modelled, type declarations, and clients that send one request and return its
  answer.  They have no step of their own, and a definition that named their lines would
  translate nothing.
- *SDK React components and tracer*: the components call endpoints this engine does not
  serve, the tracer forwards.  The client's local event store is single-statement CRUD.
- *Python and Go SDKs*: the same calls as the TypeScript client, which `ToolGuard` has.

## 8. Plan

Done: all modules of section 2; proofs of every safety property of the two queues, the
pipeline, policy replacement, the gates, the credentials, the launcher, the plugin and
the platform (but for its type invariant as a whole), and of the audit log.
What remains, in this order:

1. **Proofs**: the type invariant of `Platform` as a whole.
2. **Composition of pipeline and policy store**: the digest stamped on a decision against
   the policy that made it.
3. **The pipeline and the gates**: `ToolGuard` with `AgentDecision`'s answers in place of
   all the shapes the engine can send.
4. **Delegation and human users** in the evaluator.

## 9. How to run

In this directory, with TLC and the community modules on the path:

    tlc -config RedisQueue.cfg MCRedisReviewQueue
    tlc -config Engine.cfg MCEngine
    tlc -config AuditWriter.cfg MCAuditWriter
    tlc -config HeldCalls.cfg MCHeldCalls
    tlc -config Platform.cfg MCPlatform
    tlc -config Decision.cfg MCAgentDecision
    tlc -config PolicyStore.cfg MCPolicyStore

the runs that end with a counterexample:

    tlc -config DecisionLoosens.cfg MCAgentDecision
    tlc -config PolicyLostUpdate.cfg MCPolicyStore
    tlc -config PolicyPreview.cfg MCPlatform
    tlc -config ToolGuardDowngrade.cfg MCHeldCalls
    tlc -config ToolGuardThrows.cfg MCHeldCalls

and with TLAPS:

    tlapm RedisReviewQueueProofs.tla
    tlapm EngineProofs.tla
    tlapm AuditWriterProofs.tla
    tlapm AgentDecisionProofs.tla
    tlapm PolicyStoreProofs.tla
    tlapm ToolGuardProofs.tla
    tlapm PlatformProofs.tla
    tlapm PagesProofs.tla

Each run ends within four minutes on two cores; the proofs take from one to some ten minutes
a module.  To look at one part of the platform, leave only its name in `Parts` of the
configuration.
