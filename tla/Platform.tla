------------------------------ MODULE Platform ------------------------------
(***************************************************************************)
(* The hosted platform: nine parts that share no state here.  A behaviour  *)
(* is one of                                                               *)
(*   "gateway"     keys, quota and audit rows of /v1/authorize,            *)
(*   "accounts"    registration, links, password and OAuth login,          *)
(*   "billing"     checkout, portal and Stripe's webhook,                  *)
(*   "resources"   the key, dashboard and agent pages,                     *)
(*   "playground"  the sandbox page,                                       *)
(*   "safety"      the policy change wizard and its simulator,             *)
(*   "rules"       the two built-in rule sets,                             *)
(*   "editor"      the policies page and the push to the engine,           *)
(*   "inventory"   the scoring of non-human identities.                    *)
(* Only the chosen part is there: the variables of the others are 0.       *)
(***************************************************************************)
EXTENDS Integers, Sequences, FiniteSets

CONSTANTS Parts,       \* the parts to look at
          None,
          Calls,       \* handlers, or requests of a page, that run at the same time
          \* CloudGateway and Billing
          Users, Keys, PlanLimit, MaxCalls, MaxSandbox,
          Customers, MaxSubs, MaxWire,
          \* Accounts
          Emails, Passwords, Google, GitHub, Tokens, Requests, MaxRequests, EmailOn,
          \* ResourcePages and PolicyEditor
          TableRows, Tabs, Names, RuleDrafts, MaxSent,
          \* PolicySafety
          PolicyDrafts, TraceSets,
          \* Playground
          Tools, Contexts, Scenarios, Sends, HistoryCap, Answers,
          \* NHIInventory
          Identities, Worlds

VARIABLES
  part,
  plan, keys, rows, pending, calls, sent, lost, peak, best,
  users, linked, links, expired, inbox, profile, req, served, sessions, created, reset, grounds,
  tier, customer, checkouts, subs, wire, doubled, overtaken,
  page, table, view, list, ui, post, act, acked, overlap,
  form, argsErr, url, nav, reqs, loading, response, history, failed,
  step, draft, traces, sim, result, error, applied, edited,
  tool,
  policies, shown, asks, due, texts, engine, listings, inForce, torn, asked,
  world, nhis, fetched, nhisLoading, scanning

Gateway == INSTANCE CloudGateway
Accounts == INSTANCE Accounts
Billing == INSTANCE Billing WITH plan <- tier, sessions <- checkouts
Resources == INSTANCE ResourcePages WITH Ids <- TableRows, Slots <- Calls
Playground == INSTANCE Playground WITH Slots <- Sends
Safety == INSTANCE PolicySafety WITH Drafts <- PolicyDrafts
Rules == INSTANCE RuleSets
Editor == INSTANCE PolicyEditor
  WITH Ids <- TableRows, Drafts <- RuleDrafts, Slots <- Calls,
       table <- policies, page <- shown, reqs <- asks, sent <- asked
Inventory == INSTANCE NHIInventory WITH Ids <- Identities, loading <- nhisLoading

\* The texts that may be in the two fields of the sandbox page.
ToolTexts == Tools \cup {Scenarios[k].tool : k \in DOMAIN Scenarios}
ContextTexts == Contexts \cup {Scenarios[k].context : k \in DOMAIN Scenarios}
                         \cup {Playground!Text({}, FALSE)}

\* A rule of the policy editor: the names its pattern matches in either reading.
EditorRule == [regex : SUBSET Names, glob : SUBSET Names,
               decision : {"allow", "deny", "human_review", "compute"}]

\* Absence is told from every value; the paid plan allows no less than the free
\* one, and each allows something (PLAN_LIMITS).  The sandbox page has a first
\* scenario to open with.
ASSUME PlatformAssumption ==
  /\ None \notin Users \cup Customers \cup Emails \cup Passwords \cup Google \cup GitHub
                 \cup Tokens \cup TableRows \cup {"free", "paid"}
  /\ None \notin Nat \cup Accounts!User
  /\ IsFiniteSet(Calls) /\ "load" \notin Calls /\ MaxCalls \in Nat /\ MaxRequests \in Nat /\ MaxWire \in Nat
  /\ EmailOn \in BOOLEAN
  /\ PlanLimit["free"] \in Nat \ {0} /\ PlanLimit["paid"] \in Nat
  /\ PlanLimit["free"] <= PlanLimit["paid"]
  /\ 1 \in DOMAIN Scenarios
  /\ None \notin {Playground!Link([tool |-> v, context |-> c]) : v \in ToolTexts, c \in ContextTexts}
  /\ None \notin {Safety!EngineScope(p) : p \in PolicyDrafts}
  /\ \A ts \in TraceSets : IsFiniteSet(ts)
  /\ None \notin {"ok", "lost", "refused"} /\ None \notin Seq(Editor!Row) /\ MaxSent \in Nat
  /\ RuleDrafts \subseteq Seq(EditorRule)
  /\ IsFiniteSet(Identities) /\ \A w \in Worlds : w \in [Identities -> Inventory!Entry]

gatewayVars == <<plan, keys, rows, pending, calls, sent, lost, peak, best>>
accountsVars == <<users, linked, links, expired, inbox, profile, req, served, sessions,
                  created, reset, grounds>>
billingVars == <<tier, customer, checkouts, subs, wire, doubled, overtaken>>
resourcesVars == <<page, table, view, list, ui, post, act, acked, overlap>>
playgroundVars == <<form, argsErr, url, nav, reqs, loading, response, history, failed>>
safetyVars == <<step, draft, traces, sim, result, error, applied, edited>>
editorVars == <<policies, shown, asks, due, texts, engine, listings, inForce, torn, asked>>
inventoryVars == <<world, nhis, fetched, nhisLoading, scanning>>
platformVars == <<part, gatewayVars, accountsVars, billingVars, resourcesVars, playgroundVars,
                  safetyVars, tool, editorVars, inventoryVars>>
-----------------------------------------------------------------------------
NoGateway == /\ plan = 0 /\ keys = 0 /\ rows = 0 /\ pending = 0 /\ calls = 0
             /\ sent = 0 /\ lost = 0 /\ peak = 0 /\ best = 0
NoAccounts == /\ users = 0 /\ linked = 0 /\ links = 0 /\ expired = 0 /\ inbox = 0
              /\ profile = 0 /\ req = 0 /\ served = 0 /\ sessions = 0
              /\ created = 0 /\ reset = 0 /\ grounds = 0
NoBilling == /\ tier = 0 /\ customer = 0 /\ checkouts = 0 /\ subs = 0
             /\ wire = 0 /\ doubled = 0 /\ overtaken = 0
NoResources == /\ page = 0 /\ table = 0 /\ view = 0 /\ list = 0 /\ ui = 0
               /\ post = 0 /\ act = 0 /\ acked = 0 /\ overlap = 0
NoPlayground == /\ form = 0 /\ argsErr = 0 /\ url = 0 /\ nav = 0 /\ reqs = 0
                /\ loading = 0 /\ response = 0 /\ history = 0 /\ failed = 0
NoSafety == /\ step = 0 /\ draft = 0 /\ traces = 0 /\ sim = 0 /\ result = 0
            /\ error = 0 /\ applied = 0 /\ edited = 0
NoEditor == /\ policies = 0 /\ shown = 0 /\ asks = 0 /\ due = 0 /\ texts = 0
            /\ engine = 0 /\ listings = 0 /\ inForce = 0 /\ torn = 0 /\ asked = 0
NoInventory == world = 0 /\ nhis = 0 /\ fetched = 0 /\ nhisLoading = 0 /\ scanning = 0

PlatformInit ==
  /\ part \in Parts
  /\ IF part = "gateway" THEN Gateway!Init ELSE NoGateway
  /\ IF part = "accounts" THEN Accounts!Init ELSE NoAccounts
  /\ IF part = "billing" THEN Billing!Init ELSE NoBilling
  /\ IF part = "resources" THEN Resources!Init ELSE NoResources
  /\ IF part = "playground" THEN Playground!Init ELSE NoPlayground
  /\ IF part = "safety" THEN Safety!Init ELSE NoSafety
  /\ IF part = "rules" THEN Rules!Init ELSE tool = 0
  /\ IF part = "editor" THEN Editor!Init ELSE NoEditor
  /\ IF part = "inventory" THEN Inventory!Init ELSE NoInventory

GatewayStep ==
  /\ part = "gateway" /\ Gateway!Next
  /\ UNCHANGED <<part, accountsVars, billingVars, resourcesVars, playgroundVars, safetyVars,
                 tool, editorVars, inventoryVars>>
AccountsStep ==
  /\ part = "accounts" /\ Accounts!Next
  /\ UNCHANGED <<part, gatewayVars, billingVars, resourcesVars, playgroundVars, safetyVars,
                 tool, editorVars, inventoryVars>>
BillingStep ==
  /\ part = "billing" /\ Billing!Next
  /\ UNCHANGED <<part, gatewayVars, accountsVars, resourcesVars, playgroundVars, safetyVars,
                 tool, editorVars, inventoryVars>>
ResourcesStep ==
  /\ part = "resources" /\ Resources!Next
  /\ UNCHANGED <<part, gatewayVars, accountsVars, billingVars, playgroundVars, safetyVars,
                 tool, editorVars, inventoryVars>>
PlaygroundStep ==
  /\ part = "playground" /\ Playground!Next
  /\ UNCHANGED <<part, gatewayVars, accountsVars, billingVars, resourcesVars, safetyVars,
                 tool, editorVars, inventoryVars>>
SafetyStep ==
  /\ part = "safety" /\ Safety!Next
  /\ UNCHANGED <<part, gatewayVars, accountsVars, billingVars, resourcesVars, playgroundVars,
                 tool, editorVars, inventoryVars>>
RulesStep ==
  /\ part = "rules" /\ Rules!Next
  /\ UNCHANGED <<part, gatewayVars, accountsVars, billingVars, resourcesVars, playgroundVars,
                 safetyVars, editorVars, inventoryVars>>
EditorStep ==
  /\ part = "editor" /\ Editor!Next
  /\ UNCHANGED <<part, gatewayVars, accountsVars, billingVars, resourcesVars, playgroundVars,
                 safetyVars, tool, inventoryVars>>
InventoryStep ==
  /\ part = "inventory" /\ Inventory!Next
  /\ UNCHANGED <<part, gatewayVars, accountsVars, billingVars, resourcesVars, playgroundVars,
                 safetyVars, tool, editorVars>>

PlatformNext ==
  \/ GatewayStep \/ AccountsStep \/ BillingStep \/ ResourcesStep \/ PlaygroundStep
  \/ SafetyStep \/ RulesStep \/ EditorStep \/ InventoryStep

PlatformSpec == PlatformInit /\ [][PlatformNext]_platformVars
-----------------------------------------------------------------------------
(* What is checked of each part; the conjuncts are defined and explained in *)
(* its module.                                                              *)

\* The variables of the part that moves have their types.
PartTypeOK ==
  CASE part = "gateway" -> Gateway!TypeOK
    [] part = "accounts" -> Accounts!TypeOK
    [] part = "billing" -> Billing!TypeOK
    [] part = "editor" -> Editor!TypeOK
    [] part = "resources" -> Resources!TypeOK
    [] part = "safety" -> Safety!TypeOK
    [] part = "playground" -> Playground!TypeOK
    [] part = "inventory" -> Inventory!TypeOK
    [] OTHER -> TRUE

\* CloudGateway (checkQuota, logAuditEvent): a user's calls exceed the plan by
\* the overlapping ones at most, and every forwarded call has its row or is
\* known to be lost.
UsageMetered ==
  part = "gateway" => Gateway!OvershootBounded /\ Gateway!UsageAccounted

\* Accounts (lib/auth.ts and its routes): an address counts as verified only
\* for a reason, and whoever signed in with a password has a verified one; two
\* live links of a user come from requests that overlapped; one provider
\* account always signs in as one user; of racing registrations one is
\* answered 201, and its password counts.
AccountsHold ==
  part = "accounts" =>
    /\ Accounts!VerifiedForAReason /\ Accounts!PasswordLoginVerified
    /\ Accounts!OneLiveLink
    /\ Accounts!SameAccountSameUser
    /\ Accounts!RegisteredOnce

\* Billing (webhook): once a user's events are in, none ahead of an older one,
\* the plan follows the subscription.
PlanFollowsSubscription == part = "billing" => Billing!PlanFollowsSubscription

\* PolicyEditor (policies/page.tsx, policy-sync.ts): with all answers in the
\* page shows the table, the engine decides by the page read from top to
\* bottom, and the page's test predicts it on plain patterns.
EditorTruthful ==
  part = "editor" =>
    Editor!PageShowsTable /\ Editor!PageOrderDecides /\ Editor!TestPredictsPlain
\* PolicyEditor: decisions match what the user sees (policy-sync.ts); they need not.
DecisionsMatch == part = "editor" => Editor!DecisionsMatch

\* ResourcePages (key, dashboard and agent pages): a confirmation is about a
\* row the page shows as active, and what the user was told was created stays
\* listed.
PagesTruthful ==
  part = "resources" => Resources!ActsOnActive /\ Resources!CreatedListed
\* ResourcePages: on the key page and the agents page a row shown as revoked
\* turns active by no answer but that to its own creation; on the key page and
\* the dashboard a secret on screen leaves it by its user's closing it only,
\* as long as the tab's creates did not overlap.
PagesKeep ==
  [][part = "resources" => Resources!KeepsRevoked /\ Resources!KeepsSecret]_platformVars

\* The three evaluators beside the engine's.  PolicySafety (the simulator): it
\* decides scoped agents as the engine does, the blast radius counts every
\* changed decision once, and what is applied is the draft of the review.
\* RuleSets: in the public list (evaluateTool) a name with several words gets
\* the strictest of their decisions; in the sandbox's (localEvaluate) all but
\* the bulk exports that write files or deploy do, and the two lists differ
\* only on bulk exports that the public one allows.
SimulatorsAgree ==
  /\ part = "safety" =>
       Safety!SimulationAgrees /\ Safety!BlastCounts /\ Safety!AppliedAsReviewed
  /\ part = "rules" => Rules!StrictestWins /\ Rules!StrictestButExports /\ Rules!FallbackDiffers

\* Playground (sandbox/page.tsx): form and address bar settle in one round,
\* agree once they have, and an answer from the address bar clears the scenario.
FormFollowsLink ==
  [][part = "playground" =>
       Playground!Settles /\ Playground!ClearsChip /\ Playground!LinkIsForm]_platformVars

\* NHIInventory (nhi-scoring.ts, nhi/page.tsx): the level of an identity is
\* that of its worst finding, and the page lists the riskiest first.
WorstFirst ==
  part = "inventory" => Inventory!LevelIsWorst /\ Inventory!RiskiestFirst
=============================================================================
