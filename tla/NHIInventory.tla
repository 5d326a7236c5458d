---------------------------- MODULE NHIInventory ----------------------------
(* The inventory of non-human identities: the risk score of                 *)
(* platform/ui/lib/nhi-scoring.ts and the page app/nhi/page.tsx that lists  *)
(* the user's agents and API keys by it.                                    *)
(*                                                                          *)
(* Weights are in hundredths.  The code takes the mean of the average and   *)
(* the largest weight and adds 0.1 to a stale identity; here the score of   *)
(* an entry with n findings is the pair <<num, n>> that stands for          *)
(* num / 200n, so that the boundaries 0.8, 0.55 and 0.3 stay exact.         *)
EXTENDS Naturals, FiniteSets, FiniteSetsExt

CONSTANTS
  Ids,      \* identities
  Worlds    \* what the identities may be at first

VARIABLES
  world,    \* lelu_agents and lelu_api_keys
  nhis,     \* the entries on the page, with score and level; the riskiest first
  fetched,  \* the answers to the two requests of buildNHIs
  loading, scanning

vars == <<world, nhis, fetched, loading, scanning>>

Entry == [type : {"registered_agent", "api_key"}, status : {"active", "suspended", "revoked"},
          stale : BOOLEAN, wildcard : BOOLEAN, admin : BOOLEAN, sprawl : BOOLEAN,
          answered : BOOLEAN]  \* has an owner (agents), an expiry date (keys)

(* ---- scoreNHI -------------------------------------------------------- *)

Weight == [critical |-> 100, high |-> 70, medium |-> 40]
Levels == [critical |-> 4, high |-> 3, medium |-> 2, low |-> 1, none |-> 0]

\* The checks, each with its severity, that find something.
Findings(e) ==
  {f \in {<<"offboarding", "critical">>, <<"stale", "medium">>, <<"wildcard", "critical">>,
          <<"admin", "high">>, <<"sprawl", "medium">>, <<"expiry", "high">>, <<"owner", "medium">>} :
     CASE f[1] = "offboarding" -> e.status # "active"
       [] f[1] = "stale" -> e.stale /\ e.status = "active"
       [] f[1] = "wildcard" -> e.wildcard
       [] f[1] = "admin" -> e.admin
       [] f[1] = "sprawl" -> e.sprawl
       [] f[1] = "expiry" -> e.type = "api_key" /\ ~e.answered
       [] f[1] = "owner" -> e.type = "registered_agent" /\ ~e.answered}

HowMany(fs, severity) == Cardinality({f \in fs : f[2] = severity})
Total(fs) == Weight.critical * HowMany(fs, "critical") + Weight.high * HowMany(fs, "high")
             + Weight.medium * HowMany(fs, "medium")
Score_Mean(e) == <<2 * Total(Findings(e)), Cardinality(Findings(e))>>
Score(e) ==
  LET fs == Findings(e)
      n == Cardinality(fs)
      maxW == IF fs = {} THEN 0 ELSE Max({Weight[f[2]] : f \in fs})
      late == IF e.status = "active" /\ e.stale THEN 20 * n ELSE 0
  IN  <<Min({Total(fs) + n * maxW + late, 200 * n}), n>>

Level(e) ==
  LET num == Score(e)[1]  n == Score(e)[2] IN
  CASE n = 0 -> "none"
    [] n > 0 /\ num >= 160 * n -> "critical"
    [] n > 0 /\ num >= 110 * n /\ num < 160 * n -> "high"
    [] n > 0 /\ num >= 60 * n /\ num < 110 * n -> "medium"
    [] OTHER -> "low"

\* Entry a ranks below entry b: an entry without findings scores 0.
Below(a, b) == IF a[2] = 0 THEN b[2] > 0 ELSE b[2] > 0 /\ a[1] * b[2] < b[1] * a[2]

(* ---- The page -------------------------------------------------------- *)

\* Both requests of buildNHIs leave together.
Ask == [agents |-> [st |-> "sent", rows |-> {}], keys |-> [st |-> "sent", rows |-> {}]]
Done == [agents |-> [st |-> "idle", rows |-> {}], keys |-> [st |-> "idle", rows |-> {}]]

Init ==
  /\ world \in Worlds
  /\ nhis = <<>> /\ fetched = Ask /\ loading = TRUE /\ scanning = FALSE

Kind(which) == IF which = "agents" THEN "registered_agent" ELSE "api_key"

\* GET /api/agents, GET /api/dashboard/keys; an error status reads as no rows.
Serve(which) ==
  /\ fetched[which].st = "sent"
  /\ \/ fetched' = [fetched EXCEPT ![which] =
            [st |-> "read", rows |-> {<<i, world[i]>> : i \in {j \in Ids : world[j].type = Kind(which)}}]]
     \/ fetched' = [fetched EXCEPT ![which] = [st |-> "read", rows |-> {}]]
     \/ fetched' = [fetched EXCEPT ![which] = [st |-> "rejected", rows |-> {}]]
  /\ UNCHANGED <<world, nhis, loading, scanning>>

\* The entries of both answers; revoked keys are left out, revoked agents not.
Listed == {r \in fetched.agents.rows \cup fetched.keys.rows :
             r[2].type = "api_key" => r[2].status # "revoked"}

\* The rows in an order without two neighbours, or any two, the wrong way round.
Orders(rows, Wrong(_, _)) ==
  {q \in [1..Cardinality(rows) -> rows] :
     \A j, k \in DOMAIN q : j < k => q[j] # q[k] /\ ~ Wrong(Score(q[j][2]), Score(q[k][2]))}

\* Sorted by score, descending; entries of one score keep either order.
Ranked_Ascending(rows) == Orders(rows, LAMBDA a, b : Below(b, a))
Ranked(rows) == Orders(rows, Below)

\* The end of the first load and of handleScan.
Show ==
  /\ fetched.agents.st = "read" /\ fetched.keys.st = "read"
  /\ \E q \in Ranked(Listed) :
       nhis' = [k \in DOMAIN q |-> [id |-> q[k][1], entry |-> q[k][2], level |-> Level(q[k][2])]]
  /\ fetched' = Done /\ loading' = FALSE /\ scanning' = FALSE
  /\ UNCHANGED world

\* A rejected request rejects buildNHIs.  The load ends all the same; a scan
\* never does, as handleScan has no finally.
Reject ==
  /\ \E which \in DOMAIN fetched : fetched[which].st = "rejected"
  /\ fetched' = Done /\ loading' = FALSE
  /\ UNCHANGED <<world, nhis, scanning>>

\* Scan: the button is disabled while one is under way.
HandleScan ==
  /\ ~loading /\ ~scanning
  /\ scanning' = TRUE /\ fetched' = Ask
  /\ UNCHANGED <<world, nhis, loading>>

\* Elsewhere an identity is suspended or revoked.
Retire(i, status) ==
  /\ world[i].status = "active"
  /\ world[i].type = "api_key" => status = "revoked"
  /\ world' = [world EXCEPT ![i].status = status]
  /\ UNCHANGED <<nhis, fetched, loading, scanning>>

Next ==
  \/ \E which \in {"agents", "keys"} : Serve(which)
  \/ Show \/ Reject \/ HandleScan
  \/ \E i \in Ids, status \in {"suspended", "revoked"} : Retire(i, status)

Spec == Init /\ [][Next]_vars

(* ---- Properties ------------------------------------------------------ *)

\* Every variable has its type; no identity is on the page twice,
\* although the two lists are read at different times, and a loading page
\* waits for a request.
TypeOK ==
  /\ world \in [Ids -> Entry]
  /\ loading \in BOOLEAN /\ scanning \in BOOLEAN
  /\ \A j, k \in DOMAIN nhis : nhis[j].id = nhis[k].id => j = k
  /\ loading => fetched # Done

\* The level of an identity is the severity of its worst finding, however
\* many lesser findings pull the average down (scoreNHI: the boundary at 0.8
\* is met exactly by one critical and two medium findings).
LevelIsWorst ==
  \A k \in DOMAIN nhis :
    LET fs == Findings(nhis[k].entry) IN
    IF fs = {} THEN nhis[k].level = "none"
    ELSE Levels[nhis[k].level] = Max({Levels[f[2]] : f \in fs})

\* The page lists the riskiest identity first: no entry has a higher level
\* than one above it (scores decide within a level).
RiskiestFirst ==
  \A j, k \in DOMAIN nhis : j < k => Levels[nhis[j].level] >= Levels[nhis[k].level]
=============================================================================
