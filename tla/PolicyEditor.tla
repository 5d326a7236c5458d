---------------------------- MODULE PolicyEditor ----------------------------
(***************************************************************************)
(* The dashboard's policy editor (platform/ui/app/policies/page.tsx), the  *)
(* routes and the table behind it (app/api/policies, lib/policies.ts), and *)
(* the rules that reach the engine (lib/policy-sync.ts).                   *)
(*                                                                         *)
(* The page keeps a copy of the list it loaded once and changes it by what *)
(* each request answers; a toggle shows before it is sent.  Requests of    *)
(* one page overlap, are refused or lose their answer.  A push to the      *)
(* engine lists the table and sends the text later: a text that a newer    *)
(* one has overtaken still replaces it, for a 412 only fetches the digest  *)
(* to send the same text with.                                             *)
(*                                                                         *)
(* A pattern is read twice: as a regular expression by the page's test and *)
(* as a glob by the engine.  It stands for the names it matches in each    *)
(* reading; a text that is no regular expression matches nothing.          *)
(***************************************************************************)
EXTENDS Naturals, Sequences, FiniteSets

CONSTANTS Ids,       \* policies
          Names,     \* tool names
          Drafts,    \* rule lists a user may type
          Slots,     \* requests under way at a time
          MaxSent,   \* bound: requests sent
          None

VARIABLES table,     \* lelu_policies of the user, newest first
          page,      \* the list on the page; None while the spinner shows
          reqs,      \* the page's requests
          due,       \* pushPolicyToEngine calls that have not listed the table
          texts,     \* the rules that others have listed and not yet put
          engine,    \* the rules the engine has
          listings,  \* history: how many listings were made
          inForce,   \* history: the one whose rules the engine has
          torn,      \* history: the page may rightly differ from the table
          sent       \* requests sent so far (for the bound)

sync == <<due, texts, engine, listings, inForce>>
vars == <<table, page, reqs, due, texts, engine, listings, inForce, torn, sent>>

PE == INSTANCE PolicyEvaluator WITH NoScope <- None, NoRole <- None

Row == [id : Ids, rules : Drafts, active : BOOLEAN]
Free == [kind |-> "free", id |-> None, rules |-> <<>>, active |-> FALSE, old |-> None,
         reply |-> None, row |-> None, done |-> FALSE]

At(list, id) == CHOOSE i \in DOMAIN list : list[i].id = id
Has(list, id) == \E i \in DOMAIN list : list[i].id = id
Put(list, row) == [i \in DOMAIN list |-> IF list[i].id = row.id THEN row ELSE list[i]]
\* No list has two rows of one policy, so that a filter by id leaves out one at most.
Without(list, id) ==
  IF Has(list, id) THEN SubSeq(list, 1, At(list, id) - 1) \o SubSeq(list, At(list, id) + 1, Len(list))
  ELSE list

Init ==
  /\ table = <<>> /\ page = None
  /\ reqs = [s \in Slots |-> Free]
  /\ due = 0 /\ texts = {} /\ engine = <<>>
  /\ listings = 0 /\ inForce = 0
  /\ torn = FALSE /\ sent = 0

---------------------------------------------------------------------------
(* The page.  Until the list is there only a spinner is rendered.          *)

Busy(kind) == \E s \in Slots : reqs[s].kind = kind
Open(id) == \E s \in Slots : reqs[s].kind # "free" /\ reqs[s].id = id
Send(s, r) ==
  /\ reqs[s] = Free /\ sent < MaxSent
  /\ reqs' = [reqs EXCEPT ![s] = r]
  /\ sent' = sent + 1
  /\ torn' = (torn \/ (r.id # None /\ Open(r.id)))
  /\ UNCHANGED <<table, sync>>

\* A list that could not be loaded leaves the page empty and usable.
fetchPolicies ==
  /\ page = None
  /\ \/ page' = table /\ UNCHANGED torn
     \/ page' = <<>> /\ torn' = TRUE
  /\ UNCHANGED <<table, reqs, sync, sent>>

handleCreate(s, rules) ==
  /\ page # None /\ ~ Busy("create")
  /\ Send(s, [Free EXCEPT !.kind = "create", !.rules = rules])
  /\ UNCHANGED page

\* The page shows the new state at once and remembers the row for a revert.
handleToggleActive(s, id) ==
  /\ page # None
  /\ Has(page, id)
  /\ LET row == page[At(page, id)] IN
       /\ page' = Put(page, [row EXCEPT !.active = ~ @])
       /\ Send(s, [Free EXCEPT !.kind = "toggle", !.id = id, !.active = ~ row.active,
                               !.old = row])

saveEdit(s, id, rules) ==
  /\ page # None /\ ~ Busy("save")
  /\ Has(page, id)
  /\ Send(s, [Free EXCEPT !.kind = "save", !.id = id, !.rules = rules])
  /\ UNCHANGED page

handleDelete(s, id) ==
  /\ page # None /\ ~ Busy("delete")
  /\ Has(page, id)
  /\ Send(s, [Free EXCEPT !.kind = "delete", !.id = id])
  /\ UNCHANGED page

---------------------------------------------------------------------------
(* The routes.  Every request that got through to the table starts a push. *)

Unused == {id \in Ids : ~ Has(table, id) /\ ~ Open(id) /\ (page # None => ~ Has(page, id))}

createPolicy(r) ==
  {[table |-> <<row>> \o table, row |-> row] :
     row \in {[id |-> id, rules |-> r.rules, active |-> TRUE] : id \in Unused}}

\* COALESCE: what the request leaves out stays as it is.
updatePolicy(r) ==
  IF ~ Has(table, r.id) THEN {}
  ELSE LET old == table[At(table, r.id)]
           row == IF r.kind = "save" THEN [old EXCEPT !.rules = r.rules]
                                     ELSE [old EXCEPT !.active = r.active]
       IN  {[table |-> Put(table, row), row |-> row]}

deletePolicy(r) == {[table |-> Without(table, r.id), row |-> None]}

Outcomes(r) ==
  CASE r.kind = "create" -> createPolicy(r)
    [] r.kind = "delete" -> deletePolicy(r)
    [] OTHER -> updatePolicy(r)

\* The route does its work, and its answer arrives or is lost.
Serve(s) ==
  LET r == reqs[s] IN
  /\ r.kind # "free" /\ r.reply = None
  /\ \E o \in Outcomes(r), reply \in {"ok", "lost"} :
       /\ table' = o.table
       /\ reqs' = [reqs EXCEPT ![s].reply = reply, ![s].row = o.row, ![s].done = TRUE]
  /\ due' = due + 1
  /\ UNCHANGED <<page, texts, engine, listings, inForce, torn, sent>>

\* It refuses (no session, no such policy, a database error), or is never reached.
Refuse(s) ==
  /\ reqs[s].kind # "free" /\ reqs[s].reply = None
  /\ \E reply \in {"refused", "lost"} : reqs' = [reqs EXCEPT ![s].reply = reply]
  /\ UNCHANGED <<table, page, sync, torn, sent>>

compileToEngineYaml_All(rows) ==
  LET text[i \in 0..Len(rows)] == IF i = 0 THEN <<>> ELSE text[i - 1] \o rows[i].rules
  IN  text[Len(rows)]
\* The active policies' rules, in the order of listPolicies.
compileToEngineYaml(rows) ==
  LET text[i \in 0..Len(rows)] ==
        IF i = 0 THEN <<>>
        ELSE IF rows[i].active THEN text[i - 1] \o rows[i].rules ELSE text[i - 1]
  IN  text[Len(rows)]

\* pushPolicyToEngine lists the table once the route's own write is through.
pushPolicyToEngine ==
  /\ due > 0
  /\ due' = due - 1
  /\ listings' = listings + 1
  /\ texts' = texts \cup {[nth |-> listings + 1, rules |-> compileToEngineYaml(table)]}
  /\ UNCHANGED <<table, page, reqs, engine, inForce, torn, sent>>

\* The text replaces the engine's rules, whatever they are by now; or the push
\* fails, which is only logged.
doPut == \E t \in texts :
  /\ texts' = texts \ {t}
  /\ \/ engine' = t.rules /\ inForce' = t.nth
     \/ UNCHANGED <<engine, inForce>>
  /\ UNCHANGED <<table, page, reqs, due, listings, torn, sent>>

---------------------------------------------------------------------------
(* The answers.  toggle and delete look at no status; a toggle is reverted *)
(* only when fetch itself fails.                                           *)

Prepended_Last(list, row) == Append(list, row)
Prepended(list, row) == <<row>> \o list

Reverted(list, r) == IF Has(list, r.id) THEN Put(list, r.old) ELSE list

Receive(s) ==
  LET r == reqs[s]
      ok == r.reply = "ok"
      lost == r.reply = "lost"
  IN
  /\ r.reply # None
  /\ page' = CASE r.kind = "create" /\ ok -> Prepended(page, r.row)
               [] r.kind = "save" /\ ok -> Put(page, r.row)
               [] r.kind = "delete" /\ ~ lost -> Without(page, r.id)
               [] r.kind = "toggle" /\ lost -> Reverted(page, r)
               [] OTHER -> page
  /\ torn' = (torn \/ (lost /\ r.done)
                   \/ (r.reply = "refused" /\ r.kind \in {"toggle", "delete"}))
  /\ reqs' = [reqs EXCEPT ![s] = Free]
  /\ UNCHANGED <<table, sync, sent>>

Next ==
  \/ fetchPolicies
  \/ \E s \in Slots : \/ \E d \in Drafts : handleCreate(s, d)
                      \/ \E id \in Ids : \/ handleToggleActive(s, id) \/ handleDelete(s, id)
                                         \/ \E d \in Drafts : saveEdit(s, id, d)
                      \/ Serve(s) \/ Refuse(s) \/ Receive(s)
  \/ pushPolicyToEngine
  \/ doPut

Spec == Init /\ [][Next]_vars
---------------------------------------------------------------------------
(* Who decides about a tool name.                                          *)

First(S) == CHOOSE i \in S : \A j \in S : i <= j

testPolicy_Last(rules, name) ==
  LET hits == {i \in DOMAIN rules : name \in rules[i].regex}
  IN  IF hits = {} THEN "allow" ELSE rules[CHOOSE i \in hits : \A j \in hits : j <= i].decision
\* The page's test of one policy: a rule whose text is no regular expression
\* is skipped, and no match is an allow.
testPolicy(rules, name) ==
  LET hits == {i \in DOMAIN rules : name \in rules[i].regex}
  IN  IF hits = {} THEN "allow" ELSE rules[First(hits)].decision

\* The engine's answer to any agent: the pushed policy has rules and no scopes.
EngineSays(name) ==
  LET rules == [i \in DOMAIN engine |-> [match |-> engine[i].glob, actor |-> {"agent"},
                                         decision |-> engine[i].decision]]
      d == PE!EvaluateAgent([rules |-> rules, scopes |-> [a \in {"agent"} |-> None]],
                            "agent", name, 100)
  IN  CASE d.compute -> "compute" [] d.review -> "human_review"
        [] ~ d.compute /\ ~ d.review /\ d.allowed -> "allow" [] OTHER -> "deny"

Settled == /\ page # None /\ \A s \in Slots : reqs[s] = Free
           /\ due = 0 /\ texts = {} /\ inForce = listings /\ ~ torn /\ sent > 0

\* Every variable has its type, and no policy is listed twice.
TypeOK ==
  /\ \A list \in {table} \cup (IF page = None THEN {} ELSE {page}) :
       /\ \A i \in DOMAIN list : list[i] \in Row
       /\ \A i, j \in DOMAIN list : list[i].id = list[j].id => i = j
  /\ \A s \in Slots : reqs[s].kind \in {"free", "create", "toggle", "save", "delete"}
  /\ due \in 0..MaxSent /\ listings \in 0..MaxSent /\ inForce \in 0..listings
  /\ \A t \in texts : t.nth \in 1..listings
  /\ sent \in 0..MaxSent
  /\ torn \in BOOLEAN

\* With all answers in, the page shows the table, row for row and in its order,
\* unless two requests for one policy overlapped, an answer was lost after the
\* work was done, or a toggle or delete was refused (handleCreate,
\* handleToggleActive and its revert, saveEdit, handleDelete).
PageShowsTable ==
  page # None /\ (\A s \in Slots : reqs[s] = Free) /\ ~ torn => page = table

\* Once the pushes are through and the engine has the text listed last (it did
\* not fail, and no older text came after it), the engine decides every tool as
\* the page reads from top to bottom: by the first active policy with a rule that
\* matches as a glob, and in it by the first such rule; it denies a tool no rule
\* matches (compileToEngineYaml, listPolicies, EvaluateAgent).
Hits(rules, n) == {k \in DOMAIN rules : n \in rules[k].glob}
PageOrderDecides ==
  Settled => \A n \in Names :
    LET hits == {i \in DOMAIN page : page[i].active /\ Hits(page[i].rules, n) # {}}
        rules == page[First(hits)].rules
    IN  EngineSays(n) = IF hits = {} THEN "deny" ELSE rules[First(Hits(rules, n))].decision

OneActive == Cardinality({i \in DOMAIN page : page[i].active}) = 1
ActiveRules == LET i == CHOOSE j \in DOMAIN page : page[j].active IN page[i].rules

\* The page's test of the only active policy tells what the engine will decide
\* of a tool that every rule reads the same way as a regular expression and as
\* a glob, and that some rule matches (testPolicy, matchAction).
TestPredictsPlain ==
  Settled /\ OneActive => \A n \in Names :
    LET rules == ActiveRules IN
    /\ \A i \in DOMAIN rules : n \in rules[i].regex <=> n \in rules[i].glob
    /\ \E i \in DOMAIN rules : n \in rules[i].glob
    => testPolicy(rules, n) = EngineSays(n)

\* What policy-sync.ts says of the push: "decisions match what the user sees".
\* The page's patterns are regular expressions and its default is allow, the
\* engine's are globs and its default is deny.
DecisionsMatch ==
  Settled /\ OneActive => \A n \in Names : testPolicy(ActiveRules, n) = EngineSays(n)
=============================================================================
