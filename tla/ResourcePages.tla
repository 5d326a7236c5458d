--------------------------- MODULE ResourcePages ---------------------------
(* The dashboard pages on which a user creates and retires API keys and     *)
(* agents: app/api-key/page.tsx, app/dashboard/page.tsx and                 *)
(* app/agents/page.tsx, with their routes and the statements of             *)
(* lib/apikeys.ts and lib/agents.ts.                                        *)
(*                                                                          *)
(* Each page keeps its own copy of the rows in React state, fetched once,   *)
(* and edits that copy when a request of its own is answered.  A request is *)
(* sent, served and answered in three steps, so that everything else (the   *)
(* user's other clicks, and another tab) can come between.  A request may   *)
(* be refused (a 500, or a 401 once the session is over) or its answer may  *)
(* never come; a lost request may have been served.                         *)
EXTENDS Naturals

CONSTANTS
  Ids,    \* identifiers of keys or of agents, handed out by the server
  Tabs,   \* browser tabs of one user
  Slots,  \* the creates one tab may have in flight: strings, not "load"
  None

KeyPages == {"apiKey", "dashboard"}
Pages == KeyPages \cup {"agents"}
Statuses == {"none", "active", "suspended", "revoked"}

VARIABLES
  page,   \* which page each tab shows
  table,  \* lelu_api_keys or lelu_agents: the status of each row
  view,   \* the rows each page has in its state
  list,   \* the GETs each tab has in flight: the load, and a reload after each create
  ui,     \* loading, the create modal, the secret on screen, the open confirmation
  post,   \* the creates each tab has in flight
  act,    \* the revoke or suspend each tab has in flight
  acked,  \* history: rows a tab's user was told were created, and then listed
  overlap \* history: tabs that sent a create while an earlier one was under way

vars == <<page, table, view, list, ui, post, act, acked, overlap>>

Empty == [i \in Ids |-> "none"]
Verbs(t) == IF page[t] = "agents" THEN {"revoke", "suspend"} ELSE {"revoke"}
Gets == {"load"} \cup Slots
Idle == [st |-> "idle", id |-> None]
NoGet == [st |-> "idle", rows |-> Empty, made |-> None]
Ask(i) == [st |-> "sent", rows |-> Empty, made |-> i]
NoAct == [st |-> "idle", id |-> None, verb |-> "revoke"]

\* useEffect on mount: the rows there are, if any, are asked for at once.
Init ==
  /\ page \in [Tabs -> KeyPages] \cup [Tabs -> {"agents"}]
  /\ table \in [Ids -> {"none", "active"}]
  /\ view = [t \in Tabs |-> Empty]
  /\ list = [t \in Tabs |-> [g \in Gets |-> IF g = "load" THEN Ask(None) ELSE NoGet]]
  /\ ui = [t \in Tabs |-> [loading |-> TRUE, modal |-> FALSE, creating |-> FALSE,
                           reveal |-> None, target |-> None, verb |-> "revoke", busy |-> FALSE]]
  /\ post = [t \in Tabs |-> [s \in Slots |-> Idle]]
  /\ act = [t \in Tabs |-> NoAct]
  /\ acked = [t \in Tabs |-> {}] /\ overlap = {}

(* ---- The rows -------------------------------------------------------- *)

\* GET /api/dashboard/keys, GET /api/agents: listApiKeys, listAgents.
ServeList(t, g) ==
  /\ list[t][g].st = "sent"
  /\ \E st \in {"read", "refused", "lost"} :
       list' = [list EXCEPT ![t][g].st = st, ![t][g].rows = IF st = "read" THEN table ELSE Empty]
  /\ UNCHANGED <<page, table, view, ui, post, act, acked, overlap>>

\* The rows a page keeps of an answer: the dashboard drops the revoked ones,
\* and the key page takes a refusal, which has no keys, for an empty list.
Shown(t, answer) ==
  CASE answer.st = "read" /\ page[t] = "dashboard" ->
         [i \in Ids |-> IF answer.rows[i] = "revoked" THEN "none" ELSE answer.rows[i]]
    [] answer.st = "read" /\ page[t] # "dashboard" -> answer.rows
    [] answer.st = "refused" /\ page[t] = "apiKey" -> Empty
    [] OTHER -> view[t]

\* The end of fetchData, of fetchKeys (the dashboard's reload after a create)
\* and of fetchAgents.
ApplyList(t, g) ==
  LET answer == list[t][g] IN
  /\ answer.st \in {"read", "refused", "lost"}
  /\ view' = [view EXCEPT ![t] = Shown(t, answer)]
  /\ list' = [list EXCEPT ![t][g] = NoGet]
  /\ ui' = IF g = "load" THEN [ui EXCEPT ![t].loading = FALSE] ELSE [ui EXCEPT ![t].creating = FALSE]
  /\ acked' = IF answer.st = "read" /\ answer.made # None
              THEN [acked EXCEPT ![t] = @ \cup {answer.made}] ELSE acked
  /\ UNCHANGED <<page, table, post, act, overlap>>

(* ---- Creating -------------------------------------------------------- *)

\* No overlay covers the page.
Clear_SecretAside(t) == ~ui[t].modal /\ ui[t].target = None
Clear(t) ==
  /\ ~ui[t].modal /\ ui[t].target = None
  /\ page[t] = "apiKey" => ui[t].reveal = None

\* The key page renders its button while it loads; the others show a spinner.
OpenCreate(t) ==
  /\ Clear(t)
  /\ page[t] = "apiKey" \/ ~ui[t].loading
  /\ ui' = [ui EXCEPT ![t].modal = TRUE]
  /\ UNCHANGED <<page, table, view, list, post, act, acked, overlap>>

\* Cancel, a click beside the modal, or Done under the secret: the dashboard
\* forgets the secret with the modal.
CloseCreate(t) ==
  /\ ui[t].modal
  /\ ui' = [ui EXCEPT ![t].modal = FALSE,
                      ![t].reveal = IF page[t] = "dashboard" THEN None ELSE @]
  /\ UNCHANGED <<page, table, view, list, post, act, acked, overlap>>

\* Done in the key page's RevealModal.
CloseReveal(t) ==
  /\ page[t] = "apiKey" /\ ui[t].reveal # None
  /\ ui' = [ui EXCEPT ![t].reveal = None]
  /\ UNCHANGED <<page, table, view, list, post, act, acked, overlap>>

\* The form of the create modal can be submitted.  The dashboard shows the
\* secret in its place, and takes Enter in the name field also while a create
\* is under way; on the agents page `creating`, which outlives the modal,
\* disables the only button, and each CreateModal of the key page has a
\* `loading` of its own.
CanSubmit_Always(t) == ui[t].modal
CanSubmit(t) ==
  /\ ui[t].modal
  /\ IF page[t] = "dashboard" THEN ui[t].reveal = None ELSE ~ui[t].creating

\* A create of this tab, or the reload after it, is not over.
UnderWay(t, s) == post[t][s].st # "idle" \/ list[t][s].st # "idle"

\* submit, handleCreate: the POST leaves.
Submit(t, s) ==
  /\ CanSubmit(t)
  /\ ~UnderWay(t, s)
  /\ post' = [post EXCEPT ![t][s].st = "sent"]
  /\ ui' = [ui EXCEPT ![t].creating = TRUE]
  /\ overlap' = IF \E o \in Slots : UnderWay(t, o) THEN overlap \cup {t} ELSE overlap
  /\ UNCHANGED <<page, table, view, list, act, acked>>

\* A new CreateModal on the key page starts with loading false.
ReopenCreate(t) ==
  /\ page[t] = "apiKey" /\ ui[t].creating /\ ~ui[t].modal
  /\ ui' = [ui EXCEPT ![t].creating = FALSE]
  /\ UNCHANGED <<page, table, view, list, post, act, acked, overlap>>

\* POST: createApiKey, createAgent.
ServeCreate_NoInsert(t, s) ==
  /\ post[t][s].st = "sent"
  /\ \E i \in Ids : post' = [post EXCEPT ![t][s] = [st |-> "made", id |-> i]]
  /\ UNCHANGED <<page, table, view, list, ui, act, acked, overlap>>
ServeCreate(t, s) ==
  /\ post[t][s].st = "sent"
  /\ \/ \E i \in Ids, st \in {"made", "lost"} :
          /\ table[i] = "none"
          /\ table' = [table EXCEPT ![i] = "active"]
          /\ post' = [post EXCEPT ![t][s] = [st |-> st, id |-> i]]
     \/ /\ post' = [post EXCEPT ![t][s] = [st |-> "lost", id |-> None]]
        /\ UNCHANGED table
  /\ UNCHANGED <<page, view, list, ui, act, acked, overlap>>

\* The row is in the page's state when the answer is taken, except on the
\* dashboard, which asks for the list again, and where the load of the key
\* page is still to come and replaces what it finds.
FinishCreate_Unlisted(t, s) ==
  LET i == post[t][s].id  dash == page[t] = "dashboard" IN
  /\ post[t][s].st = "made"
  /\ post' = [post EXCEPT ![t][s] = Idle]
  /\ list' = IF dash THEN [list EXCEPT ![t][s] = Ask(i)] ELSE list
  /\ ui' = [ui EXCEPT ![t].modal = dash /\ @,
                      ![t].reveal = IF page[t] = "agents" THEN None ELSE i,
                      ![t].creating = dash]
  /\ acked' = IF dash \/ ui[t].loading THEN acked ELSE [acked EXCEPT ![t] = @ \cup {i}]
  /\ UNCHANGED <<page, table, view, act, overlap>>
FinishCreate(t, s) ==
  LET i == post[t][s].id  dash == page[t] = "dashboard" IN
  /\ post[t][s].st = "made"
  /\ post' = [post EXCEPT ![t][s] = Idle]
  /\ view' = IF dash THEN view ELSE [view EXCEPT ![t][i] = "active"]
  /\ list' = IF dash THEN [list EXCEPT ![t][s] = Ask(i)] ELSE list
  /\ ui' = [ui EXCEPT ![t].modal = dash /\ @,
                      ![t].reveal = IF page[t] = "agents" THEN None ELSE i,
                      ![t].creating = dash]
  /\ acked' = IF dash \/ ui[t].loading THEN acked ELSE [acked EXCEPT ![t] = @ \cup {i}]
  /\ UNCHANGED <<page, table, act, overlap>>

\* The answer is an error, or there is none: the modal says so.
FailCreate(t, s) ==
  /\ post[t][s].st = "lost"
  /\ post' = [post EXCEPT ![t][s] = Idle]
  /\ ui' = [ui EXCEPT ![t].creating = FALSE]
  /\ UNCHANGED <<page, table, view, list, act, acked, overlap>>

(* ---- Revoking and suspending ----------------------------------------- *)

\* Revoke on a row of the page, or Suspend in an agent's menu: both are
\* offered for active rows only, and no row shows while the page loads.
Choose(t, i, verb) ==
  /\ Clear(t) /\ ~ui[t].loading
  /\ view[t][i] = "active" /\ verb \in Verbs(t)
  /\ ui' = [ui EXCEPT ![t].target = i, ![t].verb = verb]
  /\ UNCHANGED <<page, table, view, list, post, act, acked, overlap>>

\* Cancel is there while the request is on its way, too.
Cancel(t) ==
  /\ ui[t].target # None
  /\ ui' = [ui EXCEPT ![t].target = None]
  /\ UNCHANGED <<page, table, view, list, post, act, acked, overlap>>

\* handleRevoke, handleAction: the button is disabled while a request of this
\* page is on its way.
Confirm(t) ==
  /\ ui[t].target # None /\ ~ui[t].busy
  /\ act' = [act EXCEPT ![t] = [st |-> "sent", id |-> ui[t].target, verb |-> ui[t].verb]]
  /\ ui' = [ui EXCEPT ![t].busy = TRUE]
  /\ UNCHANGED <<page, table, view, list, post, acked, overlap>>

\* revokeApiKey's statement leaves a revoked key as it is; setAgentStatus
\* writes the status over any other.
Retired(t, verb) ==
  IF page[t] # "agents" THEN "revoked"
  ELSE IF verb = "revoke" THEN "revoked" ELSE "suspended"

\* DELETE, or POST .../suspend.
ServeAct(t) ==
  LET i == act[t].id IN
  /\ act[t].st = "sent"
  /\ \/ \E st \in {"ok", "lost"} :
          /\ table' = [table EXCEPT ![i] = Retired(t, act[t].verb)]
          /\ act' = [act EXCEPT ![t].st = st]
     \/ /\ \E st \in {"refused", "lost"} : act' = [act EXCEPT ![t].st = st]
        /\ UNCHANGED table
  /\ UNCHANGED <<page, view, list, ui, post, acked, overlap>>

\* What the page makes of the answer: the key page marks the row whatever the
\* status of the answer, the others only on success.
Marked(t) ==
  CASE act[t].st = "ok" /\ page[t] = "dashboard" -> "none"
    [] act[t].st = "ok" /\ page[t] # "dashboard" -> Retired(t, act[t].verb)
    [] act[t].st = "refused" /\ page[t] = "apiKey" -> "revoked"
    [] OTHER -> view[t][act[t].id]

\* The finally of both handlers closes whichever confirmation is open.
FinishAct_KeepTarget(t) ==
  /\ act[t].st \in {"ok", "refused", "lost"}
  /\ view' = [view EXCEPT ![t][act[t].id] = Marked(t)]
  /\ act' = [act EXCEPT ![t] = NoAct]
  /\ ui' = [ui EXCEPT ![t].busy = FALSE]
  /\ UNCHANGED <<page, table, list, post, acked, overlap>>
FinishAct_AllRows(t) ==
  /\ act[t].st \in {"ok", "refused", "lost"}
  /\ view' = [view EXCEPT ![t] = [i \in Ids |->
             IF i = act[t].id \/ (page[t] # "dashboard" /\ @[i] # "none") THEN Marked(t) ELSE @[i]]]
  /\ act' = [act EXCEPT ![t] = NoAct]
  /\ ui' = [ui EXCEPT ![t].busy = FALSE, ![t].target = None]
  /\ UNCHANGED <<page, table, list, post, acked, overlap>>
FinishAct(t) ==
  /\ act[t].st \in {"ok", "refused", "lost"}
  /\ view' = [view EXCEPT ![t][act[t].id] = Marked(t)]
  /\ act' = [act EXCEPT ![t] = NoAct]
  /\ ui' = [ui EXCEPT ![t].busy = FALSE, ![t].target = None]
  /\ UNCHANGED <<page, table, list, post, acked, overlap>>

Next ==
  \E t \in Tabs :
    \/ \E g \in Gets : ServeList(t, g) \/ ApplyList(t, g)
    \/ OpenCreate(t) \/ CloseCreate(t) \/ CloseReveal(t) \/ ReopenCreate(t)
    \/ \E s \in Slots : Submit(t, s) \/ ServeCreate(t, s) \/ FinishCreate(t, s) \/ FailCreate(t, s)
    \/ \E i \in Ids, verb \in {"revoke", "suspend"} : Choose(t, i, verb)
    \/ Cancel(t) \/ Confirm(t) \/ ServeAct(t) \/ FinishAct(t)

Spec == Init /\ [][Next]_vars

(* ---- Properties ------------------------------------------------------ *)

\* Every variable has its type; a page has a secret on screen, or a request
\* to retire a row, only of a row that exists.
TypeOK ==
  /\ page \in [Tabs -> Pages]
  /\ table \in [Ids -> Statuses]
  /\ view \in [Tabs -> [Ids -> Statuses]]
  /\ list \in [Tabs -> [Gets -> [st : {"idle", "sent", "read", "refused", "lost"},
                                rows : [Ids -> Statuses], made : Ids \cup {None}]]]
  /\ overlap \subseteq Tabs
  /\ ui \in [Tabs -> [loading : BOOLEAN, modal : BOOLEAN, creating : BOOLEAN,
                      reveal : Ids \cup {None}, target : Ids \cup {None},
                      verb : {"revoke", "suspend"}, busy : BOOLEAN]]
  /\ post \in [Tabs -> [Slots -> [st : {"idle", "sent", "made", "lost"}, id : Ids \cup {None}]]]
  /\ act \in [Tabs -> [st : {"idle", "sent", "ok", "refused", "lost"}, id : Ids \cup {None},
                       verb : {"revoke", "suspend"}]]
  /\ acked \in [Tabs -> SUBSET Ids]
  /\ \A t \in Tabs : \A i \in {ui[t].reveal, act[t].id} : i = None \/ table[i] # "none"

\* A tab of the key page or of the agents page asks to retire a row only while
\* it shows the row as active: a confirmation left open across the answer to
\* another one (handleAction, handleRevoke) cannot act on a row that the page
\* itself has retired.
ActsOnActive ==
  \A t \in Tabs :
    page[t] # "dashboard" /\ act[t].st = "sent" => view[t][act[t].id] = "active"

\* A row whose creation the page acknowledged stays listed on that page for as
\* long as it is live: neither a reload (fetchKeys) nor another answer drops it,
\* unless creates of a dashboard overlapped, whose reloads may overtake each
\* other.
CreatedListed ==
  \A t \in Tabs : \A i \in acked[t] :
    table[i] = "active" => view[t][i] # "none" \/ (page[t] = "dashboard" /\ t \in overlap)

\* A row the key page or the agents page shows as revoked never turns active
\* again on that page, whatever answers are still to come: except the answer
\* to its own creation, which the key page may have listed, and its user
\* revoked, before the answer came.  The dashboard drops a revoked row, and a
\* reload read before the revocation may show it once more (fetchKeys): of
\* that page nothing is said.
KeepsRevoked ==
  \A t \in Tabs, i \in Ids :
    /\ page[t] # "dashboard" /\ view[t][i] = "revoked"
    /\ \A s \in Slots : post[t][s].id # i
    => view'[t][i] = "revoked"
RevokedStaysShown == [][KeepsRevoked]_vars

\* As long as a tab never had two creates under way at once, a secret on the
\* screen of the key page or of the dashboard stays there until its user
\* closes what shows it: no answer to a create, a load or a revocation
\* replaces it or takes it off (submit, handleCreate, onCreated).  With
\* creates that overlapped both pages replace it by the later answer's.
KeepsSecret ==
  \A t \in Tabs :
    page[t] # "agents" /\ ui[t].reveal # None /\ t \notin overlap
      => \/ ui'[t].reveal = ui[t].reveal
         \/ ui'[t].reveal = None /\ (CloseCreate(t) \/ CloseReveal(t))
SecretStays == [][KeepsSecret]_vars

=============================================================================
