----------------------------- MODULE PagesProofs -----------------------------
(***************************************************************************)
(* Proofs about the pages of the hosted platform that send requests: the   *)
(* sandbox, the key and agent pages, and the policies page with its push to*)
(* the engine, for any numbers of rows, tabs, policies, rules and requests *)
(* under way.  Each page has an inductive invariant of its own; the        *)
(* theorems about module Platform are at the end.                          *)
(***************************************************************************)
EXTENDS Platform, FiniteSetTheorems, SequenceTheorems, WellFoundedInduction, TLAPS


---------------------------------------------------------------------------
(* Playground: form, link and router                                       *)

\* The router is on its way to the link of the form, and rests at it.
PlaygroundInv ==
  /\ form = [tool |-> form.tool, context |-> form.context, args |-> form.args, chip |-> form.chip]
  /\ \E v \in ToolTexts : Playground!Trim(form.tool) = Playground!Trim(v)
  /\ \E c \in ContextTexts : Playground!Trim(form.context) = Playground!Trim(c)
  /\ nav # None =>
       /\ \E v \in ToolTexts, c \in ContextTexts : nav = Playground!Link([tool |-> v, context |-> c])
       /\ Playground!Blank(form.tool) \/ nav = Playground!Link(form)
  /\ nav = None => Playground!Blank(form.tool) \/ url = Playground!Link(form)

\* A link is trimmed: the form that is read from it has it.
LEMMA LinkTrimmed ==
  \A v : Playground!Trim(Playground!Trim(v)) = Playground!Trim(v)
BY DEF Playground!Trim, Playground!Text

LEMMA BlankTrimmed ==
  \A x, y : Playground!Trim(x) = Playground!Trim(y) => (Playground!Blank(x) <=> Playground!Blank(y))
<1> SUFFICES ASSUME NEW x, NEW y, Playground!Trim(x) = Playground!Trim(y)
             PROVE  x.core = y.core
  BY DEF Playground!Blank
<1>1. Playground!Trim(x).core = x.core /\ Playground!Trim(y).core = y.core
  BY DEF Playground!Trim, Playground!Text
<1> QED
  BY <1>1

\* A link is there.
LEMMA LinkIsThere ==
  ASSUME NEW f, NEW v \in ToolTexts, NEW c \in ContextTexts,
         Playground!Trim(f.tool) = Playground!Trim(v), Playground!Trim(f.context) = Playground!Trim(c)
  PROVE  Playground!Link(f) # None
<1>1. Playground!Link(f) = Playground!Link([tool |-> v, context |-> c])
  BY DEF Playground!Link
<1> QED
  BY <1>1, PlatformAssumption

\* The link follows the form.
LEMMA FormMoves ==
  ASSUME NEW f, form' = f, UNCHANGED url,
         f = [tool |-> f.tool, context |-> f.context, args |-> f.args, chip |-> f.chip],
         NEW v \in ToolTexts, NEW c \in ContextTexts,
         Playground!Trim(f.tool) = Playground!Trim(v), Playground!Trim(f.context) = Playground!Trim(c),
         PlaygroundInv,
         \/ nav' = Playground!Follow(f)
         \/ nav' = nav /\ Playground!Link(f) = Playground!Link(form)
  PROVE  PlaygroundInv'
<1>1. Playground!Link(f) # None /\ Playground!Link(f) = Playground!Link([tool |-> v, context |-> c])
  BY LinkIsThere DEF Playground!Link
<1>2. CASE nav' = Playground!Link(f)
  BY <1>1, <1>2 DEF PlaygroundInv
<1>3. CASE nav' = nav /\ Playground!Blank(f.tool)
  BY <1>1, <1>3 DEF PlaygroundInv
<1>4. CASE nav' = nav /\ Playground!Link(f) = Playground!Link(form)
  <2>1. Playground!Trim(f.tool) = Playground!Trim(form.tool)
    <3>1. Playground!Link(f).tool = Playground!Link(form).tool
      BY <1>4
    <3> QED
      BY <3>1 DEF Playground!Link
  <2>2. Playground!Blank(f.tool) <=> Playground!Blank(form.tool)
    BY <2>1, BlankTrimmed
  <2> QED
    BY <1>4, <2>2 DEF PlaygroundInv
<1> QED
  BY <1>2, <1>3, <1>4 DEF Playground!Follow

LEMMA PlaygroundStarts == Playground!Init => PlaygroundInv
<1> SUFFICES ASSUME Playground!Init PROVE PlaygroundInv
  OBVIOUS
<1>1. PICK shared \in {None} \cup Tools :
        /\ form = IF shared = None THEN Playground!Scenario(Scenarios[1], 1)
                  ELSE [tool |-> Playground!Trim(shared), context |-> Playground!Text({}, FALSE),
                        args |-> "none", chip |-> 0]
        /\ nav = Playground!Link(form)
  BY DEF Playground!Init
<1>2. PICK v \in ToolTexts, c \in ContextTexts :
        /\ form = [tool |-> form.tool, context |-> form.context, args |-> form.args, chip |-> form.chip]
        /\ Playground!Trim(form.tool) = Playground!Trim(v) /\ Playground!Trim(form.context) = Playground!Trim(c)
  <2>1. CASE shared = None
    <3>1. form = [tool |-> Scenarios[1].tool, context |-> Scenarios[1].context, args |-> "good", chip |-> 1]
      BY <1>1, <2>1 DEF Playground!Scenario
    <3>2. Scenarios[1].tool \in ToolTexts /\ Scenarios[1].context \in ContextTexts
      <4>1. 1 \in DOMAIN Scenarios
        BY PlatformAssumption
      <4> QED
        BY <4>1 DEF ToolTexts, ContextTexts
    <3> QED
      BY <3>1, <3>2
  <2>2. CASE shared # None
    <3>1. form = [tool |-> Playground!Trim(shared), context |-> Playground!Text({}, FALSE), args |-> "none", chip |-> 0]
      BY <1>1, <2>2
    <3>2. shared \in ToolTexts /\ Playground!Text({}, FALSE) \in ContextTexts
      BY <1>1, <2>2 DEF ToolTexts, ContextTexts
    <3>3. Playground!Trim(Playground!Trim(shared)) = Playground!Trim(shared)
      BY DEF Playground!Trim, Playground!Text
    <3> QED
      BY <3>1, <3>2, <3>3
  <2> QED
    BY <2>1, <2>2
<1>3. Playground!Link(form) # None
  BY <1>2, LinkIsThere
<1>4. nav = Playground!Link([tool |-> v, context |-> c])
  BY <1>1, <1>2 DEF Playground!Link
<1> QED
  BY <1>1, <1>2, <1>3, <1>4 DEF PlaygroundInv

LEMMA NavigatedSettles ==
  ASSUME PlaygroundInv, Playground!Navigated
  PROVE  /\ PlaygroundInv' /\ Playground!Settles
         /\ nav' = None /\ url' # url => form'.chip = 0 /\ form'.args = "none"
<1>1. PICK v \in ToolTexts, c \in ContextTexts :
        /\ nav # None /\ nav = Playground!Link([tool |-> v, context |-> c])
        /\ Playground!Blank(form.tool) \/ nav = Playground!Link(form)
        /\ url' = nav
        /\ nav' = IF form'.tool = form.tool /\ form'.context = form.context THEN None ELSE Playground!Link(form')
  BY DEF PlaygroundInv, Playground!Navigated
<1>2. CASE nav = url
  <2>1. form' = form /\ nav' = None
    BY <1>1, <1>2 DEF Playground!Navigated
  <2>2. PlaygroundInv'
    BY <1>1, <2>1 DEF PlaygroundInv
  <2> QED
    BY <1>1, <1>2, <2>1, <2>2 DEF Playground!Settles
<1>3. CASE nav # url
  <2>1. PICK f : /\ f = [tool |-> nav.tool, context |-> nav.context, args |-> "none", chip |-> 0]
                 /\ form' = f
    BY <1>1, <1>3 DEF Playground!Navigated
  <2>2. nav.tool = Playground!Trim(v) /\ nav.context = Playground!Trim(c)
    BY <1>1 DEF Playground!Link
  <2>3. /\ f.tool = Playground!Trim(v) /\ f.context = Playground!Trim(c) /\ f.args = "none" /\ f.chip = 0
        /\ f = [tool |-> f.tool, context |-> f.context, args |-> f.args, chip |-> f.chip]
    BY <2>1, <2>2
  <2>4. Playground!Trim(f.tool) = Playground!Trim(v) /\ Playground!Trim(f.context) = Playground!Trim(c)
    BY <2>3, LinkTrimmed
  <2>5. Playground!Link(f) = nav
    BY <1>1, <2>4 DEF Playground!Link
  <2>6. nav' = None \/ nav' = nav
    BY <1>1, <2>1, <2>5
  <2> QED
    BY <1>1, <2>1, <2>3, <2>4, <2>5, <2>6 DEF PlaygroundInv, Playground!Settles
<1> QED
  BY <1>2, <1>3

\* Every other step leaves the address bar to the router.
LEMMA PlaygroundMoves ==
  ASSUME PlaygroundInv, [Playground!Next]_(Playground!vars), ~Playground!Navigated
  PROVE  PlaygroundInv' /\ url' = url
<1>1. CASE \E v \in Tools : Playground!TypeTool(v)
  <2>1. PICK v \in Tools : Playground!TypeTool(v)
    BY <1>1
  <2>2. PICK f : f = [form EXCEPT !.tool = v, !.chip = 0]
    OBVIOUS
  <2>3. f = [tool |-> v, context |-> form.context, args |-> form.args, chip |-> 0]
    BY <2>2 DEF PlaygroundInv
  <2>4. f.tool = v /\ f.context = form.context /\ v \in ToolTexts
    BY <2>3 DEF ToolTexts
  <2>5. form' = f /\ nav' = Playground!Follow(f) /\ url' = url
    BY <2>1, <2>2 DEF Playground!TypeTool
  <2>6. PICK c \in ContextTexts : Playground!Trim(form.context) = Playground!Trim(c)
    BY DEF PlaygroundInv
  <2>7. f = [tool |-> f.tool, context |-> f.context, args |-> f.args, chip |-> f.chip]
    BY <2>3
  <2> QED
    BY <2>4, <2>5, <2>6, <2>7, FormMoves
<1>2. CASE \E c \in Contexts : Playground!TypeContext(c)
  <2>1. PICK c \in Contexts : Playground!TypeContext(c)
    BY <1>2
  <2>2. PICK f : f = [form EXCEPT !.context = c]
    OBVIOUS
  <2>3. f = [tool |-> form.tool, context |-> c, args |-> form.args, chip |-> form.chip]
    BY <2>2 DEF PlaygroundInv
  <2>4. f.tool = form.tool /\ f.context = c /\ c \in ContextTexts
    BY <2>3 DEF ContextTexts
  <2>5. form' = f /\ nav' = Playground!Follow(f) /\ url' = url
    BY <2>1, <2>2 DEF Playground!TypeContext
  <2>6. PICK v \in ToolTexts : Playground!Trim(form.tool) = Playground!Trim(v)
    BY DEF PlaygroundInv
  <2>7. f = [tool |-> f.tool, context |-> f.context, args |-> f.args, chip |-> f.chip]
    BY <2>3
  <2> QED
    BY <2>4, <2>5, <2>6, <2>7, FormMoves
<1>3. CASE \E k \in DOMAIN Scenarios : Playground!loadScenario(k)
  <2>1. PICK k \in DOMAIN Scenarios : Playground!loadScenario(k)
    BY <1>3
  <2>2. PICK f : f = [tool |-> Scenarios[k].tool, context |-> Scenarios[k].context, args |-> "good", chip |-> k]
    OBVIOUS
  <2>3. /\ f.tool = Scenarios[k].tool /\ f.context = Scenarios[k].context
        /\ f = [tool |-> f.tool, context |-> f.context, args |-> f.args, chip |-> f.chip]
    BY <2>2
  <2>4. f.tool \in ToolTexts /\ f.context \in ContextTexts
    BY <2>3 DEF ToolTexts, ContextTexts
  <2>5. form' = f /\ url' = url
    BY <2>1, <2>2 DEF Playground!loadScenario, Playground!Scenario
  <2>6. \/ nav' = Playground!Follow(f)
        \/ nav' = nav /\ Playground!Link(f) = Playground!Link(form)
    BY <2>1, <2>5 DEF Playground!loadScenario
  <2> QED
    BY <2>3, <2>4, <2>5, <2>6, FormMoves
<1>4. CASE \E a \in {"none", "good", "bad"} : Playground!TypeArgs(a)
  <2>1. PICK a \in {"none", "good", "bad"} : Playground!TypeArgs(a)
    BY <1>4
  <2>2. /\ form' = [tool |-> form.tool, context |-> form.context, args |-> a, chip |-> form.chip]
        /\ nav' = nav /\ url' = url
    BY <2>1 DEF PlaygroundInv, Playground!TypeArgs
  <2>3. /\ form'.tool = form.tool /\ form'.context = form.context
        /\ form' = [tool |-> form'.tool, context |-> form'.context, args |-> form'.args, chip |-> form'.chip]
    BY <2>2
  <2>4. Playground!Link(form') = Playground!Link(form)
    BY <2>3 DEF Playground!Link
  <2> QED
    BY <2>2, <2>3, <2>4 DEF PlaygroundInv
<1>5. CASE UNCHANGED <<form, nav, url>>
  BY <1>5 DEF PlaygroundInv
<1>6. ASSUME NEW s \in Sends,
             \/ Playground!PressSend(s) \/ Playground!PressEnter(s) \/ Playground!Serve(s)
             \/ Playground!Answer(s) \/ Playground!Fail(s)
      PROVE  UNCHANGED <<form, nav, url>>
  BY <1>6 DEF Playground!PressSend, Playground!PressEnter, Playground!handleSend, Playground!Serve,
              Playground!Answer, Playground!Fail
<1> QED
  BY <1>1, <1>2, <1>3, <1>4, <1>5, <1>6 DEF Playground!Next, Playground!vars

LEMMA PlaygroundKeeps ==
  ASSUME PlaygroundInv, [Playground!Next]_(Playground!vars)
  PROVE  /\ PlaygroundInv'
         /\ Playground!Settles /\ Playground!ClearsChip /\ Playground!LinkIsForm
<1>1. CASE Playground!Navigated
  BY <1>1, NavigatedSettles DEF Playground!ClearsChip, Playground!LinkIsForm, PlaygroundInv
<1>2. CASE ~Playground!Navigated
  BY <1>2, PlaygroundMoves DEF Playground!Settles, Playground!ClearsChip, Playground!LinkIsForm, PlaygroundInv
<1> QED
  BY <1>1, <1>2

---------------------------------------------------------------------------
(* ResourcePages: the inductive invariant                                  *)

GetRecords == [st : {"idle", "sent", "read", "refused", "lost"},
               rows : [TableRows -> Resources!Statuses], made : TableRows \cup {None}]
UiRecords == [loading : BOOLEAN, modal : BOOLEAN, creating : BOOLEAN,
              reveal : TableRows \cup {None}, target : TableRows \cup {None},
              verb : {"revoke", "suspend"}, busy : BOOLEAN]
PostRecords == [st : {"idle", "sent", "made", "lost"}, id : TableRows \cup {None}]
ActRecords == [st : {"idle", "sent", "ok", "refused", "lost"}, id : TableRows \cup {None},
               verb : {"revoke", "suspend"}]

\* What one tab is and has in flight.
TabOf(t) == [page |-> page[t], view |-> view[t], list |-> list[t], ui |-> ui[t], post |-> post[t],
             act |-> act[t], acked |-> acked[t], overlaps |-> t \in overlap]

TabTyped(x) ==
  /\ x.page \in Resources!Pages /\ x.view \in [TableRows -> Resources!Statuses]
  /\ x.list \in [Resources!Gets -> GetRecords] /\ x.ui \in UiRecords
  /\ x.post \in [Calls -> PostRecords] /\ x.act \in ActRecords /\ x.acked \in SUBSET TableRows

Busy(x, s) == x.post[s].st # "idle" \/ x.list[s].st # "idle"

\* The rows are loaded once; only the dashboard asks for them again, and until
\* they are there nothing is retired and nothing was listed.
Loads(x) ==
  /\ x.page # "dashboard" => \A s \in Calls : x.list[s].st = "idle"
  /\ x.list["load"].made = None
  /\ ~x.ui.loading => x.list["load"].st = "idle"
  /\ x.ui.loading => /\ x.acked = {} /\ x.act.st = "idle" /\ x.ui.target = None
                     /\ \A i \in TableRows : x.view[i] \in {"none", "active"}
                     /\ x.page = "dashboard" => ~x.ui.modal /\ \A s \in Calls : ~Busy(x, s)

\* A confirmation that is open or on its way is about a row shown as active;
\* one that was carried out has retired its row.
Retires(x, rs) ==
  /\ x.ui.target # None /\ x.page # "dashboard" => x.view[x.ui.target] = "active"
  /\ x.act.st # "idle" => /\ x.act.id \in TableRows
                          /\ x.page # "dashboard" => x.view[x.act.id] = "active"
  /\ x.act.st = "ok" => rs[x.act.id] # "active"

\* Whatever a tab knows of is in the table.
Knows(x, rs) ==
  /\ \A i \in TableRows : x.view[i] # "none" \/ i \in x.acked \cup {x.ui.reveal, x.ui.target, x.act.id} => rs[i] # "none"
  /\ \A s \in Calls : x.post[s].id # None => rs[x.post[s].id] # "none"
  /\ \A s \in Calls : x.post[s].st = "made" => x.post[s].id # None
  /\ \A g \in Resources!Gets : x.list[g].made # None => rs[x.list[g].made] # "none"

\* An answer with rows is of a moment: no live row was retired then, and the
\* row the answer is for was there.
Reads(x, rs) ==
  \A g \in Resources!Gets :
    /\ \A i \in TableRows : x.list[g].rows[i] # "none" => rs[i] # "none" /\ (x.list[g].rows[i] # "active" => rs[i] # "active")
    /\ x.list[g].st = "read" /\ x.list[g].made # None => x.list[g].rows[x.list[g].made] # "none"

\* Without overlap one create is under way at a time: a secret on screen is of
\* the last one, and no other create can be sent beside it; a reload of the
\* dashboard is of all that were listed.
Alone(x) ==
  ~x.overlaps =>
    /\ \A s, o \in Calls : Busy(x, s) /\ Busy(x, o) => s = o
    /\ x.page # "agents" /\ x.ui.reveal # None => \A s \in Calls : x.post[s].st = "idle"
    /\ x.page = "apiKey" /\ x.ui.reveal # None => ~x.ui.modal
    /\ x.page = "dashboard" =>
         \A s \in Calls : x.list[s].st = "read" => \A i \in x.acked : x.list[s].rows[i] # "none"

Lists(x, rs) ==
  \A i \in x.acked : rs[i] = "active" => x.view[i] # "none" \/ (x.page = "dashboard" /\ x.overlaps)

TabSound(x, rs) ==
  /\ TabTyped(x)
  /\ Loads(x) /\ Retires(x, rs) /\ Knows(x, rs) /\ Reads(x, rs) /\ Alone(x) /\ Lists(x, rs)

ResourcesInv ==
  /\ Resources!TypeOK
  /\ \A t \in Tabs : TabSound(TabOf(t), table)

---------------------------------------------------------------------------
(* ResourcePages: the table and the tabs                                   *)

\* No row leaves the table, and none that was retired becomes live.
TableMoves(rs, ws) ==
  \A i \in TableRows : /\ rs[i] # "none" => ws[i] # "none"
                       /\ ws[i] = "active" => rs[i] \in {"none", "active"}

LEMMA TabStays ==
  ASSUME NEW x, NEW rs, NEW ws \in [TableRows -> Resources!Statuses],
         TabSound(x, rs), TableMoves(rs, ws)
  PROVE  TabSound(x, ws)
<1>1. TabTyped(x) /\ Loads(x) /\ Alone(x)
  BY DEF TabSound
<1>2. x.act.id \in TableRows \cup {None} /\ x.acked \subseteq TableRows
  BY <1>1 DEF TabTyped, ActRecords
<1>3. Retires(x, ws)
  BY <1>2 DEF TabSound, Retires, Knows, TableMoves
<1>4. Knows(x, ws)
  <2>1. \A s \in Calls : x.post[s].id \in TableRows \cup {None}
    BY <1>1 DEF TabTyped, PostRecords
  <2>2. \A g \in Resources!Gets : x.list[g].made \in TableRows \cup {None}
    BY <1>1 DEF TabTyped, GetRecords
  <2> QED
    BY <2>1, <2>2 DEF TabSound, Knows, TableMoves
<1>5. Reads(x, ws)
  BY DEF TabSound, Reads, TableMoves
<1>6. Lists(x, ws)
  BY <1>2 DEF TabSound, Lists, Knows, TableMoves
<1> QED
  BY <1>1, <1>3, <1>4, <1>5, <1>6 DEF TabSound

LEMMA TableStays == \A rs : TableMoves(rs, rs)
BY DEF TableMoves

\* One tab moves to y.
TabGoes(t, y) ==
  /\ y = [page |-> page[t], view |-> y.view, list |-> y.list, ui |-> y.ui, post |-> y.post,
          act |-> y.act, acked |-> y.acked, overlaps |-> y.overlaps]
  /\ page' = page /\ view' = [view EXCEPT ![t] = y.view] /\ list' = [list EXCEPT ![t] = y.list]
  /\ ui' = [ui EXCEPT ![t] = y.ui] /\ post' = [post EXCEPT ![t] = y.post] /\ act' = [act EXCEPT ![t] = y.act]
  /\ acked' = [acked EXCEPT ![t] = y.acked]
  /\ overlap' = IF y.overlaps THEN overlap \cup {t} ELSE overlap
  /\ y.overlaps = (t \in overlap')

LEMMA ResourcesTyped ==
  ASSUME Resources!TypeOK
  PROVE  /\ page \in [Tabs -> Resources!Pages] /\ table \in [TableRows -> Resources!Statuses]
         /\ view \in [Tabs -> [TableRows -> Resources!Statuses]]
         /\ list \in [Tabs -> [Resources!Gets -> GetRecords]] /\ overlap \subseteq Tabs
         /\ ui \in [Tabs -> UiRecords] /\ post \in [Tabs -> [Calls -> PostRecords]]
         /\ act \in [Tabs -> ActRecords] /\ acked \in [Tabs -> SUBSET TableRows]
BY DEF Resources!TypeOK, GetRecords, UiRecords, PostRecords, ActRecords

LEMMA TabMoves ==
  ASSUME ResourcesInv, NEW t \in Tabs, NEW y, TabGoes(t, y), TabSound(y, table'),
         table' \in [TableRows -> Resources!Statuses], TableMoves(table, table')
  PROVE  ResourcesInv'
<1>1. /\ page \in [Tabs -> Resources!Pages] /\ table \in [TableRows -> Resources!Statuses]
      /\ view \in [Tabs -> [TableRows -> Resources!Statuses]]
      /\ list \in [Tabs -> [Resources!Gets -> GetRecords]] /\ overlap \subseteq Tabs
      /\ ui \in [Tabs -> UiRecords] /\ post \in [Tabs -> [Calls -> PostRecords]]
      /\ act \in [Tabs -> ActRecords] /\ acked \in [Tabs -> SUBSET TableRows]
  BY ResourcesTyped DEF ResourcesInv
<1>2. /\ y.view \in [TableRows -> Resources!Statuses] /\ y.list \in [Resources!Gets -> GetRecords]
      /\ y.ui \in UiRecords /\ y.post \in [Calls -> PostRecords] /\ y.act \in ActRecords
      /\ y.acked \in SUBSET TableRows
  BY DEF TabSound, TabTyped
<1>3. /\ view' \in [Tabs -> [TableRows -> Resources!Statuses]]
      /\ list' \in [Tabs -> [Resources!Gets -> GetRecords]] /\ overlap' \subseteq Tabs
      /\ ui' \in [Tabs -> UiRecords] /\ post' \in [Tabs -> [Calls -> PostRecords]]
      /\ act' \in [Tabs -> ActRecords] /\ acked' \in [Tabs -> SUBSET TableRows] /\ page' = page
  <2>1. overlap' \subseteq Tabs /\ page' = page
    BY <1>1 DEF TabGoes
  <2>2. view' \in [Tabs -> [TableRows -> Resources!Statuses]] /\ list' \in [Tabs -> [Resources!Gets -> GetRecords]]
    BY <1>1, <1>2 DEF TabGoes
  <2>3. ui' \in [Tabs -> UiRecords] /\ post' \in [Tabs -> [Calls -> PostRecords]]
    BY <1>1, <1>2 DEF TabGoes
  <2>4. act' \in [Tabs -> ActRecords] /\ acked' \in [Tabs -> SUBSET TableRows]
    BY <1>1, <1>2 DEF TabGoes
  <2> QED
    BY <2>1, <2>2, <2>3, <2>4
<1>4. TabOf(t)' = y
  <2>1. /\ view'[t] = y.view /\ list'[t] = y.list /\ ui'[t] = y.ui /\ post'[t] = y.post
        /\ act'[t] = y.act /\ acked'[t] = y.acked /\ page'[t] = page[t]
    BY <1>1 DEF TabGoes
  <2> QED
    BY <2>1 DEF TabGoes, TabOf
<1>5. ASSUME NEW o \in Tabs, o # t
      PROVE  TabOf(o)' = TabOf(o)
  <2>1. /\ view'[o] = view[o] /\ list'[o] = list[o] /\ ui'[o] = ui[o] /\ post'[o] = post[o]
        /\ act'[o] = act[o] /\ acked'[o] = acked[o] /\ page'[o] = page[o]
    BY <1>1, <1>5 DEF TabGoes
  <2>2. (o \in overlap') = (o \in overlap)
    BY <1>5 DEF TabGoes
  <2> QED
    BY <2>1, <2>2 DEF TabOf
<1>6. ASSUME NEW o \in Tabs
      PROVE  TabSound(TabOf(o)', table')
  <2>1. CASE o = t
    BY <1>4, <2>1
  <2>2. CASE o # t
    <3>1. PICK x : x = TabOf(o)
      OBVIOUS
    <3>2. TabSound(x, table)
      BY <3>1 DEF ResourcesInv
    <3>3. TabSound(x, table')
      BY <3>2, TabStays
    <3> QED
      BY <1>5, <2>2, <3>1, <3>3
  <2> QED
    BY <2>1, <2>2
<1>7. ASSUME NEW o \in Tabs, NEW i \in {ui'[o].reveal, act'[o].id}
      PROVE  i = None \/ table'[i] # "none"
  <2>1. PICK x : x = TabOf(o)'
    OBVIOUS
  <2>2. TabTyped(x) /\ Knows(x, table') /\ x.ui = ui'[o] /\ x.act = act'[o]
    BY <1>6, <2>1 DEF TabSound, TabOf
  <2>3. i \in TableRows \cup {None}
    BY <1>7, <2>2 DEF TabTyped, UiRecords, ActRecords
  <2> QED
    BY <1>7, <2>2, <2>3 DEF Knows
<1>8. Resources!TypeOK'
  BY <1>1, <1>3, <1>7 DEF Resources!TypeOK, GetRecords, UiRecords, PostRecords, ActRecords
<1> QED
  BY <1>6, <1>8 DEF ResourcesInv

---------------------------------------------------------------------------
(* ResourcePages: the steps                                                *)

\* What a tab does not write stays.
LEMMA TabWritten ==
  ASSUME ResourcesInv, NEW t \in Tabs, NEW x, x = TabOf(t)
  PROVE  /\ TabSound(x, table) /\ TabTyped(x) /\ table \in [TableRows -> Resources!Statuses]
         /\ x.page = page[t] /\ x.view = view[t] /\ x.list = list[t] /\ x.ui = ui[t] /\ x.post = post[t]
         /\ x.act = act[t] /\ x.acked = acked[t] /\ x.overlaps = (t \in overlap)
         /\ view = [view EXCEPT ![t] = view[t]] /\ list = [list EXCEPT ![t] = list[t]]
         /\ ui = [ui EXCEPT ![t] = ui[t]] /\ post = [post EXCEPT ![t] = post[t]]
         /\ act = [act EXCEPT ![t] = act[t]] /\ acked = [acked EXCEPT ![t] = acked[t]]
         /\ overlap = IF t \in overlap THEN overlap \cup {t} ELSE overlap
<1>1. TabSound(x, table)
  BY DEF ResourcesInv
<1>2. TabTyped(x)
  BY <1>1 DEF TabSound
<1>3. /\ page \in [Tabs -> Resources!Pages] /\ table \in [TableRows -> Resources!Statuses]
      /\ view \in [Tabs -> [TableRows -> Resources!Statuses]]
      /\ list \in [Tabs -> [Resources!Gets -> GetRecords]] /\ overlap \subseteq Tabs
      /\ ui \in [Tabs -> UiRecords] /\ post \in [Tabs -> [Calls -> PostRecords]]
      /\ act \in [Tabs -> ActRecords] /\ acked \in [Tabs -> SUBSET TableRows]
  BY ResourcesTyped DEF ResourcesInv
<1> QED
  BY <1>1, <1>2, <1>3 DEF TabOf

\* The user opens, closes, chooses or cancels.
LEMMA UiSound ==
  ASSUME NEW x, NEW rs, TabSound(x, rs), NEW u \in UiRecords,
         u.loading = x.ui.loading,
         u.modal => x.ui.modal \/ ~x.ui.loading \/ x.page # "dashboard",
         u.target # None => ~x.ui.loading /\ rs[u.target] # "none" /\ (x.page # "dashboard" => x.view[u.target] = "active"),
         u.reveal \in {None, x.ui.reveal},
         u.modal => x.ui.modal \/ x.page # "apiKey" \/ x.ui.reveal = None,
         NEW y, y.page = x.page, y.view = x.view, y.list = x.list, y.ui = u, y.post = x.post, y.act = x.act,
         y.acked = x.acked, y.overlaps = x.overlaps
  PROVE  TabSound(y, rs)
<1>1. TabTyped(y)
  BY DEF TabSound, TabTyped
<1>2. Loads(y)
  BY DEF TabSound, Loads, Busy
<1>3. Retires(y, rs)
  BY DEF TabSound, Retires
<1>4. Knows(y, rs)
  BY PlatformAssumption DEF TabSound, Knows
<1>5. Reads(y, rs)
  BY DEF TabSound, Reads
<1>6. Alone(y)
  BY DEF TabSound, Alone, Busy
<1>7. Lists(y, rs)
  BY DEF TabSound, Lists
<1> QED
  BY <1>1, <1>2, <1>3, <1>4, <1>5, <1>6, <1>7 DEF TabSound

LEMMA UiMoves ==
  ASSUME ResourcesInv, NEW t \in Tabs, NEW u \in UiRecords, ui' = [ui EXCEPT ![t] = u],
         UNCHANGED <<page, table, view, list, post, act, acked, overlap>>,
         u.loading = ui[t].loading,
         u.modal => ui[t].modal \/ ~ui[t].loading \/ page[t] # "dashboard",
         u.target # None => ~ui[t].loading /\ table[u.target] # "none" /\ (page[t] # "dashboard" => view[t][u.target] = "active"),
         u.reveal \in {None, ui[t].reveal},
         u.modal => ui[t].modal \/ page[t] # "apiKey" \/ ui[t].reveal = None
  PROVE  ResourcesInv'
<1>1. PICK x : x = TabOf(t)
  OBVIOUS
<1>2. /\ TabSound(x, table) /\ TabTyped(x) /\ table \in [TableRows -> Resources!Statuses]
      /\ x.page = page[t] /\ x.view = view[t] /\ x.list = list[t] /\ x.ui = ui[t] /\ x.post = post[t]
      /\ x.act = act[t] /\ x.acked = acked[t] /\ x.overlaps = (t \in overlap)
      /\ view = [view EXCEPT ![t] = view[t]] /\ list = [list EXCEPT ![t] = list[t]]
      /\ ui = [ui EXCEPT ![t] = ui[t]] /\ post = [post EXCEPT ![t] = post[t]]
      /\ act = [act EXCEPT ![t] = act[t]] /\ acked = [acked EXCEPT ![t] = acked[t]]
      /\ overlap = IF t \in overlap THEN overlap \cup {t} ELSE overlap
  BY <1>1, TabWritten
<1>3. PICK y : y = [page |-> page[t], view |-> view[t], list |-> list[t], ui |-> u, post |-> post[t],
                    act |-> act[t], acked |-> acked[t], overlaps |-> t \in overlap]
  OBVIOUS
<1>4. /\ y.page = page[t] /\ y.view = view[t] /\ y.list = list[t] /\ y.ui = u /\ y.post = post[t]
      /\ y.act = act[t] /\ y.acked = acked[t] /\ y.overlaps = (t \in overlap)
  BY <1>3
<1>5. TabSound(y, table)
  BY <1>2, <1>4, UiSound
<1>6. TabGoes(t, y)
  BY <1>2, <1>3, <1>4 DEF TabGoes
<1>7. table' = table
  OBVIOUS
<1>8. TableMoves(table, table')
  BY <1>7, TableStays
<1> QED
  BY <1>2, <1>5, <1>6, <1>7, <1>8, TabMoves

LEMMA ModalKeeps ==
  ASSUME ResourcesInv, NEW t \in Tabs,
         \/ Resources!OpenCreate(t) \/ Resources!CloseCreate(t) \/ Resources!CloseReveal(t)
         \/ Resources!ReopenCreate(t) \/ Resources!Cancel(t)
         \/ \E i \in TableRows, verb \in {"revoke", "suspend"} : Resources!Choose(t, i, verb)
  PROVE  ResourcesInv'
<1>1. PICK x : x = TabOf(t)
  OBVIOUS
<1>2. TabSound(x, table) /\ TabTyped(x) /\ x.page = page[t] /\ x.view = view[t] /\ x.ui = ui[t]
      /\ ui = [ui EXCEPT ![t] = ui[t]]
  BY <1>1, TabWritten
<1>3. ui[t] \in UiRecords
  BY <1>2 DEF TabTyped
<1>4. ui[t].target # None => ~ui[t].loading /\ table[ui[t].target] # "none"
                             /\ (page[t] # "dashboard" => view[t][ui[t].target] = "active")
  BY <1>2 DEF TabSound, TabTyped, UiRecords, Loads, Retires, Knows
<1>5. UNCHANGED <<page, table, view, list, post, act, acked, overlap>>
  BY DEF Resources!OpenCreate, Resources!CloseCreate, Resources!CloseReveal, Resources!ReopenCreate,
         Resources!Cancel, Resources!Choose
<1>6. CASE Resources!OpenCreate(t)
  <2>1. PICK u : u = [ui[t] EXCEPT !.modal = TRUE]
    OBVIOUS
  <2>2. /\ u \in UiRecords /\ u.loading = ui[t].loading /\ u.target = ui[t].target /\ u.reveal = ui[t].reveal
    BY <1>3, <2>1 DEF UiRecords
  <2>3. ui' = [ui EXCEPT ![t] = u] /\ (page[t] = "apiKey" \/ ~ui[t].loading)
        /\ (page[t] # "apiKey" \/ ui[t].reveal = None)
    BY <1>6, <2>1 DEF Resources!OpenCreate, Resources!Clear
  <2> QED
    BY <1>4, <1>5, <2>2, <2>3, UiMoves
<1>7. CASE Resources!CloseCreate(t)
  <2>1. PICK u : u = [ui[t] EXCEPT !.modal = FALSE, !.reveal = IF page[t] = "dashboard" THEN None ELSE @]
    OBVIOUS
  <2>2. /\ u \in UiRecords /\ u.loading = ui[t].loading /\ u.target = ui[t].target
        /\ u.reveal \in {None, ui[t].reveal} /\ ~u.modal
    BY <1>3, <2>1 DEF UiRecords
  <2>3. ui' = [ui EXCEPT ![t] = u]
    BY <1>7, <2>1 DEF Resources!CloseCreate
  <2> QED
    BY <1>4, <1>5, <2>2, <2>3, UiMoves
<1>8. CASE Resources!CloseReveal(t)
  <2>1. PICK u : u = [ui[t] EXCEPT !.reveal = None]
    OBVIOUS
  <2>2. /\ u \in UiRecords /\ u.loading = ui[t].loading /\ u.target = ui[t].target
        /\ u.reveal = None /\ u.modal = ui[t].modal
    BY <1>3, <2>1 DEF UiRecords
  <2>3. ui' = [ui EXCEPT ![t] = u]
    BY <1>8, <2>1 DEF Resources!CloseReveal
  <2> QED
    BY <1>4, <1>5, <2>2, <2>3, UiMoves
<1>9. CASE Resources!ReopenCreate(t)
  <2>1. PICK u : u = [ui[t] EXCEPT !.creating = FALSE]
    OBVIOUS
  <2>2. /\ u \in UiRecords /\ u.loading = ui[t].loading /\ u.target = ui[t].target
        /\ u.reveal = ui[t].reveal /\ u.modal = ui[t].modal
    BY <1>3, <2>1 DEF UiRecords
  <2>3. ui' = [ui EXCEPT ![t] = u]
    BY <1>9, <2>1 DEF Resources!ReopenCreate
  <2> QED
    BY <1>4, <1>5, <2>2, <2>3, UiMoves
<1>10. CASE Resources!Cancel(t)
  <2>1. PICK u : u = [ui[t] EXCEPT !.target = None]
    OBVIOUS
  <2>2. /\ u \in UiRecords /\ u.loading = ui[t].loading /\ u.target = None
        /\ u.reveal = ui[t].reveal /\ u.modal = ui[t].modal
    BY <1>3, <2>1 DEF UiRecords
  <2>3. ui' = [ui EXCEPT ![t] = u]
    BY <1>10, <2>1 DEF Resources!Cancel
  <2> QED
    BY <1>5, <2>2, <2>3, UiMoves
<1>11. CASE \E i \in TableRows, verb \in {"revoke", "suspend"} : Resources!Choose(t, i, verb)
  <2>1. PICK i \in TableRows, verb \in {"revoke", "suspend"} : Resources!Choose(t, i, verb)
    BY <1>11
  <2>2. PICK u : u = [ui[t] EXCEPT !.target = i, !.verb = verb]
    OBVIOUS
  <2>3. /\ u \in UiRecords /\ u.loading = ui[t].loading /\ u.target = i
        /\ u.reveal = ui[t].reveal /\ u.modal = ui[t].modal
    BY <1>3, <2>2 DEF UiRecords
  <2>4. ui' = [ui EXCEPT ![t] = u] /\ ~ui[t].loading /\ view[t][i] = "active"
    BY <2>1, <2>2 DEF Resources!Choose
  <2>5. table[i] # "none"
    BY <1>2, <2>4 DEF TabSound, Knows
  <2> QED
    BY <1>5, <2>3, <2>4, <2>5, UiMoves
<1> QED
  BY <1>6, <1>7, <1>8, <1>9, <1>10, <1>11

\* The rows are served.
LEMMA ServeSound ==
  ASSUME NEW x, NEW rs \in [TableRows -> Resources!Statuses], TabSound(x, rs), NEW g \in Resources!Gets,
         x.list[g].st = "sent",
         NEW r \in GetRecords, r.st \in {"read", "refused", "lost"}, r.made = x.list[g].made,
         r.rows = IF r.st = "read" THEN rs ELSE Resources!Empty,
         NEW y, y.page = x.page, y.view = x.view, y.list = [x.list EXCEPT ![g] = r], y.ui = x.ui,
         y.post = x.post, y.act = x.act, y.acked = x.acked, y.overlaps = x.overlaps
  PROVE  TabSound(y, rs)
<1>1. /\ x.list \in [Resources!Gets -> GetRecords] /\ x.acked \subseteq TableRows
      /\ \A s \in Calls : s \in Resources!Gets
  BY DEF TabSound, TabTyped, Resources!Gets
<1>2. \A h \in Resources!Gets : y.list[h] = IF h = g THEN r ELSE x.list[h]
  BY <1>1
<1>3. \A h \in Resources!Gets : (y.list[h].st = "idle") = (x.list[h].st = "idle")
  BY <1>2
<1>4. \A h \in Resources!Gets : y.list[h].made = x.list[h].made
  BY <1>2
<1>5. TabTyped(y)
  BY <1>1 DEF TabSound, TabTyped
<1>6. \A s \in Calls : Busy(y, s) = Busy(x, s)
  BY <1>1, <1>3 DEF Busy
<1>7. "load" \in Resources!Gets
  BY DEF Resources!Gets
<1>8. Loads(y)
  BY <1>1, <1>3, <1>4, <1>6, <1>7 DEF TabSound, Loads
<1>9. Retires(y, rs)
  BY DEF TabSound, Retires
<1>10. Knows(y, rs)
  BY <1>4 DEF TabSound, Knows
<1>11. Reads(y, rs)
  <2>1. \A i \in TableRows : Resources!Empty[i] = "none"
    BY DEF Resources!Empty
  <2>2. r.st = "read" /\ r.made # None => rs[r.made] # "none"
    BY DEF TabSound, Knows
  <2> QED
    BY <1>2, <2>1, <2>2 DEF TabSound, Reads
<1>12. Alone(y)
  <2>1. \A i \in x.acked : rs[i] # "none"
    BY <1>1 DEF TabSound, Knows
  <2> QED
    BY <1>1, <1>2, <1>6, <2>1 DEF TabSound, Alone
<1>13. Lists(y, rs)
  BY DEF TabSound, Lists
<1> QED
  BY <1>5, <1>8, <1>9, <1>10, <1>11, <1>12, <1>13 DEF TabSound

LEMMA ServeListKeeps ==
  ASSUME ResourcesInv, NEW t \in Tabs, NEW g \in Resources!Gets, Resources!ServeList(t, g)
  PROVE  ResourcesInv'
<1>1. PICK x : x = TabOf(t)
  OBVIOUS
<1>2. /\ TabSound(x, table) /\ TabTyped(x) /\ table \in [TableRows -> Resources!Statuses]
      /\ x.page = page[t] /\ x.view = view[t] /\ x.list = list[t] /\ x.ui = ui[t] /\ x.post = post[t]
      /\ x.act = act[t] /\ x.acked = acked[t] /\ x.overlaps = (t \in overlap)
      /\ view = [view EXCEPT ![t] = view[t]] /\ list = [list EXCEPT ![t] = list[t]]
      /\ ui = [ui EXCEPT ![t] = ui[t]] /\ post = [post EXCEPT ![t] = post[t]]
      /\ act = [act EXCEPT ![t] = act[t]] /\ acked = [acked EXCEPT ![t] = acked[t]]
      /\ overlap = IF t \in overlap THEN overlap \cup {t} ELSE overlap
  BY <1>1, TabWritten
<1>3. PICK st \in {"read", "refused", "lost"} :
        list' = [list EXCEPT ![t][g].st = st, ![t][g].rows = IF st = "read" THEN table ELSE Resources!Empty]
  BY DEF Resources!ServeList
<1>4. PICK r : r = [st |-> st, rows |-> IF st = "read" THEN table ELSE Resources!Empty, made |-> list[t][g].made]
  OBVIOUS
<1>5. list[t] \in [Resources!Gets -> GetRecords] /\ list[t][g] \in GetRecords /\ list[t][g].st = "sent"
  BY <1>2 DEF TabTyped, Resources!ServeList
<1>6. Resources!Empty \in [TableRows -> Resources!Statuses]
  BY DEF Resources!Empty, Resources!Statuses
<1>7. /\ r \in GetRecords /\ r.st = st /\ r.made = list[t][g].made
      /\ r.rows = IF r.st = "read" THEN table ELSE Resources!Empty
  BY <1>2, <1>4, <1>5, <1>6 DEF GetRecords
<1>8. [list[t][g] EXCEPT !.st = st, !.rows = IF st = "read" THEN table ELSE Resources!Empty] = r
  <2>1. PICK l, z : l = list[t][g] /\ z = IF st = "read" THEN table ELSE Resources!Empty
    OBVIOUS
  <2>2. PICK q : q = [l EXCEPT !.st = st, !.rows = z]
    OBVIOUS
  <2>3. z \in [TableRows -> Resources!Statuses]
    BY <1>2, <1>6, <2>1
  <2>4. q \in GetRecords /\ q.st = st /\ q.rows = z /\ q.made = l.made
    BY <1>5, <2>1, <2>2, <2>3 DEF GetRecords
  <2>5. q = [st |-> q.st, rows |-> q.rows, made |-> q.made]
    BY <2>4 DEF GetRecords
  <2> QED
    BY <1>4, <2>1, <2>2, <2>4, <2>5
<1>9. list' = [list EXCEPT ![t] = [list[t] EXCEPT ![g] = r]]
  BY <1>3, <1>8, <1>2, <1>5
<1>10. PICK y : y = [page |-> page[t], view |-> view[t], list |-> [list[t] EXCEPT ![g] = r], ui |-> ui[t],
                     post |-> post[t], act |-> act[t], acked |-> acked[t], overlaps |-> t \in overlap]
  OBVIOUS
<1>11. /\ y.page = page[t] /\ y.view = view[t] /\ y.list = [list[t] EXCEPT ![g] = r] /\ y.ui = ui[t]
       /\ y.post = post[t] /\ y.act = act[t] /\ y.acked = acked[t] /\ y.overlaps = (t \in overlap)
  BY <1>10
<1>12. UNCHANGED <<page, table, view, ui, post, act, acked, overlap>>
  BY DEF Resources!ServeList
<1>13. TabSound(y, table)
  BY <1>2, <1>5, <1>7, <1>11, ServeSound
<1>14. TabGoes(t, y)
  BY <1>2, <1>9, <1>10, <1>11, <1>12 DEF TabGoes
<1>15. TableMoves(table, table') /\ table' = table
  BY <1>12, TableStays
<1> QED
  BY <1>2, <1>13, <1>14, <1>15, TabMoves

\* The page takes the rows of an answer.
Applies(x, y, g, v, u) ==
  /\ x.list[g].st # "idle" /\ v \in [TableRows -> Resources!Statuses]
  /\ \A i \in TableRows : v[i] # "none" => x.view[i] # "none" \/ x.list[g].rows[i] # "none"
  /\ x.page = "dashboard" =>
       \A i \in TableRows : IF x.list[g].st # "read" THEN v[i] = x.view[i]
                            ELSE x.list[g].rows[i] = "active" => v[i] = "active"
  /\ u \in UiRecords /\ u.reveal = x.ui.reveal /\ u.target = x.ui.target /\ u.modal = x.ui.modal
  /\ u.loading = (g # "load" /\ x.ui.loading)
  /\ y.page = x.page /\ y.view = v /\ y.list = [x.list EXCEPT ![g] = Resources!NoGet] /\ y.ui = u
  /\ y.post = x.post /\ y.act = x.act /\ y.overlaps = x.overlaps
  /\ y.acked = IF x.list[g].st = "read" /\ x.list[g].made # None THEN x.acked \cup {x.list[g].made}
                                                                ELSE x.acked

LEMMA ApplySound ==
  ASSUME NEW x, NEW y, NEW rs, NEW g \in Resources!Gets, NEW v, NEW u, TabSound(x, rs),
         Applies(x, y, g, v, u)
  PROVE  TabSound(y, rs)
<1> USE DEF Applies
<1>1. /\ x.list \in [Resources!Gets -> GetRecords] /\ x.acked \subseteq TableRows
      /\ Resources!Gets = {"load"} \cup Calls /\ "load" \notin Calls
      /\ x.list[g].made \in TableRows \cup {None}
  BY PlatformAssumption DEF TabSound, TabTyped, Resources!Gets, GetRecords
<1>2. \A h \in Resources!Gets : y.list[h] = IF h = g THEN Resources!NoGet ELSE x.list[h]
  BY <1>1
<1>3. /\ Resources!NoGet \in GetRecords /\ Resources!NoGet.st = "idle" /\ Resources!NoGet.made = None
      /\ \A i \in TableRows : Resources!NoGet.rows[i] = "none"
  BY DEF Resources!NoGet, Resources!Empty, GetRecords, Resources!Statuses
<1>4. \A s \in Calls : Busy(y, s) => Busy(x, s)
  BY <1>1, <1>2, <1>3 DEF Busy
<1>5. /\ g = "load" => x.ui.loading /\ x.acked = {} /\ x.act.st = "idle" /\ x.ui.target = None /\ y.acked = {}
      /\ g # "load" => g \in Calls /\ x.page = "dashboard" /\ Busy(x, g) /\ ~x.ui.loading
  BY <1>1 DEF TabSound, Loads, Busy
<1>6. TabTyped(y)
  <2>1. y.acked \subseteq TableRows
    BY <1>1
  <2>2. y.list \in [Resources!Gets -> GetRecords]
    BY <1>1, <1>3
  <2> QED
    BY <2>1, <2>2 DEF TabSound, TabTyped
<1>7. Loads(y)
  <2>1. ~u.loading
    BY <1>5
  <2>2. y.list["load"].made = None /\ y.list["load"].st = "idle"
    BY <1>1, <1>2, <1>3, <1>5 DEF TabSound, Loads
  <2>3. x.page # "dashboard" => \A s \in Calls : y.list[s].st = "idle"
    BY <1>1, <1>2, <1>3 DEF TabSound, Loads
  <2> QED
    BY <2>1, <2>2, <2>3 DEF Loads
<1>8. Retires(y, rs)
  BY <1>5 DEF TabSound, Retires
<1>9. Knows(y, rs)
  <2>1. \A i \in TableRows : v[i] # "none" => rs[i] # "none"
    BY DEF TabSound, Knows, Reads
  <2>2. \A i \in y.acked : rs[i] # "none"
    BY <1>1 DEF TabSound, Knows
  <2>3. \A h \in Resources!Gets : y.list[h].made # None => rs[y.list[h].made] # "none"
    BY <1>2, <1>3 DEF TabSound, Knows
  <2> QED
    BY <2>1, <2>2, <2>3 DEF TabSound, Knows
<1>10. Reads(y, rs)
  BY <1>2, <1>3 DEF TabSound, Reads
<1>11. Alone(y)
  <2> SUFFICES ASSUME ~x.overlaps
               PROVE  /\ \A s, o \in Calls : Busy(y, s) /\ Busy(y, o) => s = o
                      /\ x.page # "agents" /\ x.ui.reveal # None => \A s \in Calls : x.post[s].st = "idle"
                      /\ x.page = "apiKey" /\ x.ui.reveal # None => ~x.ui.modal
                      /\ x.page = "dashboard" =>
                           \A s \in Calls : y.list[s].st = "read" => \A i \in y.acked : y.list[s].rows[i] # "none"
    BY DEF Alone
  <2>1. /\ \A s, o \in Calls : Busy(x, s) /\ Busy(x, o) => s = o
        /\ x.page # "agents" /\ x.ui.reveal # None => \A s \in Calls : x.post[s].st = "idle"
        /\ x.page = "apiKey" /\ x.ui.reveal # None => ~x.ui.modal
    BY DEF TabSound, Alone
  <2>2. \A s \in Calls : y.list[s].st = "read" => \A i \in y.acked : y.list[s].rows[i] # "none"
    <3>1. CASE g = "load"
      BY <1>5, <3>1
    <3>2. CASE g # "load"
      <4>1. \A s \in Calls : y.list[s].st = "idle"
        <5>1. \A s \in Calls : s # g => x.list[s].st = "idle"
          BY <1>5, <2>1, <3>2 DEF Busy
        <5> QED
          BY <1>1, <1>2, <1>3, <5>1
      <4> QED
        BY <4>1
    <3> QED
      BY <3>1, <3>2
  <2> QED
    BY <1>4, <2>1, <2>2
<1>12. Lists(y, rs)
  <2>1. CASE g = "load"
    BY <1>5, <2>1 DEF Lists
  <2>2. CASE g # "load" /\ x.list[g].st # "read"
    BY <1>1, <1>5, <2>2 DEF TabSound, Lists
  <2>3. CASE g # "load" /\ x.list[g].st = "read"
    <3>1. \A i \in y.acked : x.overlaps \/ x.list[g].rows[i] # "none"
      BY <1>5, <2>3 DEF TabSound, Alone, Reads
    <3>2. \A i \in TableRows : x.list[g].rows[i] # "none" /\ rs[i] = "active" => v[i] = "active"
      BY <1>5, <2>3 DEF TabSound, Reads
    <3>3. y.acked \subseteq TableRows
      BY <1>1
    <3> QED
      BY <1>5, <2>3, <3>1, <3>2, <3>3 DEF Lists
  <2> QED
    BY <2>1, <2>2, <2>3
<1> QED
  BY <1>6, <1>7, <1>8, <1>9, <1>10, <1>11, <1>12 DEF TabSound

LEMMA ApplyListKeeps ==
  ASSUME ResourcesInv, NEW t \in Tabs, NEW g \in Resources!Gets, Resources!ApplyList(t, g)
  PROVE  ResourcesInv'
<1>1. PICK x : x = TabOf(t)
  OBVIOUS
<1>2. /\ TabSound(x, table) /\ TabTyped(x) /\ table \in [TableRows -> Resources!Statuses]
      /\ x.page = page[t] /\ x.view = view[t] /\ x.list = list[t] /\ x.ui = ui[t] /\ x.post = post[t]
      /\ x.act = act[t] /\ x.acked = acked[t] /\ x.overlaps = (t \in overlap)
      /\ view = [view EXCEPT ![t] = view[t]] /\ list = [list EXCEPT ![t] = list[t]]
      /\ ui = [ui EXCEPT ![t] = ui[t]] /\ post = [post EXCEPT ![t] = post[t]]
      /\ act = [act EXCEPT ![t] = act[t]] /\ acked = [acked EXCEPT ![t] = acked[t]]
      /\ overlap = IF t \in overlap THEN overlap \cup {t} ELSE overlap
  BY <1>1, TabWritten
<1>3. PICK a : a = list[t][g]
  OBVIOUS
<1>4. /\ a \in GetRecords /\ a.rows \in [TableRows -> Resources!Statuses] /\ a = x.list[g]
      /\ view[t] \in [TableRows -> Resources!Statuses] /\ ui[t] \in UiRecords /\ page[t] \in Resources!Pages
  BY <1>2, <1>3 DEF TabTyped, GetRecords
<1>5. PICK v : v = Resources!Shown(t, a)
  OBVIOUS
<1>6. /\ v \in [TableRows -> Resources!Statuses]
      /\ \A i \in TableRows : v[i] # "none" => view[t][i] # "none" \/ a.rows[i] # "none"
      /\ page[t] = "dashboard" =>
           \A i \in TableRows : IF a.st # "read" THEN v[i] = view[t][i]
                                ELSE a.rows[i] = "active" => v[i] = "active"
  <2>1. CASE a.st = "read" /\ page[t] = "dashboard"
    <3>1. v = [i \in TableRows |-> IF a.rows[i] = "revoked" THEN "none" ELSE a.rows[i]]
      BY <1>5, <2>1 DEF Resources!Shown
    <3> QED
      BY <1>4, <2>1, <3>1 DEF Resources!Statuses
  <2>2. CASE a.st = "read" /\ page[t] # "dashboard"
    <3>1. v = a.rows
      BY <1>5, <2>2 DEF Resources!Shown
    <3> QED
      BY <1>4, <2>2, <3>1
  <2>3. CASE a.st = "refused" /\ page[t] = "apiKey"
    <3>1. v = Resources!Empty
      BY <1>5, <2>3 DEF Resources!Shown
    <3> QED
      BY <2>3, <3>1 DEF Resources!Empty, Resources!Statuses
  <2>4. CASE a.st # "read" /\ ~(a.st = "refused" /\ page[t] = "apiKey")
    <3>1. v = view[t]
      BY <1>5, <2>4 DEF Resources!Shown
    <3> QED
      BY <1>4, <2>4, <3>1
  <2> QED
    BY <2>1, <2>2, <2>3, <2>4
<1>7. PICK u : u = IF g = "load" THEN [ui[t] EXCEPT !.loading = FALSE] ELSE [ui[t] EXCEPT !.creating = FALSE]
  OBVIOUS
<1>8. /\ u \in UiRecords /\ u.reveal = ui[t].reveal /\ u.target = ui[t].target /\ u.modal = ui[t].modal
      /\ u.loading = (g # "load" /\ ui[t].loading)
  BY <1>4, <1>7 DEF UiRecords
<1>9. PICK d : d = IF a.st = "read" /\ a.made # None THEN acked[t] \cup {a.made} ELSE acked[t]
  OBVIOUS
<1>10. PICK L : L = [list[t] EXCEPT ![g] = Resources!NoGet]
  OBVIOUS
<1>11. PICK y : y = [page |-> page[t], view |-> v, list |-> L, ui |-> u,
                     post |-> post[t], act |-> act[t], acked |-> d, overlaps |-> t \in overlap]
  OBVIOUS
<1>12. /\ y.page = page[t] /\ y.view = v /\ y.list = L /\ y.ui = u
       /\ y.post = post[t] /\ y.act = act[t] /\ y.acked = d /\ y.overlaps = (t \in overlap)
  BY <1>11
<1>13. /\ a.st # "idle" /\ view' = [view EXCEPT ![t] = v] /\ list' = [list EXCEPT ![t] = L]
       /\ ui' = [ui EXCEPT ![t] = u] /\ acked' = [acked EXCEPT ![t] = d]
       /\ UNCHANGED <<page, table, post, act, overlap>>
  <2>1. a.st # "idle" /\ view' = [view EXCEPT ![t] = v] /\ UNCHANGED <<page, table, post, act, overlap>>
    BY <1>3, <1>5 DEF Resources!ApplyList
  <2>2. list' = [list EXCEPT ![t] = L]
    BY <1>10 DEF Resources!ApplyList
  <2>3. ui' = [ui EXCEPT ![t] = u]
    BY <1>7 DEF Resources!ApplyList
  <2>4. acked' = [acked EXCEPT ![t] = d]
    BY <1>2, <1>3, <1>9 DEF Resources!ApplyList
  <2> QED
    BY <2>1, <2>2, <2>3, <2>4
<1>14. TabSound(y, table)
  <2>1. /\ x.list[g].st # "idle"
        /\ \A i \in TableRows : v[i] # "none" => x.view[i] # "none" \/ x.list[g].rows[i] # "none"
        /\ x.page = "dashboard" =>
             \A i \in TableRows : IF x.list[g].st # "read" THEN v[i] = x.view[i]
                                  ELSE x.list[g].rows[i] = "active" => v[i] = "active"
    BY <1>2, <1>4, <1>6, <1>13
  <2>2. /\ u.reveal = x.ui.reveal /\ u.target = x.ui.target /\ u.modal = x.ui.modal
        /\ u.loading = (g # "load" /\ x.ui.loading)
    BY <1>2, <1>8
  <2>3. /\ y.page = x.page /\ y.view = v /\ y.list = [x.list EXCEPT ![g] = Resources!NoGet] /\ y.ui = u
        /\ y.post = x.post /\ y.act = x.act /\ y.overlaps = x.overlaps
    BY <1>2, <1>10, <1>12
  <2>4. y.acked = IF x.list[g].st = "read" /\ x.list[g].made # None THEN x.acked \cup {x.list[g].made} ELSE x.acked
    BY <1>2, <1>4, <1>9, <1>12
  <2>5. Applies(x, y, g, v, u)
    BY <1>2, <1>6, <1>8, <2>1, <2>2, <2>3, <2>4 DEF Applies
  <2> QED
    BY <1>2, <2>5, ApplySound
<1>15. TabGoes(t, y)
  BY <1>2, <1>11, <1>12, <1>13 DEF TabGoes
<1>16. TableMoves(table, table') /\ table' = table
  BY <1>13, TableStays
<1> QED
  BY <1>2, <1>14, <1>15, <1>16, TabMoves

\* A create is sent.
Submits(x, y, s, p, u) ==
  /\ x.ui.modal /\ ~Busy(x, s) /\ (x.page = "dashboard" => x.ui.reveal = None)
  /\ p \in PostRecords /\ p.st = "sent" /\ p.id = x.post[s].id
  /\ u \in UiRecords /\ u.loading = x.ui.loading /\ u.modal = x.ui.modal /\ u.reveal = x.ui.reveal
  /\ u.target = x.ui.target
  /\ y.page = x.page /\ y.view = x.view /\ y.list = x.list /\ y.ui = u
  /\ y.post = [x.post EXCEPT ![s] = p] /\ y.act = x.act /\ y.acked = x.acked
  /\ (y.overlaps <=> (x.overlaps \/ \E o \in Calls : Busy(x, o)))

LEMMA SubmitSound ==
  ASSUME NEW x, NEW y, NEW rs, NEW s \in Calls, NEW p, NEW u, TabSound(x, rs), Submits(x, y, s, p, u)
  PROVE  TabSound(y, rs)
<1> USE DEF Submits
<1>1. x.post \in [Calls -> PostRecords]
  BY DEF TabSound, TabTyped
<1>2. \A o \in Calls : y.post[o] = IF o = s THEN p ELSE x.post[o]
  BY <1>1
<1>3. TabTyped(y)
  BY <1>1 DEF TabSound, TabTyped
<1>4. ~(x.ui.loading /\ x.page = "dashboard")
  BY DEF TabSound, Loads
<1>5. Loads(y)
  BY <1>4 DEF TabSound, Loads
<1>6. Retires(y, rs)
  BY DEF TabSound, Retires
<1>7. Knows(y, rs)
  BY <1>2 DEF TabSound, Knows
<1>8. Reads(y, rs)
  BY DEF TabSound, Reads
<1>9. Alone(y)
  <2> SUFFICES ASSUME ~y.overlaps
               PROVE  /\ \A r, o \in Calls : Busy(y, r) /\ Busy(y, o) => r = o
                      /\ x.page # "agents" => x.ui.reveal = None
                      /\ x.page = "dashboard" => \A o \in Calls : x.list[o].st # "read"
    BY DEF Alone
  <2>1. \A o \in Calls : ~Busy(x, o)
    OBVIOUS
  <2>2. \A o \in Calls : Busy(y, o) => o = s
    BY <1>2, <2>1 DEF Busy
  <2>3. x.page # "agents" => x.ui.reveal = None
    BY DEF TabSound, TabTyped, Resources!Pages, Resources!KeyPages, Alone
  <2> QED
    BY <2>1, <2>2, <2>3 DEF Busy
<1>10. Lists(y, rs)
  BY DEF TabSound, Lists
<1> QED
  BY <1>3, <1>5, <1>6, <1>7, <1>8, <1>9, <1>10 DEF TabSound

LEMMA SubmitKeeps ==
  ASSUME ResourcesInv, NEW t \in Tabs, NEW s \in Calls, Resources!Submit(t, s)
  PROVE  ResourcesInv'
<1>1. PICK x : x = TabOf(t)
  OBVIOUS
<1>2. /\ TabSound(x, table) /\ TabTyped(x) /\ table \in [TableRows -> Resources!Statuses]
      /\ x.page = page[t] /\ x.view = view[t] /\ x.list = list[t] /\ x.ui = ui[t] /\ x.post = post[t]
      /\ x.act = act[t] /\ x.acked = acked[t] /\ x.overlaps = (t \in overlap)
      /\ view = [view EXCEPT ![t] = view[t]] /\ list = [list EXCEPT ![t] = list[t]]
      /\ ui = [ui EXCEPT ![t] = ui[t]] /\ post = [post EXCEPT ![t] = post[t]]
      /\ act = [act EXCEPT ![t] = act[t]] /\ acked = [acked EXCEPT ![t] = acked[t]]
      /\ overlap = IF t \in overlap THEN overlap \cup {t} ELSE overlap
  BY <1>1, TabWritten
<1>3. x.ui \in UiRecords /\ x.post \in [Calls -> PostRecords] /\ x.post[s] \in PostRecords
  BY <1>2 DEF TabTyped
<1>4. /\ x.ui.modal /\ ~Busy(x, s) /\ (x.page = "dashboard" => x.ui.reveal = None)
      /\ post' = [post EXCEPT ![t][s].st = "sent"] /\ ui' = [ui EXCEPT ![t].creating = TRUE]
      /\ overlap' = IF \E o \in Calls : Busy(x, o) THEN overlap \cup {t} ELSE overlap
      /\ UNCHANGED <<page, table, view, list, act, acked>>
  BY <1>2 DEF Resources!Submit, Resources!CanSubmit, Resources!UnderWay, Busy
<1>5. PICK p : p = [x.post[s] EXCEPT !.st = "sent"]
  OBVIOUS
<1>6. p \in PostRecords /\ p.st = "sent" /\ p.id = x.post[s].id
  BY <1>3, <1>5 DEF PostRecords
<1>7. PICK u : u = [x.ui EXCEPT !.creating = TRUE]
  OBVIOUS
<1>8. /\ u \in UiRecords /\ u.loading = x.ui.loading /\ u.modal = x.ui.modal /\ u.reveal = x.ui.reveal
      /\ u.target = x.ui.target
  BY <1>3, <1>7 DEF UiRecords
<1>9. PICK b \in BOOLEAN : b <=> (t \in overlap \/ \E o \in Calls : Busy(x, o))
  OBVIOUS
<1>10. PICK y : y = [page |-> page[t], view |-> view[t], list |-> list[t], ui |-> u,
                     post |-> [x.post EXCEPT ![s] = p], act |-> act[t], acked |-> acked[t], overlaps |-> b]
  OBVIOUS
<1>11. /\ y.page = page[t] /\ y.view = view[t] /\ y.list = list[t] /\ y.ui = u
       /\ y.post = [x.post EXCEPT ![s] = p] /\ y.act = act[t] /\ y.acked = acked[t] /\ y.overlaps = b
  BY <1>10
<1>12. post' = [post EXCEPT ![t] = y.post] /\ ui' = [ui EXCEPT ![t] = y.ui]
  BY <1>2, <1>4, <1>5, <1>7, <1>11
<1>13. /\ overlap' = IF y.overlaps THEN overlap \cup {t} ELSE overlap
       /\ y.overlaps = (t \in overlap')
  <2>1. CASE \E q \in Calls : Busy(x, q)
    <3>1. b = TRUE /\ overlap' = overlap \cup {t}
      BY <1>4, <1>9, <2>1
    <3> QED
      BY <1>11, <3>1
  <2>2. CASE ~\E q \in Calls : Busy(x, q)
    <3>1. overlap' = overlap
      BY <1>4, <2>2
    <3>2. b = (t \in overlap)
      BY <1>9, <2>2
    <3> QED
      BY <1>2, <1>11, <3>1, <3>2
  <2> QED
    BY <2>1, <2>2
<1>14. TabSound(y, table)
  <2>1. /\ y.page = x.page /\ y.view = x.view /\ y.list = x.list /\ y.ui = u
        /\ y.post = [x.post EXCEPT ![s] = p] /\ y.act = x.act /\ y.acked = x.acked
    BY <1>2, <1>11
  <2>2. y.overlaps <=> (x.overlaps \/ \E q \in Calls : Busy(x, q))
    BY <1>2, <1>9, <1>11
  <2>3. Submits(x, y, s, p, u)
    BY <1>2, <1>4, <1>6, <1>8, <2>1, <2>2 DEF Submits
  <2> QED
    BY <1>2, <2>3, SubmitSound
<1>15. TabGoes(t, y)
  BY <1>2, <1>4, <1>10, <1>11, <1>12, <1>13 DEF TabGoes
<1>16. TableMoves(table, table') /\ table' = table
  BY <1>4, TableStays
<1> QED
  BY <1>2, <1>14, <1>15, <1>16, TabMoves

\* A create is served, or is not.
LEMMA CreateSound ==
  ASSUME NEW x, NEW rs, TabSound(x, rs), NEW s \in Calls, x.post[s].st = "sent",
         NEW p \in PostRecords, p.st \in {"made", "lost"}, p.st = "made" => p.id # None,
         p.id # None => rs[p.id] # "none",
         NEW y, y.page = x.page, y.view = x.view, y.list = x.list, y.ui = x.ui,
         y.post = [x.post EXCEPT ![s] = p], y.act = x.act, y.acked = x.acked, y.overlaps = x.overlaps
  PROVE  TabSound(y, rs)
<1>1. x.post \in [Calls -> PostRecords]
  BY DEF TabSound, TabTyped
<1>2. \A o \in Calls : y.post[o] = IF o = s THEN p ELSE x.post[o]
  BY <1>1
<1>3. TabTyped(y)
  BY <1>1 DEF TabSound, TabTyped
<1>4. \A o \in Calls : (y.post[o].st = "idle") = (x.post[o].st = "idle")
  BY <1>2
<1>5. \A o \in Calls : Busy(y, o) = Busy(x, o)
  BY <1>4 DEF Busy
<1>6. Loads(y)
  BY <1>5 DEF TabSound, Loads
<1>7. Retires(y, rs)
  BY DEF TabSound, Retires
<1>8. Knows(y, rs)
  BY <1>2 DEF TabSound, Knows
<1>9. Reads(y, rs)
  BY DEF TabSound, Reads
<1>10. Alone(y)
  BY <1>4, <1>5 DEF TabSound, Alone
<1>11. Lists(y, rs)
  BY DEF TabSound, Lists
<1> QED
  BY <1>3, <1>6, <1>7, <1>8, <1>9, <1>10, <1>11 DEF TabSound

LEMMA ServeCreateKeeps ==
  ASSUME ResourcesInv, NEW t \in Tabs, NEW s \in Calls, Resources!ServeCreate(t, s)
  PROVE  ResourcesInv'
<1>1. PICK x : x = TabOf(t)
  OBVIOUS
<1>2. /\ TabSound(x, table) /\ TabTyped(x) /\ table \in [TableRows -> Resources!Statuses]
      /\ x.page = page[t] /\ x.view = view[t] /\ x.list = list[t] /\ x.ui = ui[t] /\ x.post = post[t]
      /\ x.act = act[t] /\ x.acked = acked[t] /\ x.overlaps = (t \in overlap)
      /\ view = [view EXCEPT ![t] = view[t]] /\ list = [list EXCEPT ![t] = list[t]]
      /\ ui = [ui EXCEPT ![t] = ui[t]] /\ post = [post EXCEPT ![t] = post[t]]
      /\ act = [act EXCEPT ![t] = act[t]] /\ acked = [acked EXCEPT ![t] = acked[t]]
      /\ overlap = IF t \in overlap THEN overlap \cup {t} ELSE overlap
  BY <1>1, TabWritten
<1>3. x.post \in [Calls -> PostRecords]
  BY <1>2 DEF TabTyped
<1>4. x.post[s].st = "sent" /\ UNCHANGED <<page, view, list, ui, act, acked, overlap>>
  BY <1>2 DEF Resources!ServeCreate
<1>5. PICK p \in PostRecords :
        /\ post' = [post EXCEPT ![t][s] = p]
        /\ p.st \in {"made", "lost"} /\ (p.st = "made" => p.id # None) /\ (p.id # None => table'[p.id] # "none")
        /\ table' \in [TableRows -> Resources!Statuses] /\ TableMoves(table, table')
  <2>1. ASSUME NEW i \in TableRows, NEW st \in {"made", "lost"}, table[i] = "none",
               table' = [table EXCEPT ![i] = "active"],
               post' = [post EXCEPT ![t][s] = [st |-> st, id |-> i]]
        PROVE  \E p \in PostRecords :
                 /\ post' = [post EXCEPT ![t][s] = p]
                 /\ p.st \in {"made", "lost"} /\ (p.st = "made" => p.id # None) /\ (p.id # None => table'[p.id] # "none")
                 /\ table' \in [TableRows -> Resources!Statuses] /\ TableMoves(table, table')
    <3>1. PICK p : p = [st |-> st, id |-> i]
      OBVIOUS
    <3>2. p.st = st /\ p.id = i /\ p \in PostRecords /\ i # None
      BY <3>1, PlatformAssumption DEF PostRecords
    <3>3. table' \in [TableRows -> Resources!Statuses] /\ table'[i] = "active"
      BY <1>2, <2>1 DEF Resources!Statuses
    <3>4. TableMoves(table, table')
      BY <1>2, <2>1 DEF TableMoves
    <3>5. post' = [post EXCEPT ![t][s] = p]
      BY <2>1, <3>1
    <3> QED
      BY <3>2, <3>3, <3>4, <3>5
  <2>2. ASSUME post' = [post EXCEPT ![t][s] = [st |-> "lost", id |-> None]], table' = table
        PROVE  \E p \in PostRecords :
                 /\ post' = [post EXCEPT ![t][s] = p]
                 /\ p.st \in {"made", "lost"} /\ (p.st = "made" => p.id # None) /\ (p.id # None => table'[p.id] # "none")
                 /\ table' \in [TableRows -> Resources!Statuses] /\ TableMoves(table, table')
    <3>1. PICK p : p = [st |-> "lost", id |-> None]
      OBVIOUS
    <3>2. p.st = "lost" /\ p.id = None /\ p \in PostRecords
      BY <3>1 DEF PostRecords
    <3>3. TableMoves(table, table')
      BY <2>2, TableStays
    <3>4. post' = [post EXCEPT ![t][s] = p]
      BY <2>2, <3>1
    <3> QED
      BY <1>2, <2>2, <3>2, <3>3, <3>4
  <2> QED
    BY <2>1, <2>2 DEF Resources!ServeCreate
<1>6. PICK rs : rs = table'
  OBVIOUS
<1>7. PICK y : y = [page |-> page[t], view |-> view[t], list |-> list[t], ui |-> ui[t],
                    post |-> [x.post EXCEPT ![s] = p], act |-> act[t], acked |-> acked[t], overlaps |-> t \in overlap]
  OBVIOUS
<1>8. /\ y.page = page[t] /\ y.view = view[t] /\ y.list = list[t] /\ y.ui = ui[t]
      /\ y.post = [x.post EXCEPT ![s] = p] /\ y.act = act[t] /\ y.acked = acked[t] /\ y.overlaps = (t \in overlap)
  BY <1>7
<1>9. TabSound(x, rs)
  BY <1>2, <1>5, <1>6, TabStays
<1>10. TabSound(y, rs)
  BY <1>2, <1>4, <1>5, <1>6, <1>8, <1>9, CreateSound
<1>11. post' = [post EXCEPT ![t] = y.post]
  BY <1>2, <1>5, <1>8
<1>12. TabGoes(t, y)
  BY <1>2, <1>4, <1>7, <1>8, <1>11 DEF TabGoes
<1> QED
  BY <1>5, <1>6, <1>10, <1>12, TabMoves

\* The answer to a create is taken.
Finishes(x, s, i, y) ==
  /\ x.post[s].st = "made" /\ i = x.post[s].id
  /\ y.view \in [TableRows -> Resources!Statuses]
  /\ IF x.page = "dashboard" THEN y.view = x.view ELSE y.view = [x.view EXCEPT ![i] = "active"]
  /\ y.ui \in UiRecords /\ y.ui.loading = x.ui.loading /\ (y.ui.modal => x.page = "dashboard" /\ x.ui.modal)
  /\ y.ui.reveal \in {None, i} /\ y.ui.target = x.ui.target
  /\ y.list = IF x.page = "dashboard" THEN [x.list EXCEPT ![s] = Resources!Ask(i)] ELSE x.list
  /\ y.post = [x.post EXCEPT ![s] = Resources!Idle]
  /\ y.acked = IF x.page = "dashboard" \/ x.ui.loading THEN x.acked ELSE x.acked \cup {i}
  /\ y.page = x.page /\ y.act = x.act /\ y.overlaps = x.overlaps

LEMMA FinishSound ==
  ASSUME NEW x, NEW rs, TabSound(x, rs), NEW s \in Calls, NEW i, NEW y, Finishes(x, s, i, y)
  PROVE  TabSound(y, rs)
<1> DEFINE v == y.view
           u == y.ui
<1>0. /\ x.post[s].st = "made" /\ i = x.post[s].id
      /\ v \in [TableRows -> Resources!Statuses]
      /\ (IF x.page = "dashboard" THEN v = x.view ELSE v = [x.view EXCEPT ![i] = "active"])
      /\ u \in UiRecords /\ u.loading = x.ui.loading /\ (u.modal => x.page = "dashboard" /\ x.ui.modal)
      /\ u.reveal \in {None, i} /\ u.target = x.ui.target
      /\ y.list = (IF x.page = "dashboard" THEN [x.list EXCEPT ![s] = Resources!Ask(i)] ELSE x.list)
      /\ y.post = [x.post EXCEPT ![s] = Resources!Idle]
      /\ y.acked = (IF x.page = "dashboard" \/ x.ui.loading THEN x.acked ELSE x.acked \cup {i})
      /\ y.page = x.page /\ y.act = x.act /\ y.overlaps = x.overlaps
  BY DEF Finishes
<1> USE <1>0
<1>1. /\ x.post \in [Calls -> PostRecords] /\ x.list \in [Resources!Gets -> GetRecords]
      /\ x.view \in [TableRows -> Resources!Statuses] /\ x.acked \subseteq TableRows
      /\ \A o \in Calls : o \in Resources!Gets /\ o # "load"
      /\ "load" \in Resources!Gets
  BY PlatformAssumption DEF TabSound, TabTyped, Resources!Gets
<1>2. i \in TableRows /\ rs[i] # "none" /\ i # None
  BY <1>1, PlatformAssumption DEF TabSound, Knows, PostRecords
<1>3. \A o \in Calls : y.post[o] = IF o = s THEN Resources!Idle ELSE x.post[o]
  BY <1>1
<1>4. Resources!Idle \in PostRecords /\ Resources!Idle.st = "idle" /\ Resources!Idle.id = None
  BY DEF Resources!Idle, PostRecords
<1>5. /\ Resources!Ask(i) \in GetRecords /\ Resources!Ask(i).st = "sent" /\ Resources!Ask(i).made = i
      /\ \A j \in TableRows : Resources!Ask(i).rows[j] = "none"
  BY <1>2 DEF Resources!Ask, Resources!Empty, GetRecords, Resources!Statuses
<1>6. \A g \in Resources!Gets :
        y.list[g] = IF x.page = "dashboard" /\ g = s THEN Resources!Ask(i) ELSE x.list[g]
  BY <1>1
<1>7. Busy(x, s) /\ ~(x.ui.loading /\ x.page = "dashboard")
  BY DEF TabSound, Loads, Busy
<1>8. \A o \in Calls : Busy(y, o) => Busy(x, o)
  BY <1>1, <1>3, <1>4, <1>6, <1>7 DEF Busy
<1>9. \A j \in TableRows : v[j] = IF x.page # "dashboard" /\ j = i THEN "active" ELSE x.view[j]
  BY <1>1
<1>10. TabTyped(y)
  <2>1. y.post \in [Calls -> PostRecords] /\ y.acked \subseteq TableRows
    BY <1>1, <1>2, <1>4
  <2>2. y.list \in [Resources!Gets -> GetRecords]
    BY <1>1, <1>5
  <2> QED
    BY <2>1, <2>2 DEF TabSound, TabTyped
<1>11. Loads(y)
  <2>1. x.page # "dashboard" => \A o \in Calls : y.list[o].st = "idle"
    BY DEF TabSound, Loads
  <2>2. y.list["load"] = x.list["load"]
    BY <1>1, <1>6
  <2>3. x.ui.loading => /\ y.acked = {} /\ x.act.st = "idle" /\ u.target = None
                        /\ \A j \in TableRows : v[j] \in {"none", "active"}
    BY <1>9 DEF TabSound, Loads
  <2> QED
    BY <1>7, <2>1, <2>2, <2>3 DEF TabSound, Loads
<1>12. Retires(y, rs)
  <2>1. x.ui.target \in TableRows \cup {None}
    BY DEF TabSound, TabTyped, UiRecords
  <2> QED
    BY <1>9, <2>1 DEF TabSound, Retires
<1>13. Knows(y, rs)
  <2>1. \A j \in TableRows : v[j] # "none" \/ j \in y.acked \cup {u.reveal, u.target, x.act.id} => rs[j] # "none"
    <3>1. \A j \in TableRows : x.view[j] # "none" \/ j \in x.acked \cup {u.target, x.act.id} => rs[j] # "none"
      BY DEF TabSound, Knows
    <3>2. \A j \in TableRows : j # None
      BY PlatformAssumption
    <3> QED
      BY <1>2, <1>9, <3>1, <3>2
  <2>2. \A o \in Calls : (y.post[o].id # None => rs[y.post[o].id] # "none")
                         /\ (y.post[o].st = "made" => y.post[o].id # None)
    BY <1>3, <1>4 DEF TabSound, Knows
  <2>3. \A g \in Resources!Gets : y.list[g].made # None => rs[y.list[g].made] # "none"
    BY <1>2, <1>5, <1>6, SMTT(20) DEF TabSound, Knows
  <2> QED
    BY <2>1, <2>2, <2>3 DEF Knows
<1>14. Reads(y, rs)
  BY <1>5, <1>6 DEF TabSound, Reads
<1>15. Alone(y)
  <2> SUFFICES ASSUME ~x.overlaps
               PROVE  /\ \A r, o \in Calls : Busy(y, r) /\ Busy(y, o) => r = o
                      /\ \A o \in Calls : y.post[o].st = "idle"
                      /\ x.page = "apiKey" => ~u.modal
                      /\ x.page = "dashboard" => \A o \in Calls : y.list[o].st # "read"
    BY DEF Alone
  <2>1. \A r, o \in Calls : Busy(x, r) /\ Busy(x, o) => r = o
    BY DEF TabSound, Alone
  <2>2. \A o \in Calls : o # s => x.post[o].st = "idle" /\ x.list[o].st = "idle"
    BY <1>7, <2>1 DEF Busy
  <2> QED
    BY <1>1, <1>3, <1>4, <1>5, <1>6, <1>8, <2>1, <2>2
<1>16. Lists(y, rs)
  <2>1. CASE x.page = "dashboard"
    BY <2>1 DEF TabSound, Lists
  <2>2. CASE x.page # "dashboard"
    BY <1>1, <1>2, <1>9, <2>2 DEF TabSound, Lists
  <2> QED
    BY <2>1, <2>2
<1> QED
  BY <1>10, <1>11, <1>12, <1>13, <1>14, <1>15, <1>16 DEF TabSound

LEMMA FinishCreateKeeps ==
  ASSUME ResourcesInv, NEW t \in Tabs, NEW s \in Calls, Resources!FinishCreate(t, s)
  PROVE  ResourcesInv'
<1>1. PICK x : x = TabOf(t)
  OBVIOUS
<1>2. /\ TabSound(x, table) /\ TabTyped(x) /\ table \in [TableRows -> Resources!Statuses]
      /\ x.page = page[t] /\ x.view = view[t] /\ x.list = list[t] /\ x.ui = ui[t] /\ x.post = post[t]
      /\ x.act = act[t] /\ x.acked = acked[t] /\ x.overlaps = (t \in overlap)
      /\ view = [view EXCEPT ![t] = view[t]] /\ list = [list EXCEPT ![t] = list[t]]
      /\ ui = [ui EXCEPT ![t] = ui[t]] /\ post = [post EXCEPT ![t] = post[t]]
      /\ act = [act EXCEPT ![t] = act[t]] /\ acked = [acked EXCEPT ![t] = acked[t]]
      /\ overlap = IF t \in overlap THEN overlap \cup {t} ELSE overlap
  BY <1>1, TabWritten
<1>3. /\ x.ui \in UiRecords /\ x.post \in [Calls -> PostRecords] /\ x.post[s].id \in TableRows
      /\ x.view \in [TableRows -> Resources!Statuses]
  BY <1>2 DEF TabSound, TabTyped, PostRecords, Knows, Resources!FinishCreate
<1>4. PICK i : i = x.post[s].id
  OBVIOUS
<1>5. PICK v : v = IF x.page = "dashboard" THEN x.view ELSE [x.view EXCEPT ![i] = "active"]
  OBVIOUS
<1>6. PICK L : L = IF x.page = "dashboard" THEN [x.list EXCEPT ![s] = Resources!Ask(i)] ELSE x.list
  OBVIOUS
<1>7. PICK u : u = [x.ui EXCEPT !.modal = x.page = "dashboard" /\ @,
                                !.reveal = IF x.page = "agents" THEN None ELSE i,
                                !.creating = x.page = "dashboard"]
  OBVIOUS
<1>8. PICK d : d = IF x.page = "dashboard" \/ x.ui.loading THEN x.acked ELSE x.acked \cup {i}
  OBVIOUS
<1>9. /\ x.post[s].st = "made" /\ UNCHANGED <<page, table, act, overlap>>
      /\ post' = [post EXCEPT ![t] = [x.post EXCEPT ![s] = Resources!Idle]]
  BY <1>2 DEF Resources!FinishCreate
<1>10. view' = [view EXCEPT ![t] = v]
  <2>1. CASE x.page = "dashboard"
    BY <1>2, <1>5, <2>1 DEF Resources!FinishCreate
  <2>2. CASE x.page # "dashboard"
    BY <1>2, <1>4, <1>5, <2>2 DEF Resources!FinishCreate
  <2> QED
    BY <2>1, <2>2
<1>11. list' = [list EXCEPT ![t] = L]
  <2>1. CASE x.page # "dashboard"
    BY <1>2, <1>6, <2>1 DEF Resources!FinishCreate
  <2>2. CASE x.page = "dashboard"
    BY <1>2, <1>4, <1>6, <2>2 DEF Resources!FinishCreate
  <2> QED
    BY <2>1, <2>2
<1>12. ui' = [ui EXCEPT ![t] = u]
  BY <1>2, <1>4, <1>7 DEF Resources!FinishCreate
<1>13. acked' = [acked EXCEPT ![t] = d]
  <2>1. CASE x.page = "dashboard" \/ x.ui.loading
    BY <1>2, <1>8, <2>1 DEF Resources!FinishCreate
  <2>2. CASE ~(x.page = "dashboard" \/ x.ui.loading)
    BY <1>2, <1>4, <1>8, <2>2 DEF Resources!FinishCreate
  <2> QED
    BY <2>1, <2>2
<1>14. /\ u \in UiRecords /\ u.loading = x.ui.loading /\ (u.modal => x.page = "dashboard" /\ x.ui.modal)
       /\ u.reveal \in {None, i} /\ u.target = x.ui.target
  BY <1>3, <1>4, <1>7 DEF UiRecords
<1>15. v \in [TableRows -> Resources!Statuses]
  BY <1>3, <1>4, <1>5 DEF Resources!Statuses
<1>16. PICK y : y = [page |-> page[t], view |-> v, list |-> L, ui |-> u,
                     post |-> [x.post EXCEPT ![s] = Resources!Idle], act |-> act[t], acked |-> d,
                     overlaps |-> t \in overlap]
  OBVIOUS
<1>17. /\ y.page = page[t] /\ y.view = v /\ y.list = L /\ y.ui = u
       /\ y.post = [x.post EXCEPT ![s] = Resources!Idle] /\ y.act = act[t] /\ y.acked = d
       /\ y.overlaps = (t \in overlap)
  BY <1>16
<1>18. TabSound(y, table)
  <2>1. IF x.page = "dashboard" THEN v = x.view ELSE v = [x.view EXCEPT ![i] = "active"]
    BY <1>5
  <2>2. y.list = IF x.page = "dashboard" THEN [x.list EXCEPT ![s] = Resources!Ask(i)] ELSE x.list
    BY <1>6, <1>17
  <2>3. y.acked = IF x.page = "dashboard" \/ x.ui.loading THEN x.acked ELSE x.acked \cup {i}
    BY <1>8, <1>17
  <2>4. /\ y.page = x.page /\ y.view = v /\ y.ui = u /\ y.post = [x.post EXCEPT ![s] = Resources!Idle]
        /\ y.act = x.act /\ y.overlaps = x.overlaps
    BY <1>2, <1>17
  <2>5. Finishes(x, s, i, y)
    BY <1>4, <1>9, <1>14, <1>15, <2>1, <2>2, <2>3, <2>4 DEF Finishes
  <2> QED
    BY <1>2, <2>5, FinishSound
<1>19. TabGoes(t, y)
  BY <1>2, <1>9, <1>10, <1>11, <1>12, <1>13, <1>16, <1>17 DEF TabGoes
<1>20. TableMoves(table, table') /\ table' = table
  BY <1>9, TableStays
<1> QED
  BY <1>2, <1>18, <1>19, <1>20, TabMoves

LEMMA FailSound ==
  ASSUME NEW x, NEW rs, TabSound(x, rs), NEW s \in Calls, x.post[s].st # "idle",
         NEW u \in UiRecords, u.loading = x.ui.loading, u.modal = x.ui.modal, u.reveal = x.ui.reveal,
         u.target = x.ui.target,
         NEW y, y.page = x.page, y.view = x.view, y.list = x.list, y.ui = u,
         y.post = [x.post EXCEPT ![s] = Resources!Idle], y.act = x.act, y.acked = x.acked, y.overlaps = x.overlaps
  PROVE  TabSound(y, rs)
<1>1. x.post \in [Calls -> PostRecords]
  BY DEF TabSound, TabTyped
<1>2. \A o \in Calls : y.post[o] = IF o = s THEN Resources!Idle ELSE x.post[o]
  BY <1>1
<1>3. Resources!Idle \in PostRecords /\ Resources!Idle.st = "idle" /\ Resources!Idle.id = None
  BY DEF Resources!Idle, PostRecords
<1>4. TabTyped(y)
  BY <1>1, <1>3 DEF TabSound, TabTyped
<1>5. \A o \in Calls : Busy(y, o) => Busy(x, o)
  BY <1>2, <1>3 DEF Busy
<1>6. Loads(y)
  BY <1>5 DEF TabSound, Loads
<1>7. Retires(y, rs)
  BY DEF TabSound, Retires
<1>8. Knows(y, rs)
  BY <1>2, <1>3 DEF TabSound, Knows
<1>9. Reads(y, rs)
  BY DEF TabSound, Reads
<1>10. Alone(y)
  BY <1>2, <1>3, <1>5 DEF TabSound, Alone
<1>11. Lists(y, rs)
  BY DEF TabSound, Lists
<1> QED
  BY <1>4, <1>6, <1>7, <1>8, <1>9, <1>10, <1>11 DEF TabSound

LEMMA FailCreateKeeps ==
  ASSUME ResourcesInv, NEW t \in Tabs, NEW s \in Calls, Resources!FailCreate(t, s)
  PROVE  ResourcesInv'
<1>1. PICK x : x = TabOf(t)
  OBVIOUS
<1>2. /\ TabSound(x, table) /\ TabTyped(x) /\ table \in [TableRows -> Resources!Statuses]
      /\ x.page = page[t] /\ x.view = view[t] /\ x.list = list[t] /\ x.ui = ui[t] /\ x.post = post[t]
      /\ x.act = act[t] /\ x.acked = acked[t] /\ x.overlaps = (t \in overlap)
      /\ view = [view EXCEPT ![t] = view[t]] /\ list = [list EXCEPT ![t] = list[t]]
      /\ ui = [ui EXCEPT ![t] = ui[t]] /\ post = [post EXCEPT ![t] = post[t]]
      /\ act = [act EXCEPT ![t] = act[t]] /\ acked = [acked EXCEPT ![t] = acked[t]]
      /\ overlap = IF t \in overlap THEN overlap \cup {t} ELSE overlap
  BY <1>1, TabWritten
<1>3. x.ui \in UiRecords
  BY <1>2 DEF TabTyped
<1>4. /\ x.post[s].st # "idle" /\ UNCHANGED <<page, table, view, list, act, acked, overlap>>
      /\ post' = [post EXCEPT ![t] = [x.post EXCEPT ![s] = Resources!Idle]]
      /\ ui' = [ui EXCEPT ![t] = [x.ui EXCEPT !.creating = FALSE]]
  BY <1>2 DEF Resources!FailCreate
<1>5. PICK u : u = [x.ui EXCEPT !.creating = FALSE]
  OBVIOUS
<1>6. /\ u \in UiRecords /\ u.loading = x.ui.loading /\ u.modal = x.ui.modal /\ u.reveal = x.ui.reveal
      /\ u.target = x.ui.target
  BY <1>3, <1>5 DEF UiRecords
<1>7. PICK y : y = [page |-> page[t], view |-> view[t], list |-> list[t], ui |-> u,
                    post |-> [x.post EXCEPT ![s] = Resources!Idle], act |-> act[t], acked |-> acked[t],
                    overlaps |-> t \in overlap]
  OBVIOUS
<1>8. /\ y.page = page[t] /\ y.view = view[t] /\ y.list = list[t] /\ y.ui = u
      /\ y.post = [x.post EXCEPT ![s] = Resources!Idle] /\ y.act = act[t] /\ y.acked = acked[t]
      /\ y.overlaps = (t \in overlap)
  BY <1>7
<1>9. TabSound(y, table)
  <2>1. /\ y.page = x.page /\ y.view = x.view /\ y.list = x.list /\ y.ui = u
        /\ y.post = [x.post EXCEPT ![s] = Resources!Idle] /\ y.act = x.act /\ y.acked = x.acked
        /\ y.overlaps = x.overlaps
    BY <1>2, <1>8
  <2> QED
    BY <1>2, <1>4, <1>6, <2>1, FailSound
<1>10. TabGoes(t, y)
  BY <1>2, <1>4, <1>5, <1>7, <1>8 DEF TabGoes
<1>11. TableMoves(table, table') /\ table' = table
  BY <1>4, TableStays
<1> QED
  BY <1>2, <1>9, <1>10, <1>11, TabMoves

\* The user confirms.
LEMMA ConfirmSound ==
  ASSUME NEW x, NEW rs, TabSound(x, rs), x.ui.target # None,
         NEW a \in ActRecords, a.st = "sent", a.id = x.ui.target,
         NEW u \in UiRecords, u.loading = x.ui.loading, u.modal = x.ui.modal, u.reveal = x.ui.reveal,
         u.target = x.ui.target,
         NEW y, y.page = x.page, y.view = x.view, y.list = x.list, y.ui = u,
         y.post = x.post, y.act = a, y.acked = x.acked, y.overlaps = x.overlaps
  PROVE  TabSound(y, rs)
<1>1. TabTyped(y)
  BY DEF TabSound, TabTyped
<1>2. ~x.ui.loading
  BY DEF TabSound, Loads
<1>3. x.ui.target \in TableRows
  BY DEF TabSound, TabTyped, UiRecords
<1>4. Loads(y)
  BY <1>2 DEF TabSound, Loads
<1>5. Retires(y, rs)
  BY <1>3 DEF TabSound, Retires
<1>6. Knows(y, rs)
  BY DEF TabSound, Knows
<1>7. Reads(y, rs)
  BY DEF TabSound, Reads
<1>8. Alone(y)
  BY DEF TabSound, Alone, Busy
<1>9. Lists(y, rs)
  BY DEF TabSound, Lists
<1> QED
  BY <1>1, <1>4, <1>5, <1>6, <1>7, <1>8, <1>9 DEF TabSound

LEMMA ConfirmKeeps ==
  ASSUME ResourcesInv, NEW t \in Tabs, Resources!Confirm(t)
  PROVE  ResourcesInv'
<1>1. PICK x : x = TabOf(t)
  OBVIOUS
<1>2. /\ TabSound(x, table) /\ TabTyped(x) /\ table \in [TableRows -> Resources!Statuses]
      /\ x.page = page[t] /\ x.view = view[t] /\ x.list = list[t] /\ x.ui = ui[t] /\ x.post = post[t]
      /\ x.act = act[t] /\ x.acked = acked[t] /\ x.overlaps = (t \in overlap)
      /\ view = [view EXCEPT ![t] = view[t]] /\ list = [list EXCEPT ![t] = list[t]]
      /\ ui = [ui EXCEPT ![t] = ui[t]] /\ post = [post EXCEPT ![t] = post[t]]
      /\ act = [act EXCEPT ![t] = act[t]] /\ acked = [acked EXCEPT ![t] = acked[t]]
      /\ overlap = IF t \in overlap THEN overlap \cup {t} ELSE overlap
  BY <1>1, TabWritten
<1>3. x.ui \in UiRecords
  BY <1>2 DEF TabTyped
<1>4. PICK a : a = [st |-> "sent", id |-> x.ui.target, verb |-> x.ui.verb]
  OBVIOUS
<1>5. PICK u : u = [x.ui EXCEPT !.busy = TRUE]
  OBVIOUS
<1>6. a.st = "sent" /\ a.id = x.ui.target /\ a \in ActRecords
  BY <1>3, <1>4 DEF UiRecords, ActRecords
<1>7. /\ u \in UiRecords /\ u.loading = x.ui.loading /\ u.modal = x.ui.modal /\ u.reveal = x.ui.reveal
      /\ u.target = x.ui.target
  BY <1>3, <1>5 DEF UiRecords
<1>8. /\ x.ui.target # None /\ act' = [act EXCEPT ![t] = a] /\ ui' = [ui EXCEPT ![t] = u]
      /\ UNCHANGED <<page, table, view, list, post, acked, overlap>>
  BY <1>2, <1>4, <1>5 DEF Resources!Confirm
<1>9. PICK y : y = [page |-> page[t], view |-> view[t], list |-> list[t], ui |-> u, post |-> post[t],
                    act |-> a, acked |-> acked[t], overlaps |-> t \in overlap]
  OBVIOUS
<1>10. /\ y.page = page[t] /\ y.view = view[t] /\ y.list = list[t] /\ y.ui = u /\ y.post = post[t]
       /\ y.act = a /\ y.acked = acked[t] /\ y.overlaps = (t \in overlap)
  BY <1>9
<1>11. TabSound(y, table)
  <2>1. /\ y.page = x.page /\ y.view = x.view /\ y.list = x.list /\ y.ui = u
        /\ y.post = x.post /\ y.act = a /\ y.acked = x.acked /\ y.overlaps = x.overlaps
    BY <1>2, <1>10
  <2> QED
    BY <1>2, <1>6, <1>7, <1>8, <2>1, ConfirmSound
<1>12. TabGoes(t, y)
  BY <1>2, <1>8, <1>9, <1>10 DEF TabGoes
<1>13. TableMoves(table, table') /\ table' = table
  BY <1>8, TableStays
<1> QED
  BY <1>2, <1>11, <1>12, <1>13, TabMoves

\* The request is carried out, or is not.
LEMMA ActSound ==
  ASSUME NEW x, NEW rs, TabSound(x, rs), x.act.st # "idle",
         NEW a \in ActRecords, a.st \in {"ok", "refused", "lost"}, a.id = x.act.id,
         a.st = "ok" => rs[a.id] # "active",
         NEW y, y.page = x.page, y.view = x.view, y.list = x.list, y.ui = x.ui,
         y.post = x.post, y.act = a, y.acked = x.acked, y.overlaps = x.overlaps
  PROVE  TabSound(y, rs)
<1>1. TabTyped(y)
  BY DEF TabSound, TabTyped
<1>2. Loads(y)
  BY DEF TabSound, Loads
<1>3. Retires(y, rs)
  BY DEF TabSound, Retires
<1>4. Knows(y, rs)
  BY DEF TabSound, Knows
<1>5. Reads(y, rs)
  BY DEF TabSound, Reads
<1>6. Alone(y)
  BY DEF TabSound, Alone, Busy
<1>7. Lists(y, rs)
  BY DEF TabSound, Lists
<1> QED
  BY <1>1, <1>2, <1>3, <1>4, <1>5, <1>6, <1>7 DEF TabSound

LEMMA ServeActKeeps ==
  ASSUME ResourcesInv, NEW t \in Tabs, Resources!ServeAct(t)
  PROVE  ResourcesInv'
<1>1. PICK x : x = TabOf(t)
  OBVIOUS
<1>2. /\ TabSound(x, table) /\ TabTyped(x) /\ table \in [TableRows -> Resources!Statuses]
      /\ x.page = page[t] /\ x.view = view[t] /\ x.list = list[t] /\ x.ui = ui[t] /\ x.post = post[t]
      /\ x.act = act[t] /\ x.acked = acked[t] /\ x.overlaps = (t \in overlap)
      /\ view = [view EXCEPT ![t] = view[t]] /\ list = [list EXCEPT ![t] = list[t]]
      /\ ui = [ui EXCEPT ![t] = ui[t]] /\ post = [post EXCEPT ![t] = post[t]]
      /\ act = [act EXCEPT ![t] = act[t]] /\ acked = [acked EXCEPT ![t] = acked[t]]
      /\ overlap = IF t \in overlap THEN overlap \cup {t} ELSE overlap
  BY <1>1, TabWritten
<1>3. /\ x.act \in ActRecords /\ x.act.st = "sent"
      /\ UNCHANGED <<page, view, list, ui, post, acked, overlap>>
  BY <1>2 DEF TabTyped, Resources!ServeAct
<1>4. x.act.id \in TableRows /\ table[x.act.id] # "none"
  BY <1>2, <1>3 DEF TabSound, Retires, Knows
<1>5. PICK st \in {"ok", "refused", "lost"} :
        /\ act' = [act EXCEPT ![t].st = st] /\ (st = "ok" => table'[x.act.id] # "active")
        /\ table' \in [TableRows -> Resources!Statuses] /\ TableMoves(table, table')
  <2>1. CASE table' = table /\ \E st \in {"refused", "lost"} : act' = [act EXCEPT ![t].st = st]
    BY <1>2, <2>1, TableStays
  <2>2. CASE \E st \in {"ok", "lost"} :
               /\ table' = [table EXCEPT ![x.act.id] = Resources!Retired(t, act[t].verb)]
               /\ act' = [act EXCEPT ![t].st = st]
    <3>1. PICK w \in {"suspended", "revoked"} : table' = [table EXCEPT ![x.act.id] = w]
      BY <2>2 DEF Resources!Retired
    <3>2. table' \in [TableRows -> Resources!Statuses] /\ table'[x.act.id] # "active"
      BY <1>2, <1>4, <3>1 DEF Resources!Statuses
    <3>3. TableMoves(table, table')
      BY <1>2, <1>4, <3>1 DEF TableMoves
    <3> QED
      BY <2>2, <3>2, <3>3
  <2> QED
    BY <1>2, <2>1, <2>2 DEF Resources!ServeAct
<1>6. PICK a : a = [x.act EXCEPT !.st = st]
  OBVIOUS
<1>7. a \in ActRecords /\ a.st = st /\ a.id = x.act.id
  BY <1>3, <1>6 DEF ActRecords
<1>8. PICK rs : rs = table'
  OBVIOUS
<1>9. PICK y : y = [page |-> page[t], view |-> view[t], list |-> list[t], ui |-> ui[t], post |-> post[t],
                    act |-> a, acked |-> acked[t], overlaps |-> t \in overlap]
  OBVIOUS
<1>10. /\ y.page = page[t] /\ y.view = view[t] /\ y.list = list[t] /\ y.ui = ui[t] /\ y.post = post[t]
       /\ y.act = a /\ y.acked = acked[t] /\ y.overlaps = (t \in overlap)
  BY <1>9
<1>11. TabSound(y, rs)
  <2>1. TabSound(x, rs)
    BY <1>2, <1>5, <1>8, TabStays
  <2>2. /\ y.page = x.page /\ y.view = x.view /\ y.list = x.list /\ y.ui = x.ui
        /\ y.post = x.post /\ y.act = a /\ y.acked = x.acked /\ y.overlaps = x.overlaps
    BY <1>2, <1>10
  <2>3. x.act.st # "idle" /\ (a.st = "ok" => rs[a.id] # "active")
    BY <1>3, <1>5, <1>7, <1>8
  <2> QED
    BY <1>5, <1>7, <2>1, <2>2, <2>3, ActSound
<1>12. TabGoes(t, y)
  BY <1>2, <1>3, <1>5, <1>6, <1>9, <1>10 DEF TabGoes
<1> QED
  BY <1>5, <1>8, <1>11, <1>12, TabMoves

\* The page takes the answer.
ActFinishes(x, y) ==
  /\ x.act.st \in {"ok", "refused", "lost"}
  /\ \E w \in Resources!Statuses :
       /\ y.view = [x.view EXCEPT ![x.act.id] = w]
       /\ w = "none" => x.act.st = "ok" \/ x.view[x.act.id] = "none"
  /\ y.ui \in UiRecords /\ y.ui.loading = x.ui.loading /\ y.ui.modal = x.ui.modal
  /\ y.ui.reveal = x.ui.reveal /\ y.ui.target = None
  /\ y.page = x.page /\ y.list = x.list /\ y.post = x.post /\ y.act = Resources!NoAct
  /\ y.acked = x.acked /\ y.overlaps = x.overlaps

LEMMA ActFinishSound ==
  ASSUME NEW x, NEW rs, TabSound(x, rs), NEW y, ActFinishes(x, y)
  PROVE  TabSound(y, rs)
<1>1. PICK w \in Resources!Statuses :
        /\ y.view = [x.view EXCEPT ![x.act.id] = w]
        /\ w = "none" => x.act.st = "ok" \/ x.view[x.act.id] = "none"
  BY DEF ActFinishes
<1>2. /\ x.act.st \in {"ok", "refused", "lost"}
      /\ y.ui \in UiRecords /\ y.ui.loading = x.ui.loading /\ y.ui.modal = x.ui.modal
      /\ y.ui.reveal = x.ui.reveal /\ y.ui.target = None
      /\ y.page = x.page /\ y.list = x.list /\ y.post = x.post /\ y.act = Resources!NoAct
      /\ y.acked = x.acked /\ y.overlaps = x.overlaps
  BY DEF ActFinishes
<1>3. Resources!NoAct \in ActRecords /\ Resources!NoAct.st = "idle" /\ Resources!NoAct.id = None
  BY DEF Resources!NoAct, ActRecords
<1>4. x.view \in [TableRows -> Resources!Statuses] /\ x.acked \subseteq TableRows
  BY DEF TabSound, TabTyped
<1>5. x.act.id \in TableRows /\ rs[x.act.id] # "none" /\ ~x.ui.loading
  BY <1>2 DEF TabSound, Loads, Retires, Knows
<1>6. \A i \in TableRows : y.view[i] = IF i = x.act.id THEN w ELSE x.view[i]
  BY <1>1, <1>4, <1>5
<1>7. TabTyped(y)
  BY <1>1, <1>2, <1>3, <1>4 DEF TabSound, TabTyped
<1>8. Loads(y)
  BY <1>2, <1>5 DEF TabSound, Loads
<1>9. Retires(y, rs)
  BY <1>2, <1>3 DEF TabSound, Retires
<1>10. Knows(y, rs)
  <2>1. \A i \in TableRows : i # None
    BY PlatformAssumption
  <2> QED
    BY <1>2, <1>3, <1>5, <1>6, <2>1 DEF TabSound, Knows
<1>11. Reads(y, rs)
  BY <1>2 DEF TabSound, Reads
<1>12. Alone(y)
  BY <1>2 DEF TabSound, Alone, Busy
<1>13. Lists(y, rs)
  <2>1. x.act.st = "ok" => rs[x.act.id] # "active"
    BY DEF TabSound, Retires
  <2>2. \A i \in x.acked : rs[i] = "active" => x.view[i] # "none" \/ (x.page = "dashboard" /\ x.overlaps)
    BY DEF TabSound, Lists
  <2> QED
    BY <1>1, <1>2, <1>4, <1>6, <2>1, <2>2 DEF Lists
<1> QED
  BY <1>7, <1>8, <1>9, <1>10, <1>11, <1>12, <1>13 DEF TabSound

LEMMA FinishActKeeps ==
  ASSUME ResourcesInv, NEW t \in Tabs, Resources!FinishAct(t)
  PROVE  ResourcesInv'
<1>1. PICK x : x = TabOf(t)
  OBVIOUS
<1>2. /\ TabSound(x, table) /\ TabTyped(x) /\ table \in [TableRows -> Resources!Statuses]
      /\ x.page = page[t] /\ x.view = view[t] /\ x.list = list[t] /\ x.ui = ui[t] /\ x.post = post[t]
      /\ x.act = act[t] /\ x.acked = acked[t] /\ x.overlaps = (t \in overlap)
      /\ view = [view EXCEPT ![t] = view[t]] /\ list = [list EXCEPT ![t] = list[t]]
      /\ ui = [ui EXCEPT ![t] = ui[t]] /\ post = [post EXCEPT ![t] = post[t]]
      /\ act = [act EXCEPT ![t] = act[t]] /\ acked = [acked EXCEPT ![t] = acked[t]]
      /\ overlap = IF t \in overlap THEN overlap \cup {t} ELSE overlap
  BY <1>1, TabWritten
<1>3. /\ x.ui \in UiRecords /\ x.act.st \in {"ok", "refused", "lost"}
      /\ x.view \in [TableRows -> Resources!Statuses] /\ x.act.id \in TableRows
      /\ UNCHANGED <<page, table, list, post, acked, overlap>>
  BY <1>2 DEF TabSound, TabTyped, Retires, Resources!FinishAct
<1>4. PICK w : w = Resources!Marked(t)
  OBVIOUS
<1>5. w \in Resources!Statuses /\ (w = "none" => x.act.st = "ok" \/ x.view[x.act.id] = "none")
  <2>1. x.view[x.act.id] \in Resources!Statuses
    BY <1>3
  <2>2. \A verb : Resources!Retired(t, verb) \in {"revoked", "suspended"}
    BY DEF Resources!Retired
  <2>3. w \in {"none", "revoked", "suspended", x.view[x.act.id]}
        /\ (w = "none" => x.act.st = "ok" \/ x.view[x.act.id] = "none")
    <3>1. CASE x.act.st = "ok" /\ x.page = "dashboard"
      BY <1>2, <1>4, <3>1 DEF Resources!Marked
    <3>2. CASE x.act.st = "ok" /\ x.page # "dashboard"
      BY <1>2, <1>4, <2>2, <3>2 DEF Resources!Marked
    <3>3. CASE x.act.st = "refused" /\ x.page = "apiKey"
      BY <1>2, <1>4, <3>3 DEF Resources!Marked
    <3>4. CASE x.act.st # "ok" /\ ~(x.act.st = "refused" /\ x.page = "apiKey")
      BY <1>2, <1>4, <3>4 DEF Resources!Marked
    <3> QED
      BY <3>1, <3>2, <3>3, <3>4
  <2> QED
    BY <2>1, <2>3 DEF Resources!Statuses
<1>6. PICK v : v = [x.view EXCEPT ![x.act.id] = w]
  OBVIOUS
<1>7. PICK u : u = [x.ui EXCEPT !.busy = FALSE, !.target = None]
  OBVIOUS
<1>8. /\ u \in UiRecords /\ u.loading = x.ui.loading /\ u.modal = x.ui.modal
      /\ u.reveal = x.ui.reveal /\ u.target = None
  BY <1>3, <1>7 DEF UiRecords
<1>9. view' = [view EXCEPT ![t] = v] /\ ui' = [ui EXCEPT ![t] = u] /\ act' = [act EXCEPT ![t] = Resources!NoAct]
  <2>1. view' = [view EXCEPT ![t] = v]
    BY <1>2, <1>4, <1>6 DEF Resources!FinishAct
  <2>2. ui' = [ui EXCEPT ![t] = u]
    BY <1>2, <1>7 DEF Resources!FinishAct
  <2> QED
    BY <2>1, <2>2 DEF Resources!FinishAct
<1>10. PICK y : y = [page |-> page[t], view |-> v, list |-> list[t], ui |-> u, post |-> post[t],
                     act |-> Resources!NoAct, acked |-> acked[t], overlaps |-> t \in overlap]
  OBVIOUS
<1>11. /\ y.page = page[t] /\ y.view = v /\ y.list = list[t] /\ y.ui = u /\ y.post = post[t]
       /\ y.act = Resources!NoAct /\ y.acked = acked[t] /\ y.overlaps = (t \in overlap)
  BY <1>10
<1>12. TabSound(y, table)
  <2>1. ActFinishes(x, y)
    BY <1>2, <1>3, <1>5, <1>6, <1>8, <1>11 DEF ActFinishes
  <2> QED
    BY <1>2, <2>1, ActFinishSound
<1>13. TabGoes(t, y)
  BY <1>2, <1>3, <1>9, <1>10, <1>11 DEF TabGoes
<1>14. TableMoves(table, table') /\ table' = table
  BY <1>3, TableStays
<1> QED
  BY <1>2, <1>12, <1>13, <1>14, TabMoves

LEMMA ResourcesStarts == Resources!Init => ResourcesInv
<1> SUFFICES ASSUME Resources!Init PROVE ResourcesInv
  OBVIOUS
<1>1. Resources!Empty \in [TableRows -> Resources!Statuses] /\ \A i \in TableRows : Resources!Empty[i] = "none"
  BY DEF Resources!Empty, Resources!Statuses
<1>2. /\ Resources!Ask(None) \in GetRecords /\ Resources!Ask(None).st = "sent" /\ Resources!Ask(None).made = None
      /\ \A i \in TableRows : Resources!Ask(None).rows[i] = "none"
  BY <1>1 DEF Resources!Ask, GetRecords
<1>3. /\ Resources!NoGet \in GetRecords /\ Resources!NoGet.st = "idle" /\ Resources!NoGet.made = None
      /\ \A i \in TableRows : Resources!NoGet.rows[i] = "none"
  BY <1>1 DEF Resources!NoGet, GetRecords
<1>4. Resources!Idle \in PostRecords /\ Resources!Idle.st = "idle" /\ Resources!Idle.id = None
  BY DEF Resources!Idle, PostRecords
<1>5. Resources!NoAct \in ActRecords /\ Resources!NoAct.st = "idle" /\ Resources!NoAct.id = None
  BY DEF Resources!NoAct, ActRecords
<1>6. PICK u : u = [loading |-> TRUE, modal |-> FALSE, creating |-> FALSE,
                    reveal |-> None, target |-> None, verb |-> "revoke", busy |-> FALSE]
  OBVIOUS
<1>7. u \in UiRecords /\ u.loading /\ ~u.modal /\ u.reveal = None /\ u.target = None
  BY <1>6 DEF UiRecords
<1>8. /\ page \in [Tabs -> Resources!Pages] /\ table \in [TableRows -> Resources!Statuses]
      /\ view = [t \in Tabs |-> Resources!Empty] /\ ui = [t \in Tabs |-> u]
      /\ list = [t \in Tabs |-> [g \in Resources!Gets |-> IF g = "load" THEN Resources!Ask(None) ELSE Resources!NoGet]]
      /\ post = [t \in Tabs |-> [s \in Calls |-> Resources!Idle]] /\ act = [t \in Tabs |-> Resources!NoAct]
      /\ acked = [t \in Tabs |-> {}] /\ overlap = {}
  <2>1. page \in [Tabs -> Resources!Pages]
    BY DEF Resources!Init, Resources!Pages, Resources!KeyPages
  <2>2. table \in [TableRows -> Resources!Statuses]
    BY DEF Resources!Init, Resources!Statuses
  <2> QED
    BY <1>6, <2>1, <2>2 DEF Resources!Init
<1>9. Resources!TypeOK
  <2>1. /\ view \in [Tabs -> [TableRows -> Resources!Statuses]]
        /\ list \in [Tabs -> [Resources!Gets -> GetRecords]] /\ overlap \subseteq Tabs
    BY <1>1, <1>2, <1>3, <1>8
  <2>2. ui \in [Tabs -> UiRecords] /\ post \in [Tabs -> [Calls -> PostRecords]]
    BY <1>4, <1>7, <1>8
  <2>3. act \in [Tabs -> ActRecords] /\ acked \in [Tabs -> SUBSET TableRows]
    BY <1>5, <1>8
  <2>4. \A t \in Tabs : ui[t].reveal = None /\ act[t].id = None
    BY <1>5, <1>7, <1>8
  <2> QED
    BY <1>8, <2>1, <2>2, <2>3, <2>4
       DEF Resources!TypeOK, GetRecords, UiRecords, PostRecords, ActRecords
<1>10. ASSUME NEW t \in Tabs
       PROVE  TabSound(TabOf(t), table)
  <2>1. PICK x : x = TabOf(t)
    OBVIOUS
  <2>2. /\ x.page = page[t] /\ x.view = view[t] /\ x.list = list[t] /\ x.ui = ui[t] /\ x.post = post[t]
        /\ x.act = act[t] /\ x.acked = acked[t] /\ x.overlaps = (t \in overlap)
    BY <2>1 DEF TabOf
  <2>3. /\ x.page \in Resources!Pages /\ x.view = Resources!Empty /\ x.ui = u /\ x.act = Resources!NoAct
        /\ x.list = [g \in Resources!Gets |-> IF g = "load" THEN Resources!Ask(None) ELSE Resources!NoGet]
        /\ x.post = [s \in Calls |-> Resources!Idle] /\ x.acked = {}
    BY <1>8, <2>2
  <2>4. /\ \A s \in Calls : s \in Resources!Gets /\ x.list[s] = Resources!NoGet /\ x.post[s] = Resources!Idle
        /\ "load" \in Resources!Gets /\ x.list["load"] = Resources!Ask(None)
        /\ \A g \in Resources!Gets : x.list[g] = Resources!Ask(None) \/ x.list[g] = Resources!NoGet
    BY <2>3, PlatformAssumption DEF Resources!Gets
  <2>5. TabTyped(x)
    BY <1>1, <1>2, <1>3, <1>4, <1>5, <1>7, <2>3 DEF TabTyped
  <2>6. Loads(x)
    BY <1>1, <1>2, <1>3, <1>4, <1>5, <1>7, <2>3, <2>4 DEF Loads, Busy
  <2>7. Retires(x, table)
    BY <1>5, <1>7, <2>3 DEF Retires
  <2>8. Knows(x, table)
    <3>1. \A i \in TableRows : i # None
      BY PlatformAssumption
    <3> QED
      BY <1>1, <1>2, <1>3, <1>4, <1>5, <1>7, <2>3, <2>4, <3>1 DEF Knows
  <2>9. Reads(x, table)
    BY <1>2, <1>3, <2>4 DEF Reads
  <2>10. Alone(x)
    BY <1>3, <1>4, <1>7, <2>3, <2>4 DEF Alone, Busy
  <2>11. Lists(x, table)
    BY <2>3 DEF Lists
  <2> QED
    BY <2>1, <2>5, <2>6, <2>7, <2>8, <2>9, <2>10, <2>11 DEF TabSound
<1> QED
  BY <1>9, <1>10 DEF ResourcesInv

LEMMA ResourcesKeeps ==
  ASSUME ResourcesInv, [Resources!Next]_(Resources!vars)
  PROVE  ResourcesInv'
<1>1. CASE UNCHANGED Resources!vars
  <2>1. \A t \in Tabs : TabOf(t)' = TabOf(t)
    BY <1>1 DEF Resources!vars, TabOf
  <2>2. Resources!TypeOK' /\ table' = table
    BY <1>1 DEF ResourcesInv, Resources!vars, Resources!TypeOK
  <2>3. ASSUME NEW t \in Tabs
        PROVE  TabSound(TabOf(t)', table')
    BY <2>1, <2>2 DEF ResourcesInv
  <2> QED
    BY <2>2, <2>3 DEF ResourcesInv
<1>2. CASE Resources!Next
  <2>1. PICK t \in Tabs :
          \/ \E g \in Resources!Gets : Resources!ServeList(t, g) \/ Resources!ApplyList(t, g)
          \/ Resources!OpenCreate(t) \/ Resources!CloseCreate(t) \/ Resources!CloseReveal(t) \/ Resources!ReopenCreate(t)
          \/ \E s \in Calls : \/ Resources!Submit(t, s) \/ Resources!ServeCreate(t, s)
                              \/ Resources!FinishCreate(t, s) \/ Resources!FailCreate(t, s)
          \/ \E i \in TableRows, verb \in {"revoke", "suspend"} : Resources!Choose(t, i, verb)
          \/ Resources!Cancel(t) \/ Resources!Confirm(t) \/ Resources!ServeAct(t) \/ Resources!FinishAct(t)
    BY <1>2 DEF Resources!Next
  <2> QED
    BY <2>1, ServeListKeeps, ApplyListKeeps, ModalKeeps, SubmitKeeps, ServeCreateKeeps, FinishCreateKeeps,
       FailCreateKeeps, ConfirmKeeps, ServeActKeeps, FinishActKeeps
<1> QED
  BY <1>1, <1>2

LEMMA PagesTell ==
  ASSUME ResourcesInv
  PROVE  Resources!ActsOnActive /\ Resources!CreatedListed
<1> SUFFICES ASSUME NEW t \in Tabs
             PROVE  /\ page[t] # "dashboard" /\ act[t].st = "sent" => view[t][act[t].id] = "active"
                    /\ \A i \in acked[t] : table[i] = "active" =>
                         view[t][i] # "none" \/ (page[t] = "dashboard" /\ t \in overlap)
  BY DEF Resources!ActsOnActive, Resources!CreatedListed
<1>1. PICK x : x = TabOf(t)
  OBVIOUS
<1>2. /\ TabSound(x, table) /\ x.page = page[t] /\ x.view = view[t] /\ x.act = act[t] /\ x.acked = acked[t]
      /\ x.overlaps = (t \in overlap)
  BY <1>1, TabWritten
<1> QED
  BY <1>2 DEF TabSound, Retires, Lists

LEMMA PagesStay ==
  ASSUME ResourcesInv, [Resources!Next]_(Resources!vars)
  PROVE  Resources!KeepsRevoked /\ Resources!KeepsSecret
<1> SUFFICES ASSUME NEW t \in Tabs
             PROVE  /\ \A i \in TableRows :
                         /\ page[t] # "dashboard" /\ view[t][i] = "revoked"
                         /\ \A s \in Calls : post[t][s].id # i
                         => view'[t][i] = "revoked"
                    /\ page[t] # "agents" /\ ui[t].reveal # None /\ t \notin overlap
                         => \/ ui'[t].reveal = ui[t].reveal
                            \/ ui'[t].reveal = None /\ (Resources!CloseCreate(t) \/ Resources!CloseReveal(t))
  BY DEF Resources!KeepsRevoked, Resources!KeepsSecret
<1>1. PICK x : x = TabOf(t)
  OBVIOUS
<1>2. /\ TabSound(x, table) /\ TabTyped(x)
      /\ x.page = page[t] /\ x.view = view[t] /\ x.list = list[t] /\ x.ui = ui[t] /\ x.post = post[t]
      /\ x.act = act[t] /\ x.overlaps = (t \in overlap)
  BY <1>1, TabWritten
<1>3. view \in [Tabs -> [TableRows -> Resources!Statuses]] /\ ui \in [Tabs -> UiRecords]
  BY ResourcesTyped DEF ResourcesInv
<1>4. ui[t] \in UiRecords
  BY <1>3
<1>5. CASE view'[t] = view[t] /\ ui'[t].reveal = ui[t].reveal
  BY <1>5
<1>6. ASSUME Resources!CloseCreate(t)
      PROVE  view' = view /\ ui'[t].reveal \in {None, ui[t].reveal}
  BY <1>3, <1>4, <1>6 DEF Resources!CloseCreate, UiRecords
<1>7. ASSUME Resources!CloseReveal(t)
      PROVE  view' = view /\ ui'[t].reveal = None
  BY <1>3, <1>4, <1>7 DEF Resources!CloseReveal, UiRecords
<1>8. ASSUME NEW g \in Resources!Gets, Resources!ApplyList(t, g)
      PROVE  /\ ui'[t].reveal = ui[t].reveal
             /\ page[t] # "dashboard" => \A i \in TableRows : view[t][i] # "revoked"
  <2>1. ui'[t].reveal = ui[t].reveal
    BY <1>3, <1>4, <1>8 DEF Resources!ApplyList, UiRecords
  <2>2. x.list[g].st # "idle"
    BY <1>2, <1>8 DEF Resources!ApplyList
  <2>3. page[t] # "dashboard" => ui[t].loading
    BY <1>2, <2>2 DEF TabSound, Loads, Resources!Gets
  <2> QED
    BY <1>2, <2>1, <2>3 DEF TabSound, Loads
<1>9. ASSUME NEW s \in Calls, Resources!FinishCreate(t, s)
      PROVE  /\ page[t] # "agents" /\ t \notin overlap => ui[t].reveal = None
             /\ \A i \in TableRows : post[t][s].id # i => view'[t][i] = view[t][i]
  <2>1. x.post[s].st # "idle"
    BY <1>2, <1>9 DEF Resources!FinishCreate
  <2>2. page[t] # "agents" /\ t \notin overlap => ui[t].reveal = None
    BY <1>2, <2>1 DEF TabSound, Alone
  <2>3. \A i \in TableRows : post[t][s].id # i => view'[t][i] = view[t][i]
    <3>1. CASE page[t] = "dashboard"
      BY <1>9, <3>1 DEF Resources!FinishCreate
    <3>2. CASE page[t] # "dashboard"
      BY <1>3, <1>9, <3>2 DEF Resources!FinishCreate
    <3> QED
      BY <3>1, <3>2
  <2> QED
    BY <2>2, <2>3
<1>10. ASSUME Resources!FinishAct(t)
       PROVE  /\ ui'[t].reveal = ui[t].reveal
              /\ page[t] # "dashboard" => \A i \in TableRows : view[t][i] = "revoked" => view'[t][i] = view[t][i]
  <2>1. ui'[t].reveal = ui[t].reveal
    BY <1>3, <1>4, <1>10 DEF Resources!FinishAct, UiRecords
  <2>2. page[t] # "dashboard" => view[t][act[t].id] = "active"
    BY <1>2, <1>10 DEF TabSound, Retires, Resources!FinishAct
  <2>3. \A i \in TableRows : i # act[t].id => view'[t][i] = view[t][i]
    BY <1>3, <1>10, SMTT(20) DEF Resources!FinishAct
  <2> QED
    BY <2>1, <2>2, <2>3
<1>11. ASSUME \/ \E g \in Resources!Gets : Resources!ServeList(t, g)
              \/ Resources!OpenCreate(t) \/ Resources!ReopenCreate(t)
              \/ \E s \in Calls : Resources!Submit(t, s) \/ Resources!ServeCreate(t, s) \/ Resources!FailCreate(t, s)
              \/ \E i \in TableRows, verb \in {"revoke", "suspend"} : Resources!Choose(t, i, verb)
              \/ Resources!Cancel(t) \/ Resources!Confirm(t) \/ Resources!ServeAct(t)
       PROVE  view'[t] = view[t] /\ ui'[t].reveal = ui[t].reveal
  <2>1. view' = view
    BY <1>11 DEF Resources!ServeList, Resources!OpenCreate, Resources!ReopenCreate, Resources!Submit,
                 Resources!ServeCreate, Resources!FailCreate, Resources!Choose, Resources!Cancel,
                 Resources!Confirm, Resources!ServeAct
  <2>2. CASE ui' = ui
    BY <2>1, <2>2
  <2>3. ASSUME NEW i, NEW verb, ui' = [ui EXCEPT ![t].target = i, ![t].verb = verb]
        PROVE  ui'[t].reveal = ui[t].reveal
    BY <1>3, <1>4, <2>3 DEF UiRecords
  <2>4. CASE ui' = [ui EXCEPT ![t].modal = TRUE] \/ ui' = [ui EXCEPT ![t].creating = FALSE]
             \/ ui' = [ui EXCEPT ![t].creating = TRUE] \/ ui' = [ui EXCEPT ![t].target = None]
             \/ ui' = [ui EXCEPT ![t].busy = TRUE]
    BY <1>3, <1>4, <2>1, <2>4 DEF UiRecords
  <2> QED
    BY <1>11, <2>1, <2>2, <2>3, <2>4
       DEF Resources!ServeList, Resources!OpenCreate, Resources!ReopenCreate, Resources!Submit,
           Resources!ServeCreate, Resources!FailCreate, Resources!Choose, Resources!Cancel,
           Resources!Confirm, Resources!ServeAct
<1>12. ASSUME NEW o \in Tabs, o # t,
              \/ \E g \in Resources!Gets : Resources!ServeList(o, g) \/ Resources!ApplyList(o, g)
              \/ Resources!OpenCreate(o) \/ Resources!CloseCreate(o) \/ Resources!CloseReveal(o) \/ Resources!ReopenCreate(o)
              \/ \E s \in Calls : \/ Resources!Submit(o, s) \/ Resources!ServeCreate(o, s)
                                  \/ Resources!FinishCreate(o, s) \/ Resources!FailCreate(o, s)
              \/ \E i \in TableRows, verb \in {"revoke", "suspend"} : Resources!Choose(o, i, verb)
              \/ Resources!Cancel(o) \/ Resources!Confirm(o) \/ Resources!ServeAct(o) \/ Resources!FinishAct(o)
       PROVE  view'[t] = view[t] /\ ui'[t] = ui[t]
  <2>1. CASE \E g \in Resources!Gets : Resources!ServeList(o, g) \/ Resources!ApplyList(o, g)
    BY <1>3, <1>12, <2>1 DEF Resources!ServeList, Resources!ApplyList
  <2>2. CASE Resources!OpenCreate(o) \/ Resources!CloseCreate(o) \/ Resources!CloseReveal(o) \/ Resources!ReopenCreate(o)
    BY <1>3, <1>12, <2>2 DEF Resources!OpenCreate, Resources!CloseCreate, Resources!CloseReveal, Resources!ReopenCreate
  <2>3. ASSUME NEW s \in Calls,
               Resources!Submit(o, s) \/ Resources!ServeCreate(o, s) \/ Resources!FinishCreate(o, s) \/ Resources!FailCreate(o, s)
        PROVE  view'[t] = view[t] /\ ui'[t] = ui[t]
    <3>1. CASE Resources!FinishCreate(o, s)
      <4>1. ui'[t] = ui[t]
        BY <1>3, <1>12, <3>1 DEF Resources!FinishCreate
      <4>2. CASE page[o] = "dashboard"
        <5>1. view' = view
          BY <3>1, <4>2, Zenon DEF Resources!FinishCreate
        <5> QED
          BY <4>1, <5>1
      <4>3. CASE page[o] # "dashboard"
        BY <1>3, <1>12, <3>1, <4>1, <4>3, Zenon DEF Resources!FinishCreate
      <4> QED
        BY <4>2, <4>3, Zenon
    <3>2. CASE Resources!Submit(o, s) \/ Resources!ServeCreate(o, s) \/ Resources!FailCreate(o, s)
      BY <1>3, <1>12, <3>2 DEF Resources!Submit, Resources!ServeCreate, Resources!FailCreate
    <3> QED
      BY <2>3, <3>1, <3>2
  <2>4. CASE \/ \E i \in TableRows, verb \in {"revoke", "suspend"} : Resources!Choose(o, i, verb)
             \/ Resources!Cancel(o) \/ Resources!Confirm(o) \/ Resources!ServeAct(o)
    BY <1>3, <1>12, <2>4 DEF Resources!Choose, Resources!Cancel, Resources!Confirm, Resources!ServeAct
  <2>5. CASE Resources!FinishAct(o)
    BY <1>3, <1>12, <2>5 DEF Resources!FinishAct
  <2> QED
    BY <1>12, <2>1, <2>2, <2>3, <2>4, <2>5, Zenon
<1>13. CASE UNCHANGED Resources!vars
  BY <1>5, <1>13 DEF Resources!vars
<1>14. CASE Resources!Next
  <2>1. PICK o \in Tabs :
          \/ \E g \in Resources!Gets : Resources!ServeList(o, g) \/ Resources!ApplyList(o, g)
          \/ Resources!OpenCreate(o) \/ Resources!CloseCreate(o) \/ Resources!CloseReveal(o) \/ Resources!ReopenCreate(o)
          \/ \E s \in Calls : \/ Resources!Submit(o, s) \/ Resources!ServeCreate(o, s)
                              \/ Resources!FinishCreate(o, s) \/ Resources!FailCreate(o, s)
          \/ \E i \in TableRows, verb \in {"revoke", "suspend"} : Resources!Choose(o, i, verb)
          \/ Resources!Cancel(o) \/ Resources!Confirm(o) \/ Resources!ServeAct(o) \/ Resources!FinishAct(o)
    BY <1>14 DEF Resources!Next
  <2>2. CASE o # t
    BY <1>5, <1>12, <2>1, <2>2
  <2>3. CASE o = t
    BY <1>5, <1>6, <1>7, <1>8, <1>9, <1>10, <1>11, <2>1, <2>3
  <2> QED
    BY <2>2, <2>3
<1> QED
  BY <1>13, <1>14

---------------------------------------------------------------------------
(* The policy editor                                                       *)

EditorReplies == {"ok", "lost", "refused"}

\* A list of policies, none of them twice.
Listing(l) ==
  /\ l \in Seq(Editor!Row)
  /\ \A i, j \in 1..Len(l) : l[i].id = l[j].id => i = j

Ask == [kind : {"free", "create", "toggle", "save", "delete"}, id : TableRows \cup {None},
        rules : RuleDrafts \cup {<<>>}, active : BOOLEAN, old : Editor!Row \cup {None},
        reply : EditorReplies \cup {None}, row : Editor!Row \cup {None}, done : BOOLEAN]

\* A request of the page, by its kind; it has answered "ok" only when it is done.
AskSound(r) ==
  /\ r \in Ask
  /\ r.kind = "free" => r = Editor!Free
  /\ r.reply = "ok" => r.done
  /\ r.done => r.reply \in {"ok", "lost"}
  /\ r.kind = "create" => r.id = None /\ r.rules \in RuleDrafts /\ (r.done => r.row \in Editor!Row)
  /\ r.kind \in {"toggle", "save", "delete"} => r.id \in TableRows
  /\ r.kind = "toggle" => /\ r.old \in Editor!Row /\ r.old.id = r.id /\ (r.active <=> ~r.old.active)
                          /\ r.done => r.row \in Editor!Row
  /\ r.kind = "save" => /\ r.rules \in RuleDrafts
                        /\ r.done => r.row \in Editor!Row /\ r.row.id = r.id

\* Creates are one at a time; the new row is the newest of the table, nowhere on
\* the page, and no other request is about it.
Creates(A, P, T) ==
  \A s \in Calls : A[s].kind = "create" =>
    /\ \A o \in Calls : A[o].kind = "create" => o = s
    /\ A[s].done =>
         /\ Len(T) > 0 /\ T[1] = A[s].row
         /\ \A i \in 1..Len(P) : P[i].id # A[s].row.id
         /\ \A o \in Calls : A[o].id # A[s].row.id

Made(A, id) == \E s \in Calls : A[s].kind = "create" /\ A[s].done /\ A[s].row.id = id
Gone(A, id) == \E s \in Calls : A[s].kind = "delete" /\ A[s].done /\ A[s].id = id
\* The page shows a change that is not in the table yet, or the other way round.
Ahead(r) == (r.kind = "toggle" /\ ~r.done) \/ (r.kind = "save" /\ r.done)

\* Unless requests for one policy overlapped or an outcome was not told, page and
\* table differ by what is under way, and in nothing else: they have the same
\* policies, in the same order, and the same rows.
Apart(A) == \A s, o \in Calls : s # o /\ A[s].id # None => A[o].id # A[s].id
OnPage(A, P, T) ==
  \A i \in 1..Len(P) : Gone(A, P[i].id) \/ \E j \in 1..Len(T) : T[j].id = P[i].id
InTable(A, P, T) ==
  \A j \in 1..Len(T) : /\ ~Gone(A, T[j].id)
                       /\ Made(A, T[j].id) \/ \E i \in 1..Len(P) : P[i].id = T[j].id
Ordered(P, T) ==
  \A i1, i2 \in 1..Len(P), j1, j2 \in 1..Len(T) :
    P[i1].id = T[j1].id /\ P[i2].id = T[j2].id /\ i1 < i2 => j1 < j2
SameRows(A, P, T) ==
  \A i \in 1..Len(P), j \in 1..Len(T) : P[i].id = T[j].id =>
    P[i] = T[j] \/ \E s \in Calls : A[s].id = P[i].id /\ Ahead(A[s])
Flip(x) == [x EXCEPT !.active = ~ @]
Pending(A, P, T) ==
  \A s \in Calls, j \in 1..Len(T) : T[j].id = A[s].id =>
    /\ A[s].kind = "toggle" /\ ~A[s].done =>
         /\ T[j] = A[s].old
         /\ \A i \in 1..Len(P) : P[i].id = A[s].id => P[i] = Flip(T[j])
    /\ A[s].kind = "save" /\ A[s].done => T[j] = A[s].row
Agrees(A, P, T) ==
  /\ Apart(A) /\ OnPage(A, P, T) /\ InTable(A, P, T) /\ Ordered(P, T)
  /\ SameRows(A, P, T) /\ Pending(A, P, T)

\* What was listed last is what the table compiles to, as long as no push is due.
Pushes ==
  /\ due \in Nat /\ listings \in Nat /\ inForce \in 0..listings
  /\ \A t \in texts : t.nth \in 1..listings
  /\ due = 0 =>
       /\ \A t \in texts : t.nth = listings => t.rules = Editor!compileToEngineYaml(policies)
       /\ inForce = listings => engine = Editor!compileToEngineYaml(policies)

\* Every listing, push and request that is not done was sent.
Unserved(A) == {s \in Calls : A[s].kind # "free" /\ ~A[s].done}
Counts ==
  /\ asked \in 0..MaxSent
  /\ due + listings + Cardinality(Unserved(asks)) <= asked

\* The page and the table, as long as the requests are as in A.
PageSound(A, P, T, unsure) ==
  /\ A \in [Calls -> Ask] /\ (\A s \in Calls : AskSound(A[s]))
  /\ Listing(P) /\ Listing(T)
  /\ Creates(A, P, T)
  /\ ~unsure => Agrees(A, P, T)

EditorPage ==
  /\ torn \in BOOLEAN
  /\ shown = None => policies = <<>> /\ asks = [s \in Calls |-> Editor!Free]
  /\ shown # None => PageSound(asks, shown, policies, torn)

EditorInv == EditorPage /\ Pushes /\ Counts

\* A list is a sequence of rows, and a row is its fields.
LEMMA Rows ==
  /\ \A l : Listing(l) => Len(l) \in Nat /\ DOMAIN l = 1..Len(l) /\ \A i \in 1..Len(l) : l[i] \in Editor!Row
  /\ \A x, y \in Editor!Row : x.id = y.id /\ x.rules = y.rules /\ (x.active <=> y.active) => x = y
  /\ \A x \in Editor!Row : /\ Flip(x) \in Editor!Row /\ Flip(x).id = x.id /\ Flip(x).rules = x.rules
                           /\ Flip(x).active <=> ~x.active
<1>1. ASSUME NEW l, Listing(l)
      PROVE  Len(l) \in Nat /\ DOMAIN l = 1..Len(l) /\ \A i \in 1..Len(l) : l[i] \in Editor!Row
  BY <1>1 DEF Listing
<1>2. \A x, y \in Editor!Row : x.id = y.id /\ x.rules = y.rules /\ (x.active <=> y.active) => x = y
  <2> SUFFICES ASSUME NEW x \in Editor!Row, NEW y \in Editor!Row,
                      x.id = y.id, x.rules = y.rules, x.active <=> y.active
               PROVE  x = y
    OBVIOUS
  <2>1. x.active = y.active
    BY DEF Editor!Row
  <2> QED
    BY <2>1 DEF Editor!Row
<1>3. ASSUME NEW x \in Editor!Row
      PROVE  /\ Flip(x) \in Editor!Row /\ Flip(x).id = x.id /\ Flip(x).rules = x.rules
             /\ Flip(x).active <=> ~x.active
  BY DEF Flip, Editor!Row
<1> QED
  BY <1>1, <1>2, <1>3

LEMMA Found ==
  ASSUME NEW l, Listing(l), NEW id, Editor!Has(l, id)
  PROVE  Editor!At(l, id) \in 1..Len(l) /\ l[Editor!At(l, id)].id = id
BY Rows DEF Editor!Has, Editor!At

\* A row takes the place of the row with its id.
LEMMA PutKeeps ==
  ASSUME NEW l, Listing(l), NEW x \in Editor!Row
  PROVE  /\ Listing(Editor!Put(l, x)) /\ Len(Editor!Put(l, x)) = Len(l)
         /\ \A i \in 1..Len(l) : Editor!Put(l, x)[i] = IF l[i].id = x.id THEN x ELSE l[i]
<1>1. PICK p : p = Editor!Put(l, x)
  OBVIOUS
<1>2. p = [i \in 1..Len(l) |-> IF l[i].id = x.id THEN x ELSE l[i]]
  BY <1>1, Rows DEF Editor!Put
<1>3. p \in Seq(Editor!Row) /\ Len(p) = Len(l)
  BY <1>2, Rows
<1>4. \A i \in 1..Len(l) : p[i] = IF l[i].id = x.id THEN x ELSE l[i]
  BY <1>2
<1>5. \A i, j \in 1..Len(l) : p[i].id = p[j].id => i = j
  BY <1>4 DEF Listing
<1> QED
  BY <1>1, <1>3, <1>4, <1>5 DEF Listing

\* The list without one of its rows: the rows above and below it.
Leaves(l, w, k) ==
  /\ k \in 1..Len(l) /\ Len(w) = Len(l) - 1
  /\ \A i \in 1..Len(w) : w[i] = l[IF i < k THEN i ELSE i + 1]

LEMMA Removed ==
  ASSUME NEW l, Listing(l), NEW k \in 1..Len(l)
  PROVE  LET w == SubSeq(l, 1, k - 1) \o SubSeq(l, k + 1, Len(l)) IN Listing(w) /\ Leaves(l, w, k)
<1> DEFINE R == Editor!Row
<1>0. PICK w : w = SubSeq(l, 1, k - 1) \o SubSeq(l, k + 1, Len(l))
  OBVIOUS
<1>1. l \in Seq(R) /\ Len(l) \in Nat
  BY DEF Listing
<1>2. PICK a : a = SubSeq(l, 1, k - 1)
  OBVIOUS
<1>3. PICK b : b = SubSeq(l, k + 1, Len(l))
  OBVIOUS
<1>4. a \in Seq(R) /\ Len(a) = k - 1 /\ \A i \in 1..(k - 1) : a[i] = l[i]
  <2>1. \A i \in 1..(k - 1) : i \in 1..Len(l)
    BY <1>1
  <2> QED
    BY <1>1, <1>2, <2>1, SubSeqProperties
<1>5. b \in Seq(R) /\ Len(b) = Len(l) - k /\ \A i \in 1..(Len(l) - k) : b[i] = l[i + k]
  <2>1. CASE k = Len(l)
    <3>1. b = <<>>
      BY <1>1, <1>3, <2>1
    <3> QED
      BY <1>1, <2>1, <3>1
  <2>2. CASE k < Len(l)
    <3>1. \A i \in (k + 1)..Len(l) : i \in 1..Len(l)
      BY <1>1
    <3>2. b \in Seq(R) /\ Len(b) = Len(l) - (k + 1) + 1
      BY <1>1, <1>3, <2>2, <3>1, SubSeqProperties
    <3>3. \A i \in 1..(Len(l) - (k + 1) + 1) : b[i] = l[(k + 1) + i - 1]
      BY <1>1, <1>3, <2>2, <3>1, SubSeqProperties
    <3> QED
      BY <1>1, <3>2, <3>3
  <2> QED
    BY <1>1, <2>1, <2>2
<1> HIDE DEF R
<1>6. /\ a \o b \in Seq(R) /\ Len(a \o b) = Len(a) + Len(b)
      /\ \A i \in 1..(Len(a) + Len(b)) : (a \o b)[i] = IF i <= Len(a) THEN a[i] ELSE b[i - Len(a)]
  BY <1>4, <1>5, ConcatProperties
<1>7. w \in Seq(R) /\ Len(w) = Len(l) - 1 /\ \A i \in 1..Len(w) : w[i] = IF i <= k - 1 THEN a[i] ELSE b[i - (k - 1)]
  <2>1. Len(a) + Len(b) = Len(l) - 1
    BY <1>1, <1>4, <1>5
  <2>2. w = a \o b
    BY <1>0, <1>2, <1>3
  <2> QED
    BY <1>4, <1>6, <2>1, <2>2
<1>8. \A i \in 1..Len(w) : w[i] = l[IF i < k THEN i ELSE i + 1]
  <2> SUFFICES ASSUME NEW i \in 1..Len(w)
               PROVE  w[i] = l[IF i < k THEN i ELSE i + 1]
    OBVIOUS
  <2>1. CASE i < k
    <3>1. i \in 1..(k - 1) /\ i <= k - 1
      BY <1>1, <1>7, <2>1
    <3> QED
      BY <1>4, <1>7, <2>1, <3>1
  <2>2. CASE i >= k
    <3>1. i - (k - 1) \in 1..(Len(l) - k) /\ (i - (k - 1)) + k = i + 1
      BY <1>1, <1>7, <2>2
    <3> QED
      BY <1>1, <1>5, <1>7, <2>2, <3>1
  <2> QED
    BY <1>1, <2>1, <2>2
<1>9. \A i \in 1..Len(w) : (IF i < k THEN i ELSE i + 1) \in 1..Len(l)
  BY <1>1, <1>7
<1>10. \A i, j \in 1..Len(w) : w[i].id = w[j].id => i = j
  <2> SUFFICES ASSUME NEW i \in 1..Len(w), NEW j \in 1..Len(w), w[i].id = w[j].id
               PROVE  i = j
    OBVIOUS
  <2>1. (IF i < k THEN i ELSE i + 1) = (IF j < k THEN j ELSE j + 1)
    BY <1>8, <1>9 DEF Listing
  <2> QED
    BY <1>1, <1>7, <2>1
<1> QED
  BY <1>0, <1>7, <1>8, <1>10 DEF Listing, Leaves, R

LEMMA WithoutKeeps ==
  ASSUME NEW l, Listing(l), NEW id
  PROVE  /\ Listing(Editor!Without(l, id))
         /\ \/ Editor!Without(l, id) = l /\ \A i \in 1..Len(l) : l[i].id # id
            \/ \E k \in 1..Len(l) : l[k].id = id /\ Leaves(l, Editor!Without(l, id), k)
<1>1. CASE Editor!Has(l, id)
  BY <1>1, Found, Removed DEF Editor!Without
<1>2. CASE ~Editor!Has(l, id)
  BY <1>2, Rows DEF Editor!Without, Editor!Has
<1> QED
  BY <1>1, <1>2

\* A row comes in front of the others.
Fronts(l, x, w) == /\ Len(w) = Len(l) + 1 /\ w[1] = x
                   /\ \A i \in 2..Len(w) : w[i] = l[i - 1] /\ i - 1 \in 1..Len(l)
Fresh(l, x) == \A i \in 1..Len(l) : l[i].id # x.id

LEMMA Fronted ==
  ASSUME NEW l, Listing(l), NEW x \in Editor!Row, Fresh(l, x)
  PROVE  Listing(<<x>> \o l) /\ Fronts(l, x, <<x>> \o l)
<1>0. PICK w : w = <<x>> \o l
  OBVIOUS
<1> DEFINE R == Editor!Row
<1>1. l \in Seq(R) /\ Len(l) \in Nat
  BY DEF Listing
<1>2. PICK a : a = <<x>>
  OBVIOUS
<1>3. a \in Seq(R) /\ Len(a) = 1 /\ a[1] = x
  BY <1>2
<1> HIDE DEF R
<1>4. /\ a \o l \in Seq(R) /\ Len(a \o l) = Len(a) + Len(l)
      /\ \A i \in 1..(Len(a) + Len(l)) : (a \o l)[i] = IF i <= Len(a) THEN a[i] ELSE l[i - Len(a)]
  BY <1>1, <1>3, ConcatProperties
<1>5. w = a \o l
  BY <1>0, <1>2
<1>6. w \in Seq(R) /\ Len(w) = Len(l) + 1 /\ \A i \in 1..Len(w) : w[i] = IF i <= 1 THEN a[i] ELSE l[i - 1]
  BY <1>1, <1>3, <1>4, <1>5
<1>7. w[1] = x /\ \A i \in 2..Len(w) : w[i] = l[i - 1] /\ i - 1 \in 1..Len(l)
  BY <1>1, <1>3, <1>6
<1>8. \A i, j \in 1..Len(w) : w[i].id = w[j].id => i = j
  <2> SUFFICES ASSUME NEW i \in 1..Len(w), NEW j \in 1..Len(w), w[i].id = w[j].id
               PROVE  i = j
    OBVIOUS
  <2>1. (i = 1 \/ i \in 2..Len(w)) /\ (j = 1 \/ j \in 2..Len(w))
    BY <1>1, <1>6
  <2>2. \A m \in 2..Len(w) : w[m].id # x.id
    BY <1>7 DEF Fresh
  <2>3. CASE i \in 2..Len(w) /\ j \in 2..Len(w)
    <3>1. i - 1 = j - 1
      BY <1>7, <2>3 DEF Listing
    <3> QED
      BY <1>6, <3>1
  <2> QED
    BY <1>7, <2>1, <2>2, <2>3
<1> QED
  BY <1>0, <1>6, <1>7, <1>8 DEF Listing, R, Fronts

\* Requests that say nothing.
LEMMA FreeAsk ==
  /\ Editor!Free.kind = "free" /\ Editor!Free.id = None /\ ~Editor!Free.done /\ Editor!Free.reply = None
  /\ Editor!Free.row = None /\ AskSound(Editor!Free) /\ ~Ahead(Editor!Free)
BY PlatformAssumption DEF Editor!Free, AskSound, Ahead, Ask, EditorReplies

LEMMA AskIs ==
  ASSUME NEW r, AskSound(r)
  PROVE  /\ r.kind \in {"free", "create", "toggle", "save", "delete"} /\ r.id \in TableRows \cup {None}
         /\ r.done \in BOOLEAN /\ r.reply \in EditorReplies \cup {None}
         /\ r.kind \in {"create", "toggle", "save"} /\ r.done => r.row \in Editor!Row
         /\ r.id = None <=> r.kind \in {"free", "create"}
         /\ r.kind = "free" => ~r.done /\ r.id = None
BY FreeAsk, PlatformAssumption DEF AskSound, Ask

LEMMA AskFacts ==
  ASSUME NEW A, NEW P, NEW T, NEW u, PageSound(A, P, T, u)
  PROVE  /\ \A o \in Calls : AskSound(A[o])
         /\ \A o \in Calls : A[o].kind \in {"create", "toggle", "save"} /\ A[o].done => A[o].row \in Editor!Row
         /\ \A o \in Calls : A[o].id = None <=> A[o].kind \in {"free", "create"}
         /\ \A o \in Calls : A[o].done \in BOOLEAN
BY AskIs DEF PageSound

LEMMA RowId == \A x \in Editor!Row : x.id \in TableRows /\ x.id # None
BY PlatformAssumption DEF Editor!Row

\* Page and table are the same once nothing is under way.
LEMMA SettledAlike ==
  ASSUME NEW A, NEW P, NEW T, PageSound(A, P, T, FALSE), \A s \in Calls : A[s].kind = "free"
  PROVE  P = T
<1>1. Listing(P) /\ Listing(T) /\ Agrees(A, P, T)
  BY DEF PageSound
<1>2. PICK m \in Nat, n \in Nat : m = Len(P) /\ n = Len(T)
  BY <1>1, Rows
<1>3. \A id : ~Gone(A, id) /\ ~Made(A, id)
  BY DEF Gone, Made
<1>4. \A s \in Calls : ~Ahead(A[s])
  BY DEF Ahead
<1>5. /\ \A i \in 1..m : \E j \in 1..n : T[j].id = P[i].id
      /\ \A j \in 1..n : \E i \in 1..m : P[i].id = T[j].id
  BY <1>1, <1>2, <1>3 DEF Agrees, OnPage, InTable
<1>6. \A i1, i2 \in 1..m, j1, j2 \in 1..n : P[i1].id = T[j1].id /\ P[i2].id = T[j2].id /\ i1 < i2 => j1 < j2
  BY <1>1, <1>2 DEF Agrees, Ordered
<1>7. \A i \in 1..m, j \in 1..n : P[i].id = T[j].id => P[i] = T[j]
  BY <1>1, <1>2, <1>4 DEF Agrees, SameRows
<1>8. /\ \A i, j \in 1..m : P[i].id = P[j].id => i = j
      /\ \A i, j \in 1..n : T[i].id = T[j].id => i = j
  BY <1>1, <1>2 DEF Listing
<1> DEFINE Bad == {k \in 1..m : ~(k \in 1..n /\ P[k].id = T[k].id)}
<1>9. Bad = {}
  <2> SUFFICES ASSUME Bad # {}
               PROVE  FALSE
    OBVIOUS
  <2>1. Bad \subseteq Nat
    OBVIOUS
  <2>2. PICK k \in Bad : \A x \in Bad : ~(<<x, k>> \in OpToRel(<, Nat))
    BY <2>1, NatLessThanWellFounded, WFMin
  <2>3. \A x \in 1..m : x < k => x \in 1..n /\ P[x].id = T[x].id
    BY <2>1, <2>2 DEF OpToRel
  <2>4. k \in 1..m
    OBVIOUS
  <2>5. PICK j \in 1..n : T[j].id = P[k].id
    BY <1>5, <2>4
  <2>6. j > k
    <3>1. j # k
      BY <2>5
    <3>2. ~(j < k)
      <4> SUFFICES ASSUME j < k
                   PROVE  FALSE
        OBVIOUS
      <4>1. j \in 1..m /\ P[j].id = T[j].id
        BY <2>3, <2>4
      <4> QED
        BY <1>8, <2>4, <2>5, <4>1
    <3> QED
      BY <2>4, <3>1, <3>2
  <2>7. k \in 1..n
    BY <2>4, <2>6
  <2>8. PICK i \in 1..m : P[i].id = T[k].id
    BY <1>5, <2>7
  <2>9. ~(i < k)
    <3> SUFFICES ASSUME i < k
                 PROVE  FALSE
      OBVIOUS
    <3>1. i \in 1..n /\ T[i].id = T[k].id
      BY <2>3, <2>8
    <3> QED
      BY <1>8, <2>7, <3>1
  <2>10. i # k
    BY <2>7, <2>8
  <2>11. k < i
    BY <2>4, <2>9, <2>10
  <2>12. j < k
    BY <1>6, <2>4, <2>5, <2>7, <2>8, <2>11
  <2> QED
    BY <2>4, <2>6, <2>12
<1>10. \A k \in 1..m : k \in 1..n /\ P[k] = T[k]
  BY <1>7, <1>9
<1>11. n = m
  <2>1. m <= n
    BY <1>10
  <2>2. ~(m < n)
    <3> SUFFICES ASSUME m < n
                 PROVE  FALSE
      OBVIOUS
    <3>1. m + 1 \in 1..n
      OBVIOUS
    <3>2. PICK i \in 1..m : P[i].id = T[m + 1].id
      BY <1>5, <3>1
    <3>3. i \in 1..n /\ T[i].id = T[m + 1].id
      BY <1>10, <3>2
    <3>4. i = m + 1
      BY <1>8, <3>1, <3>3
    <3> QED
      BY <3>4
  <2> QED
    BY <2>1, <2>2
<1> QED
  <2>1. P \in Seq(Editor!Row) /\ T \in Seq(Editor!Row)
    BY <1>1 DEF Listing
  <2>2. Len(P) = Len(T) /\ \A k \in 1..Len(P) : P[k] = T[k]
    BY <1>2, <1>10, <1>11
  <2> QED
    BY <2>1, <2>2, SeqEqual

\* The lists have the same policies in the same places.
SameIds(P, Q) == Len(Q) = Len(P) /\ \A i \in 1..Len(P) : Q[i].id = P[i].id
Rerow(P, Q, x) == Len(Q) = Len(P) /\ \A i \in 1..Len(P) : Q[i] = IF P[i].id = x.id THEN x ELSE P[i]

LEMMA RerowIds == \A P, Q, x : Rerow(P, Q, x) => SameIds(P, Q)
BY DEF Rerow, SameIds

\* Creates speaks of places and requests only.
LEMMA CreatesStay ==
  ASSUME NEW A, NEW P, NEW Q, NEW T, Creates(A, P, T), SameIds(P, Q)
  PROVE  Creates(A, Q, T)
BY DEF Creates, SameIds

LEMMA PlacesStay ==
  ASSUME NEW A, NEW P, NEW Q, NEW T, SameIds(P, Q), OnPage(A, P, T), InTable(A, P, T), Ordered(P, T)
  PROVE  OnPage(A, Q, T) /\ InTable(A, Q, T) /\ Ordered(Q, T)
<1>1. OnPage(A, Q, T)
  BY DEF SameIds, OnPage
<1>2. InTable(A, Q, T)
  BY DEF SameIds, InTable
<1>3. Ordered(Q, T)
  BY DEF SameIds, Ordered
<1> QED
  BY <1>1, <1>2, <1>3

\* One request is another one now.
Turns(A, B, s, r) == /\ A \in [Calls -> Ask] /\ s \in Calls /\ AskSound(r)
                     /\ B \in [Calls -> Ask] /\ \A o \in Calls : B[o] = IF o = s THEN r ELSE A[o]

LEMMA TurnsIs ==
  ASSUME NEW A \in [Calls -> Ask], NEW s \in Calls, NEW r, AskSound(r)
  PROVE  Turns(A, [A EXCEPT ![s] = r], s, r)
BY DEF Turns, AskSound

\* What is made or gone stays so unless the request says otherwise.
LEMMA MadeGone ==
  ASSUME NEW A, NEW B, NEW s, NEW r, Turns(A, B, s, r)
  PROVE  /\ \A id : Gone(B, id) <=> (\E o \in Calls : o # s /\ A[o].kind = "delete" /\ A[o].done /\ A[o].id = id)
                                    \/ (r.kind = "delete" /\ r.done /\ r.id = id)
         /\ \A id : Made(B, id) <=> (\E o \in Calls : o # s /\ A[o].kind = "create" /\ A[o].done /\ A[o].row.id = id)
                                    \/ (r.kind = "create" /\ r.done /\ r.row.id = id)
BY DEF Turns, Gone, Made

\* A request that is not done has made and removed nothing.
LEMMA MadeGoneStay ==
  ASSUME NEW A, NEW B, NEW s, NEW r, Turns(A, B, s, r),
         A[s].kind \notin {"create", "delete"} \/ ~A[s].done, r.kind \notin {"create", "delete"} \/ ~r.done
  PROVE  \A id : (Gone(B, id) <=> Gone(A, id)) /\ (Made(B, id) <=> Made(A, id))
BY DEF Turns, Gone, Made

\* A free slot takes a request: what it is about is on the page.
Sends1(A, P, s, r) ==
  /\ s \in Calls /\ A[s] = Editor!Free /\ AskSound(r) /\ r.kind # "free" /\ ~r.done
  /\ r.kind = "create" => \A o \in Calls : A[o].kind # "create"
  /\ r.id # None => \E i \in 1..Len(P) : P[i].id = r.id
Alone1(A, u, v, r) ==
  /\ v \in BOOLEAN
  /\ ~v => ~u /\ (r.id # None => \A o \in Calls : A[o].id # r.id)

LEMMA SentCreates ==
  ASSUME NEW A, NEW B, NEW P, NEW T, NEW u, NEW s, NEW r, PageSound(A, P, T, u),
         Sends1(A, P, s, r), Turns(A, B, s, r)
  PROVE  Creates(B, P, T)
<1>1. \A o \in Calls : A[o].done /\ A[o].kind = "create" => A[o].row.id # None
  BY AskFacts, RowId
<1>2. A[s].kind = "free"
  BY FreeAsk DEF Sends1
<1> SUFFICES ASSUME NEW c \in Calls, B[c].kind = "create"
             PROVE  /\ \A o \in Calls : B[o].kind = "create" => o = c
                    /\ B[c].done =>
                         /\ Len(T) > 0 /\ T[1] = B[c].row
                         /\ \A i \in 1..Len(P) : P[i].id # B[c].row.id
                         /\ \A o \in Calls : B[o].id # B[c].row.id
  BY DEF Creates
<1>3. CASE c = s
  BY <1>3 DEF Sends1, Turns
<1>4. CASE c # s
  <2>1. A[c].kind = "create" /\ B[c] = A[c] /\ r.kind # "create"
    BY <1>4 DEF Sends1, Turns
  <2>2. \A o \in Calls : B[o].kind = "create" => o = c
    BY <2>1 DEF Turns, PageSound, Creates
  <2>3. ASSUME B[c].done
        PROVE  /\ Len(T) > 0 /\ T[1] = B[c].row
               /\ \A i \in 1..Len(P) : P[i].id # B[c].row.id
               /\ \A o \in Calls : B[o].id # B[c].row.id
    <3>1. /\ Len(T) > 0 /\ T[1] = A[c].row
          /\ \A i \in 1..Len(P) : P[i].id # A[c].row.id
          /\ \A o \in Calls : A[o].id # A[c].row.id
      BY <2>1, <2>3 DEF PageSound, Creates
    <3>2. r.id # A[c].row.id
      BY <1>1, <2>1, <2>3, <3>1 DEF Sends1
    <3> QED
      BY <2>1, <3>1, <3>2 DEF Turns
  <2> QED
    BY <2>2, <2>3
<1> QED
  BY <1>3, <1>4

LEMMA SentApart ==
  ASSUME NEW A, NEW B, NEW P, NEW u, NEW v, NEW s, NEW r, Sends1(A, P, s, r), Alone1(A, u, v, r), ~v,
         Turns(A, B, s, r), Apart(A)
  PROVE  Apart(B)
BY FreeAsk DEF Sends1, Alone1, Turns, Apart

\* A create, save or delete is sent.
LEMMA PlainSent ==
  ASSUME NEW A, NEW B, NEW P, NEW T, NEW u, NEW v, NEW s, NEW r, PageSound(A, P, T, u),
         Sends1(A, P, s, r), Alone1(A, u, v, r), Turns(A, B, s, r), r.kind # "toggle"
  PROVE  PageSound(B, P, T, v)
<1>1. Creates(B, P, T)
  BY SentCreates
<1>2. ASSUME ~v
      PROVE  Agrees(B, P, T)
  <2>1. Agrees(A, P, T)
    BY <1>2 DEF PageSound, Alone1
  <2>2. Apart(B)
    BY <1>2, <2>1, SentApart DEF Agrees
  <2>3. \A id : (Gone(B, id) <=> Gone(A, id)) /\ (Made(B, id) <=> Made(A, id))
    BY MadeGoneStay, FreeAsk DEF Sends1
  <2>4. OnPage(B, P, T)
    BY <2>1, <2>3 DEF Agrees, OnPage
  <2>5. InTable(B, P, T)
    BY <2>1, <2>3 DEF Agrees, InTable
  <2>6. ~Ahead(A[s]) /\ A[s].kind = "free"
    BY FreeAsk DEF Sends1
  <2>7. SameRows(B, P, T)
    BY <2>1, <2>6 DEF Agrees, SameRows, Turns
  <2>8. Pending(B, P, T)
    BY <2>1 DEF Agrees, Pending, Turns, Sends1
  <2> QED
    BY <2>1, <2>2, <2>4, <2>5, <2>7, <2>8 DEF Agrees
<1> QED
  BY <1>1, <1>2 DEF PageSound, Turns

\* A toggle is sent, and the page shows the new state.
LEMMA ToggleSent ==
  ASSUME NEW A, NEW B, NEW P, NEW Q, NEW T, NEW u, NEW v, NEW s, NEW r, PageSound(A, P, T, u),
         Sends1(A, P, s, r), Alone1(A, u, v, r), Turns(A, B, s, r), r.kind = "toggle",
         NEW i \in 1..Len(P), P[i].id = r.id, r.old = P[i], Listing(Q), Rerow(P, Q, Flip(P[i]))
  PROVE  PageSound(B, Q, T, v)
<1>0. P[i] \in Editor!Row /\ Flip(P[i]).id = r.id /\ SameIds(P, Q) /\ r.id # None
  BY Rows, RerowIds, RowId DEF PageSound
<1>1. Creates(B, Q, T)
  BY <1>0, SentCreates, CreatesStay
<1>2. ASSUME ~v
      PROVE  Agrees(B, Q, T)
  <2>1. Agrees(A, P, T) /\ \A o \in Calls : A[o].id # r.id
    BY <1>0, <1>2 DEF PageSound, Alone1
  <2>2. Apart(B)
    BY <1>2, <2>1, SentApart DEF Agrees
  <2>3. \A id : (Gone(B, id) <=> Gone(A, id)) /\ (Made(B, id) <=> Made(A, id))
    BY MadeGoneStay, FreeAsk DEF Sends1
  <2>4. OnPage(B, P, T)
    BY <2>1, <2>3 DEF Agrees, OnPage
  <2>5. InTable(B, P, T)
    BY <2>1, <2>3 DEF Agrees, InTable
  <2>6. ~Ahead(A[s]) /\ A[s].kind = "free" /\ A[s].id = None
    BY FreeAsk DEF Sends1
  <2>7. \A k \in 1..Len(P) : P[k].id = r.id => k = i
    BY DEF PageSound, Listing
  <2>8. \A j \in 1..Len(T) : T[j].id = r.id => P[i] = T[j]
    BY <2>1 DEF Agrees, SameRows
  <2>9. SameRows(B, Q, T)
    <3> SUFFICES ASSUME NEW k \in 1..Len(Q), NEW j \in 1..Len(T), Q[k].id = T[j].id
                 PROVE  Q[k] = T[j] \/ \E o \in Calls : B[o].id = Q[k].id /\ Ahead(B[o])
      BY DEF SameRows
    <3>1. k \in 1..Len(P) /\ P[k].id = Q[k].id
      BY <1>0 DEF SameIds
    <3>2. CASE P[k].id = r.id
      <4>1. B[s] = r /\ Ahead(r) /\ s \in Calls
        BY DEF Turns, Ahead, Sends1
      <4> QED
        BY <3>1, <3>2, <4>1
    <3>3. CASE P[k].id # r.id
      <4>1. Q[k] = P[k]
        BY <1>0, <3>1, <3>3 DEF Rerow
      <4>2. P[k] = T[j] \/ \E o \in Calls : A[o].id = P[k].id /\ Ahead(A[o])
        BY <2>1, <3>1 DEF Agrees, SameRows
      <4>3. \A o \in Calls : Ahead(A[o]) => B[o] = A[o]
        BY <2>6 DEF Turns
      <4> QED
        BY <4>1, <4>2, <4>3
    <3> QED
      BY <3>2, <3>3
  <2>10. Pending(B, Q, T)
    <3> SUFFICES ASSUME NEW o \in Calls, NEW j \in 1..Len(T), T[j].id = B[o].id
                 PROVE  /\ B[o].kind = "toggle" /\ ~B[o].done =>
                             /\ T[j] = B[o].old
                             /\ \A k \in 1..Len(Q) : Q[k].id = B[o].id => Q[k] = Flip(T[j])
                        /\ B[o].kind = "save" /\ B[o].done => T[j] = B[o].row
      BY DEF Pending
    <3>1. CASE o = s
      <4>1. B[o] = r /\ T[j] = P[i] /\ r.kind # "save"
        BY <2>8, <3>1 DEF Turns
      <4>2. \A k \in 1..Len(Q) : Q[k].id = r.id => Q[k] = Flip(P[i])
        BY <1>0 DEF Rerow, SameIds
      <4> QED
        BY <4>1, <4>2
    <3>2. CASE o # s
      <4>1. B[o] = A[o] /\ A[o].id # r.id
        BY <2>1, <3>2 DEF Turns
      <4>2. \A k \in 1..Len(Q) : Q[k].id = A[o].id => k \in 1..Len(P) /\ Q[k] = P[k]
        BY <1>0, <4>1 DEF Rerow, SameIds
      <4>3. /\ A[o].kind = "toggle" /\ ~A[o].done =>
                 /\ T[j] = A[o].old
                 /\ \A k \in 1..Len(P) : P[k].id = A[o].id => P[k] = Flip(T[j])
            /\ A[o].kind = "save" /\ A[o].done => T[j] = A[o].row
        BY <2>1, <4>1 DEF Agrees, Pending
      <4> QED
        BY <4>1, <4>2, <4>3
    <3> QED
      BY <3>1, <3>2
  <2> QED
    BY <1>0, <2>1, <2>2, <2>4, <2>5, <2>9, <2>10, PlacesStay DEF Agrees
<1> QED
  BY <1>1, <1>2 DEF PageSound, Turns

\* A request has an answer, and nothing else changes.
LEMMA Answered ==
  ASSUME NEW A, NEW B, NEW P, NEW T, NEW u, NEW s, NEW r, PageSound(A, P, T, u), Turns(A, B, s, r),
         r.kind = A[s].kind, r.id = A[s].id, r.done = A[s].done, r.old = A[s].old, r.row = A[s].row
  PROVE  PageSound(B, P, T, u)
<1>1. \A o \in Calls : /\ B[o].kind = A[o].kind /\ B[o].id = A[o].id /\ B[o].done = A[o].done
                       /\ B[o].old = A[o].old /\ B[o].row = A[o].row /\ (Ahead(B[o]) <=> Ahead(A[o]))
  BY DEF Turns, Ahead
<1>2. Creates(B, P, T)
  BY <1>1 DEF PageSound, Creates
<1>3. ASSUME ~u
      PROVE  Agrees(B, P, T)
  <2>1. Agrees(A, P, T)
    BY <1>3 DEF PageSound
  <2>2. \A id : (Gone(B, id) <=> Gone(A, id)) /\ (Made(B, id) <=> Made(A, id))
    BY <1>1 DEF Gone, Made
  <2>3. Apart(B)
    BY <1>1, <2>1 DEF Agrees, Apart
  <2>4. OnPage(B, P, T)
    BY <2>1, <2>2 DEF Agrees, OnPage
  <2>5. InTable(B, P, T)
    BY <2>1, <2>2 DEF Agrees, InTable
  <2>6. SameRows(B, P, T)
    BY <1>1, <2>1 DEF Agrees, SameRows
  <2>7. Pending(B, P, T)
    BY <1>1, <2>1 DEF Agrees, Pending
  <2> QED
    BY <2>1, <2>3, <2>4, <2>5, <2>6, <2>7 DEF Agrees
<1> QED
  BY <1>2, <1>3 DEF PageSound, Turns

\* A slot is free again.
Frees(A, B, s) == Turns(A, B, s, Editor!Free)

LEMMA FreedApart ==
  ASSUME NEW A, NEW B, NEW s, Frees(A, B, s), Apart(A)
  PROVE  Apart(B)
BY FreeAsk DEF Frees, Turns, Apart

LEMMA FreedCreates ==
  ASSUME NEW A, NEW B, NEW P, NEW Q, NEW T, NEW u, NEW s, Frees(A, B, s), PageSound(A, P, T, u),
         \A i \in 1..Len(Q) : (A[s].kind = "create" /\ A[s].done) \/ \E k \in 1..Len(P) : Q[i].id = P[k].id
  PROVE  Creates(B, Q, T)
<1> SUFFICES ASSUME NEW c \in Calls, B[c].kind = "create"
             PROVE  /\ \A o \in Calls : B[o].kind = "create" => o = c
                    /\ B[c].done =>
                         /\ Len(T) > 0 /\ T[1] = B[c].row
                         /\ \A i \in 1..Len(Q) : Q[i].id # B[c].row.id
                         /\ \A o \in Calls : B[o].id # B[c].row.id
  BY DEF Creates
<1>1. c # s /\ B[c] = A[c] /\ A[c].kind = "create"
  BY FreeAsk DEF Frees, Turns
<1>2. \A o \in Calls : A[o].kind = "create" => o = c
  BY <1>1 DEF PageSound, Creates
<1>3. A[s].kind # "create"
  BY <1>1, <1>2 DEF Frees, Turns
<1>4. \A o \in Calls : B[o].kind = "create" => o = c
  BY <1>2, FreeAsk DEF Frees, Turns
<1>5. ASSUME B[c].done
      PROVE  /\ Len(T) > 0 /\ T[1] = B[c].row
             /\ \A i \in 1..Len(Q) : Q[i].id # B[c].row.id
             /\ \A o \in Calls : B[o].id # B[c].row.id
  <2>1. /\ Len(T) > 0 /\ T[1] = A[c].row
        /\ \A i \in 1..Len(P) : P[i].id # A[c].row.id
        /\ \A o \in Calls : A[o].id # A[c].row.id
    BY <1>1, <1>5 DEF PageSound, Creates
  <2>2. A[c].row.id # None
    BY <1>1, <1>5, AskFacts, RowId
  <2>3. \A i \in 1..Len(Q) : Q[i].id # A[c].row.id
    BY <1>3, <2>1
  <2>4. \A o \in Calls : B[o].id # A[c].row.id
    BY <2>1, <2>2, FreeAsk DEF Frees, Turns
  <2> QED
    BY <1>1, <2>1, <2>3, <2>4
<1> QED
  BY <1>4, <1>5

\* Its answer changes nothing on the page: it did nothing, or was shown before.
LEMMA Dropped ==
  ASSUME NEW A, NEW B, NEW P, NEW T, NEW u, NEW v \in BOOLEAN, NEW s, Frees(A, B, s), PageSound(A, P, T, u),
         ~v => ~u /\ (IF A[s].kind = "toggle" THEN A[s].done ELSE ~A[s].done)
  PROVE  PageSound(B, P, T, v)
<1>1. Creates(B, P, T)
  BY FreedCreates
<1>2. ASSUME ~v
      PROVE  Agrees(B, P, T)
  <2>1. Agrees(A, P, T)
    BY <1>2 DEF PageSound
  <2>2. \A id : (Gone(B, id) <=> Gone(A, id)) /\ (Made(B, id) <=> Made(A, id))
    BY <1>2, MadeGoneStay, FreeAsk DEF Frees
  <2>3. Apart(B)
    BY <2>1, FreedApart DEF Agrees
  <2>4. OnPage(B, P, T)
    BY <2>1, <2>2 DEF Agrees, OnPage
  <2>5. InTable(B, P, T)
    BY <2>1, <2>2 DEF Agrees, InTable
  <2>6. ~Ahead(A[s])
    BY <1>2 DEF Ahead
  <2>7. SameRows(B, P, T)
    BY <2>1, <2>6 DEF Agrees, SameRows, Frees, Turns
  <2>8. Pending(B, P, T)
    BY <2>1, FreeAsk DEF Agrees, Pending, Frees, Turns
  <2> QED
    BY <2>1, <2>3, <2>4, <2>5, <2>7, <2>8 DEF Agrees
<1> QED
  BY <1>1, <1>2 DEF PageSound, Frees, Turns

\* The page takes the row of a save, or takes a toggle back: it is the table's row.
LEMMA RowTaken ==
  ASSUME NEW A, NEW B, NEW P, NEW Q, NEW T, NEW u, NEW v \in BOOLEAN, NEW s, Frees(A, B, s),
         PageSound(A, P, T, u), NEW x \in Editor!Row, x.id = A[s].id, A[s].kind \in {"toggle", "save"},
         Listing(Q), Rerow(P, Q, x),
         ~v => ~u /\ \A j \in 1..Len(T) : T[j].id = x.id => T[j] = x
  PROVE  PageSound(B, Q, T, v)
<1>0. SameIds(P, Q)
  BY RerowIds
<1>1. Creates(B, Q, T)
  <2>1. \A i \in 1..Len(Q) : \E k \in 1..Len(P) : Q[i].id = P[k].id
    BY <1>0 DEF SameIds
  <2> QED
    BY <2>1, FreedCreates
<1>2. ASSUME ~v
      PROVE  Agrees(B, Q, T)
  <2>1. Agrees(A, P, T)
    BY <1>2 DEF PageSound
  <2>2. \A id : (Gone(B, id) <=> Gone(A, id)) /\ (Made(B, id) <=> Made(A, id))
    BY MadeGoneStay, FreeAsk DEF Frees
  <2>3. Apart(B)
    BY <2>1, FreedApart DEF Agrees
  <2>4. OnPage(B, P, T)
    BY <2>1, <2>2 DEF Agrees, OnPage
  <2>5. InTable(B, P, T)
    BY <2>1, <2>2 DEF Agrees, InTable
  <2>6. \A k \in 1..Len(Q) : k \in 1..Len(P) /\ Q[k].id = P[k].id /\ Q[k] = IF P[k].id = x.id THEN x ELSE P[k]
    BY <1>0 DEF SameIds, Rerow
  <2>7. \A o \in Calls : A[o].id = x.id => o = s
    <3>1. x.id # None
      BY RowId
    <3> QED
      BY <2>1, <3>1 DEF Agrees, Apart, Frees, Turns
  <2>8. SameRows(B, Q, T)
    <3> SUFFICES ASSUME NEW k \in 1..Len(Q), NEW j \in 1..Len(T), Q[k].id = T[j].id
                 PROVE  Q[k] = T[j] \/ \E o \in Calls : B[o].id = Q[k].id /\ Ahead(B[o])
      BY DEF SameRows
    <3>1. CASE P[k].id = x.id
      BY <1>2, <2>6, <3>1
    <3>2. CASE P[k].id # x.id
      <4>1. Q[k] = P[k] /\ k \in 1..Len(P)
        BY <2>6, <3>2
      <4>2. P[k] = T[j] \/ \E o \in Calls : A[o].id = P[k].id /\ Ahead(A[o])
        BY <2>1, <4>1 DEF Agrees, SameRows
      <4>3. \A o \in Calls : A[o].id = P[k].id => B[o] = A[o]
        BY <3>2 DEF Frees, Turns
      <4> QED
        BY <4>1, <4>2, <4>3
    <3> QED
      BY <3>1, <3>2
  <2>9. Pending(B, Q, T)
    <3> SUFFICES ASSUME NEW o \in Calls, NEW j \in 1..Len(T), T[j].id = B[o].id, o # s
                 PROVE  /\ B[o].kind = "toggle" /\ ~B[o].done =>
                             /\ T[j] = B[o].old
                             /\ \A k \in 1..Len(Q) : Q[k].id = B[o].id => Q[k] = Flip(T[j])
                        /\ B[o].kind = "save" /\ B[o].done => T[j] = B[o].row
      BY FreeAsk DEF Pending, Frees, Turns
    <3>1. B[o] = A[o] /\ A[o].id # x.id
      BY <2>7 DEF Frees, Turns
    <3>2. \A k \in 1..Len(Q) : Q[k].id = A[o].id => k \in 1..Len(P) /\ Q[k] = P[k]
      BY <2>6, <3>1
    <3>3. /\ A[o].kind = "toggle" /\ ~A[o].done =>
               /\ T[j] = A[o].old
               /\ \A k \in 1..Len(P) : P[k].id = A[o].id => P[k] = Flip(T[j])
          /\ A[o].kind = "save" /\ A[o].done => T[j] = A[o].row
      BY <2>1, <3>1 DEF Agrees, Pending
    <3> QED
      BY <3>1, <3>2, <3>3
  <2> QED
    BY <1>0, <2>1, <2>3, <2>4, <2>5, <2>8, <2>9, PlacesStay DEF Agrees
<1> QED
  BY <1>1, <1>2 DEF PageSound, Frees, Turns

\* A deleted row goes off the page.
LEMMA RowGone ==
  ASSUME NEW A, NEW B, NEW P, NEW Q, NEW T, NEW u, NEW v \in BOOLEAN, NEW s, Frees(A, B, s),
         PageSound(A, P, T, u), A[s].kind = "delete",
         Listing(Q), (Q = P /\ \A i \in 1..Len(P) : P[i].id # A[s].id)
                     \/ \E k \in 1..Len(P) : P[k].id = A[s].id /\ Leaves(P, Q, k),
         ~v => ~u /\ A[s].done
  PROVE  PageSound(B, Q, T, v)
<1>1. /\ \A i \in 1..Len(Q) : Q[i].id # A[s].id /\ \E k \in 1..Len(P) : Q[i] = P[k]
      /\ \A k \in 1..Len(P) : P[k].id # A[s].id => \E i \in 1..Len(Q) : Q[i] = P[k]
      /\ \A i1, i2 \in 1..Len(Q) : i1 < i2 => \E k1, k2 \in 1..Len(P) : k1 < k2 /\ Q[i1] = P[k1] /\ Q[i2] = P[k2]
  <2>1. CASE Q = P /\ \A i \in 1..Len(P) : P[i].id # A[s].id
    BY <2>1
  <2>2. ASSUME NEW k \in 1..Len(P), P[k].id = A[s].id, Leaves(P, Q, k)
        PROVE  <1>1!1 /\ <1>1!2 /\ <1>1!3
    <3>1. PICK n \in Nat : n = Len(P)
      BY Rows DEF PageSound
    <3>2. Len(Q) = n - 1 /\ k \in 1..n /\ \A i \in 1..(n - 1) : Q[i] = P[IF i < k THEN i ELSE i + 1]
      BY <2>2, <3>1 DEF Leaves
    <3>3. \A i, j \in 1..n : P[i].id = P[j].id => i = j
      BY <3>1 DEF PageSound, Listing
    <3>4. \A i \in 1..(n - 1) : (IF i < k THEN i ELSE i + 1) \in 1..n /\ (IF i < k THEN i ELSE i + 1) # k
      BY <3>1, <3>2
    <3>5. <1>1!1
      BY <2>2, <3>1, <3>2, <3>3, <3>4
    <3>6. \A j \in 1..n : j # k => /\ (IF j < k THEN j ELSE j - 1) \in 1..(n - 1)
                                   /\ Q[IF j < k THEN j ELSE j - 1] = P[j]
      BY <3>1, <3>2
    <3>7. <1>1!2
      BY <2>2, <3>1, <3>2, <3>6
    <3>8. <1>1!3
      BY <3>1, <3>2, <3>4, SMTT(20)
    <3> QED
      BY <3>5, <3>7, <3>8
  <2> QED
    BY <2>1, <2>2
<1>2. Creates(B, Q, T)
  BY <1>1, FreedCreates
<1>3. ASSUME ~v
      PROVE  Agrees(B, Q, T)
  <2>1. Agrees(A, P, T) /\ A[s].done
    BY <1>3 DEF PageSound
  <2>2. Apart(B)
    BY <2>1, FreedApart DEF Agrees
  <2>3. \A id : id # A[s].id => (Gone(B, id) <=> Gone(A, id))
    BY FreeAsk DEF Frees, Turns, Gone
  <2>4. \A id : Made(B, id) <=> Made(A, id)
    BY FreeAsk DEF Frees, Turns, Made
  <2>5. \A id : Gone(B, id) => Gone(A, id)
    BY FreeAsk DEF Frees, Turns, Gone
  <2>6. Gone(A, A[s].id)
    BY <2>1 DEF Gone, Frees, Turns
  <2>7. OnPage(B, Q, T)
    <3> SUFFICES ASSUME NEW i \in 1..Len(Q)
                 PROVE  Gone(B, Q[i].id) \/ \E j \in 1..Len(T) : T[j].id = Q[i].id
      BY DEF OnPage
    <3>1. PICK k \in 1..Len(P) : Q[i] = P[k] /\ P[k].id # A[s].id
      BY <1>1
    <3>2. Gone(A, P[k].id) \/ \E j \in 1..Len(T) : T[j].id = P[k].id
      BY <2>1 DEF Agrees, OnPage
    <3> QED
      BY <2>3, <3>1, <3>2
  <2>8. InTable(B, Q, T)
    <3> SUFFICES ASSUME NEW j \in 1..Len(T)
                 PROVE  ~Gone(B, T[j].id) /\ (Made(B, T[j].id) \/ \E i \in 1..Len(Q) : Q[i].id = T[j].id)
      BY DEF InTable
    <3>1. ~Gone(A, T[j].id) /\ (Made(A, T[j].id) \/ \E i \in 1..Len(P) : P[i].id = T[j].id)
      BY <2>1 DEF Agrees, InTable
    <3>2. T[j].id # A[s].id
      BY <2>6, <3>1
    <3>3. ASSUME NEW k \in 1..Len(P), P[k].id = T[j].id
          PROVE  \E i \in 1..Len(Q) : Q[i].id = T[j].id
      <4>1. \E i \in 1..Len(Q) : Q[i] = P[k]
        BY <1>1, <3>2, <3>3
      <4> QED
        BY <3>3, <4>1
    <3> QED
      BY <2>4, <2>5, <3>1, <3>3
  <2>9. Ordered(Q, T)
    <3> SUFFICES ASSUME NEW i1 \in 1..Len(Q), NEW i2 \in 1..Len(Q), NEW j1 \in 1..Len(T), NEW j2 \in 1..Len(T),
                        Q[i1].id = T[j1].id, Q[i2].id = T[j2].id, i1 < i2
                 PROVE  j1 < j2
      BY DEF Ordered
    <3>1. PICK k1 \in 1..Len(P), k2 \in 1..Len(P) : k1 < k2 /\ Q[i1] = P[k1] /\ Q[i2] = P[k2]
      BY <1>1
    <3> QED
      BY <2>1, <3>1 DEF Agrees, Ordered
  <2>10. SameRows(B, Q, T)
    <3> SUFFICES ASSUME NEW k \in 1..Len(Q), NEW j \in 1..Len(T), Q[k].id = T[j].id
                 PROVE  Q[k] = T[j] \/ \E o \in Calls : B[o].id = Q[k].id /\ Ahead(B[o])
      BY DEF SameRows
    <3>1. PICK i \in 1..Len(P) : Q[k] = P[i] /\ P[i].id # A[s].id
      BY <1>1
    <3>2. P[i] = T[j] \/ \E o \in Calls : A[o].id = P[i].id /\ Ahead(A[o])
      BY <2>1, <3>1 DEF Agrees, SameRows
    <3>3. \A o \in Calls : A[o].id = P[i].id => B[o] = A[o]
      BY <3>1 DEF Frees, Turns
    <3> QED
      BY <3>1, <3>2, <3>3
  <2>11. Pending(B, Q, T)
    <3> SUFFICES ASSUME NEW o \in Calls, NEW j \in 1..Len(T), T[j].id = B[o].id, o # s
                 PROVE  /\ B[o].kind = "toggle" /\ ~B[o].done =>
                             /\ T[j] = B[o].old
                             /\ \A k \in 1..Len(Q) : Q[k].id = B[o].id => Q[k] = Flip(T[j])
                        /\ B[o].kind = "save" /\ B[o].done => T[j] = B[o].row
      BY FreeAsk DEF Pending, Frees, Turns
    <3>1. B[o] = A[o]
      BY DEF Frees, Turns
    <3>2. /\ A[o].kind = "toggle" /\ ~A[o].done =>
               /\ T[j] = A[o].old
               /\ \A k \in 1..Len(P) : P[k].id = A[o].id => P[k] = Flip(T[j])
          /\ A[o].kind = "save" /\ A[o].done => T[j] = A[o].row
      BY <2>1, <3>1 DEF Agrees, Pending
    <3> QED
      BY <1>1, <3>1, <3>2
  <2> QED
    BY <2>2, <2>7, <2>8, <2>9, <2>10, <2>11 DEF Agrees
<1> QED
  BY <1>2, <1>3 DEF PageSound, Frees, Turns

\* The new row comes to the head of the page.
LEMMA RowNew ==
  ASSUME NEW A, NEW B, NEW P, NEW Q, NEW T, NEW u, NEW s, Frees(A, B, s),
         PageSound(A, P, T, u), A[s].kind = "create", A[s].done, NEW x, x = A[s].row,
         Listing(Q), Len(Q) = Len(P) + 1, Q[1] = x, \A i \in 2..Len(Q) : Q[i] = P[i - 1] /\ i - 1 \in 1..Len(P)
  PROVE  PageSound(B, Q, T, u)
<1>1. Creates(B, Q, T)
  BY FreedCreates
<1>2. ASSUME ~u
      PROVE  Agrees(B, Q, T)
  <2>1. Agrees(A, P, T)
    BY <1>2 DEF PageSound
  <2>2. PICK m \in Nat, n \in Nat : m = Len(P) /\ n = Len(T)
    BY Rows DEF PageSound
  <2>3. /\ Len(Q) = m + 1 /\ 1 \in 1..(m + 1) /\ \A i \in 1..(m + 1) : i = 1 \/ (i - 1 \in 1..m /\ Q[i] = P[i - 1])
        /\ \A k \in 1..m : k + 1 \in 1..(m + 1) /\ Q[k + 1] = P[k]
    BY <2>2
  <2>4. n > 0 /\ 1 \in 1..n /\ T[1] = x /\ (\A i \in 1..m : P[i].id # x.id) /\ \A o \in Calls : A[o].id # x.id
    BY <2>2 DEF PageSound, Creates, Frees, Turns
  <2>5. \A i, j \in 1..n : T[i].id = T[j].id => i = j
    BY <2>2 DEF PageSound, Listing
  <2>6. Apart(B)
    BY <2>1, FreedApart DEF Agrees
  <2>7. \A id : /\ Gone(B, id) <=> Gone(A, id)
                /\ Made(A, id) <=> id = x.id
    BY FreeAsk DEF Frees, Turns, Gone, Made, PageSound, Creates
  <2>8. OnPage(B, Q, T)
    <3> SUFFICES ASSUME NEW i \in 1..(m + 1)
                 PROVE  Gone(B, Q[i].id) \/ \E j \in 1..n : T[j].id = Q[i].id
      BY <2>2, <2>3 DEF OnPage
    <3>1. CASE i = 1
      BY <2>4, <3>1
    <3>2. CASE i - 1 \in 1..m /\ Q[i] = P[i - 1]
      BY <2>1, <2>2, <2>7, <3>2 DEF Agrees, OnPage
    <3> QED
      BY <2>3, <3>1, <3>2
  <2>9. InTable(B, Q, T)
    <3> SUFFICES ASSUME NEW j \in 1..n
                 PROVE  ~Gone(B, T[j].id) /\ \E i \in 1..(m + 1) : Q[i].id = T[j].id
      BY <2>2, <2>3 DEF InTable
    <3>1. ~Gone(A, T[j].id) /\ (Made(A, T[j].id) \/ \E i \in 1..m : P[i].id = T[j].id)
      BY <2>1, <2>2 DEF Agrees, InTable
    <3>2. CASE T[j].id = x.id
      BY <2>3, <2>7, <3>1, <3>2
    <3>3. CASE T[j].id # x.id
      <4>1. PICK i \in 1..m : P[i].id = T[j].id
        BY <2>7, <3>1, <3>3
      <4>2. i + 1 \in 1..(m + 1) /\ Q[i + 1].id = T[j].id
        BY <2>3, <4>1
      <4> QED
        BY <2>7, <3>1, <4>2
    <3> QED
      BY <3>2, <3>3
  <2>10. Ordered(Q, T)
    <3> SUFFICES ASSUME NEW i1 \in 1..(m + 1), NEW i2 \in 1..(m + 1), NEW j1 \in 1..n, NEW j2 \in 1..n,
                        Q[i1].id = T[j1].id, Q[i2].id = T[j2].id, i1 < i2
                 PROVE  j1 < j2
      BY <2>2, <2>3 DEF Ordered
    <3>1. i2 # 1 /\ i2 - 1 \in 1..m /\ Q[i2] = P[i2 - 1]
      BY <2>3
    <3>2. CASE i1 = 1
      <4>1. j1 = 1 /\ j2 # 1
        BY <2>4, <2>5, <3>1, <3>2
      <4> QED
        BY <4>1
    <3>3. CASE i1 # 1
      <4>1. i1 - 1 \in 1..m /\ Q[i1] = P[i1 - 1] /\ i1 - 1 < i2 - 1
        BY <2>3, <3>1, <3>3
      <4> QED
        BY <2>1, <2>2, <3>1, <4>1 DEF Agrees, Ordered
    <3> QED
      BY <3>2, <3>3
  <2>11. SameRows(B, Q, T)
    <3> SUFFICES ASSUME NEW k \in 1..(m + 1), NEW j \in 1..n, Q[k].id = T[j].id
                 PROVE  Q[k] = T[j] \/ \E o \in Calls : B[o].id = Q[k].id /\ Ahead(B[o])
      BY <2>2, <2>3 DEF SameRows
    <3>1. CASE k = 1
      <4>1. j = 1
        BY <2>4, <2>5, <3>1
      <4> QED
        BY <2>4, <3>1, <4>1
    <3>2. CASE k - 1 \in 1..m /\ Q[k] = P[k - 1]
      <4>1. Q[k] = T[j] \/ \E o \in Calls : A[o].id = Q[k].id /\ Ahead(A[o])
        BY <2>1, <2>2, <3>2 DEF Agrees, SameRows
      <4>2. ~Ahead(A[s])
        BY DEF Ahead
      <4>3. \A o \in Calls : Ahead(A[o]) => B[o] = A[o]
        BY <4>2 DEF Frees, Turns
      <4> QED
        BY <4>1, <4>3
    <3> QED
      BY <2>3, <3>1, <3>2
  <2>12. Pending(B, Q, T)
    <3> SUFFICES ASSUME NEW o \in Calls, NEW j \in 1..n, T[j].id = B[o].id, o # s
                 PROVE  /\ B[o].kind = "toggle" /\ ~B[o].done =>
                             /\ T[j] = B[o].old
                             /\ \A k \in 1..(m + 1) : Q[k].id = B[o].id => Q[k] = Flip(T[j])
                        /\ B[o].kind = "save" /\ B[o].done => T[j] = B[o].row
      BY <2>2, <2>3, FreeAsk DEF Pending, Frees, Turns
    <3>1. B[o] = A[o] /\ A[o].id # x.id
      BY <2>4 DEF Frees, Turns
    <3>2. \A k \in 1..(m + 1) : Q[k].id = A[o].id => k - 1 \in 1..m /\ Q[k] = P[k - 1]
      BY <2>3, <3>1
    <3>3. /\ A[o].kind = "toggle" /\ ~A[o].done =>
               /\ T[j] = A[o].old
               /\ \A k \in 1..m : P[k].id = A[o].id => P[k] = Flip(T[j])
          /\ A[o].kind = "save" /\ A[o].done => T[j] = A[o].row
      BY <2>1, <2>2, <3>1 DEF Agrees, Pending
    <3> QED
      BY <3>1, <3>2, <3>3
  <2> QED
    BY <2>6, <2>8, <2>9, <2>10, <2>11, <2>12 DEF Agrees
<1> QED
  BY <1>1, <1>2 DEF PageSound, Frees, Turns

\* What a served request keeps of the request.
Done1(A, s, r) == /\ ~A[s].done /\ r.done /\ r.kind = A[s].kind /\ r.id = A[s].id /\ r.old = A[s].old

LEMMA DoneApart ==
  ASSUME NEW A, NEW B, NEW s, NEW r, Turns(A, B, s, r), Done1(A, s, r), Apart(A)
  PROVE  Apart(B)
BY DEF Turns, Done1, Apart

\* A new row comes to the head of the table.
LEMMA TableNew ==
  ASSUME NEW A, NEW B, NEW P, NEW T, NEW U, NEW u, NEW s, NEW r, PageSound(A, P, T, u),
         Turns(A, B, s, r), Done1(A, s, r), r.kind = "create", NEW x \in Editor!Row, x = r.row,
         \A i \in 1..Len(P) : P[i].id # x.id, \A o \in Calls : A[o].id # x.id,
         Listing(U), Len(U) = Len(T) + 1, U[1] = x, \A i \in 2..Len(U) : U[i] = T[i - 1] /\ i - 1 \in 1..Len(T)
  PROVE  PageSound(B, P, U, u)
<1>1. PICK m \in Nat, n \in Nat : m = Len(P) /\ n = Len(T)
  BY Rows DEF PageSound
<1>2. /\ Len(U) = n + 1 /\ 1 \in 1..(n + 1) /\ \A i \in 1..(n + 1) : i = 1 \/ (i - 1 \in 1..n /\ U[i] = T[i - 1])
      /\ \A k \in 1..n : k + 1 \in 1..(n + 1) /\ U[k + 1] = T[k]
  BY <1>1
<1>3. \A o \in Calls : A[o].kind = "create" => o = s
  BY DEF PageSound, Creates, Turns, Done1
<1>4. \A o \in Calls : B[o].id # x.id
  BY DEF Turns, Done1
<1>5. Creates(B, P, U)
  BY <1>1, <1>2, <1>3, <1>4 DEF Creates, Turns, Done1
<1>6. ASSUME ~u
      PROVE  Agrees(B, P, U)
  <2>1. Agrees(A, P, T)
    BY <1>6 DEF PageSound
  <2>2. Apart(B)
    BY <2>1, DoneApart DEF Agrees
  <2>3. \A id : /\ Gone(B, id) <=> Gone(A, id)
                /\ ~Made(A, id) /\ (Made(B, id) <=> id = x.id)
    <3>1. \A id : Gone(B, id) <=> Gone(A, id)
      BY DEF Turns, Gone, Done1
    <3>2. \A id : ~Made(A, id)
      BY <1>3 DEF Made, Done1
    <3>3. \A o \in Calls : B[o].kind = "create" => o = s
      BY <1>3 DEF Turns
    <3>4. s \in Calls /\ B[s] = r
      BY DEF Turns
    <3>5. \A id : Made(B, id) <=> id = x.id
      BY <3>3, <3>4 DEF Made, Done1
    <3> QED
      BY <3>1, <3>2, <3>5
  <2>4. ~Gone(B, x.id)
    BY <1>4 DEF Gone
  <2>5. OnPage(B, P, U)
    <3> SUFFICES ASSUME NEW i \in 1..m
                 PROVE  Gone(B, P[i].id) \/ \E j \in 1..(n + 1) : U[j].id = P[i].id
      BY <1>1, <1>2 DEF OnPage
    <3>1. Gone(A, P[i].id) \/ \E j \in 1..n : T[j].id = P[i].id
      BY <1>1, <2>1 DEF Agrees, OnPage
    <3>2. ASSUME NEW j \in 1..n, T[j].id = P[i].id
          PROVE  j + 1 \in 1..(n + 1) /\ U[j + 1].id = P[i].id
      BY <1>2, <3>2
    <3> QED
      BY <2>3, <3>1, <3>2
  <2>6. InTable(B, P, U)
    <3> SUFFICES ASSUME NEW j \in 1..(n + 1)
                 PROVE  ~Gone(B, U[j].id) /\ (Made(B, U[j].id) \/ \E i \in 1..m : P[i].id = U[j].id)
      BY <1>1, <1>2 DEF InTable
    <3>1. CASE j = 1
      BY <2>3, <2>4, <3>1
    <3>2. CASE j - 1 \in 1..n /\ U[j] = T[j - 1]
      BY <1>1, <2>1, <2>3, <3>2 DEF Agrees, InTable
    <3> QED
      BY <1>2, <3>1, <3>2
  <2>7. \A i \in 1..m, j \in 1..(n + 1) : P[i].id = U[j].id => j - 1 \in 1..n /\ U[j] = T[j - 1]
    BY <1>1, <1>2
  <2>8. Ordered(P, U)
    <3> SUFFICES ASSUME NEW i1 \in 1..m, NEW i2 \in 1..m, NEW j1 \in 1..(n + 1), NEW j2 \in 1..(n + 1),
                        P[i1].id = U[j1].id, P[i2].id = U[j2].id, i1 < i2
                 PROVE  j1 < j2
      BY <1>1, <1>2 DEF Ordered
    <3>1. /\ j1 - 1 \in 1..n /\ P[i1].id = T[j1 - 1].id
          /\ j2 - 1 \in 1..n /\ P[i2].id = T[j2 - 1].id
      BY <2>7
    <3>2. j1 - 1 < j2 - 1
      BY <1>1, <2>1, <3>1 DEF Agrees, Ordered
    <3> QED
      BY <3>2
  <2>9. SameRows(B, P, U)
    <3> SUFFICES ASSUME NEW i \in 1..m, NEW j \in 1..(n + 1), P[i].id = U[j].id
                 PROVE  P[i] = U[j] \/ \E o \in Calls : B[o].id = P[i].id /\ Ahead(B[o])
      BY <1>1, <1>2 DEF SameRows
    <3>1. j - 1 \in 1..n /\ U[j] = T[j - 1]
      BY <2>7
    <3>2. P[i] = U[j] \/ \E o \in Calls : A[o].id = P[i].id /\ Ahead(A[o])
      BY <1>1, <2>1, <3>1 DEF Agrees, SameRows
    <3>3. \A o \in Calls : Ahead(A[o]) => B[o] = A[o]
      BY DEF Ahead, Turns, Done1
    <3> QED
      BY <3>2, <3>3
  <2>10. Pending(B, P, U)
    <3> SUFFICES ASSUME NEW o \in Calls, NEW j \in 1..(n + 1), U[j].id = B[o].id, o # s
                 PROVE  /\ B[o].kind = "toggle" /\ ~B[o].done =>
                             /\ U[j] = B[o].old
                             /\ \A i \in 1..m : P[i].id = B[o].id => P[i] = Flip(U[j])
                        /\ B[o].kind = "save" /\ B[o].done => U[j] = B[o].row
      BY <1>1, <1>2 DEF Pending, Turns
    <3>1. B[o] = A[o] /\ j - 1 \in 1..n /\ U[j] = T[j - 1]
      BY <1>2, <1>4 DEF Turns
    <3> QED
      BY <1>1, <2>1, <3>1 DEF Agrees, Pending
  <2> QED
    BY <2>2, <2>5, <2>6, <2>8, <2>9, <2>10 DEF Agrees
<1> QED
  BY <1>5, <1>6 DEF PageSound, Turns

\* A row of the table changes.
LEMMA TableChanged ==
  ASSUME NEW A, NEW B, NEW P, NEW T, NEW U, NEW u, NEW s, NEW r, PageSound(A, P, T, u),
         Turns(A, B, s, r), Done1(A, s, r), r.kind \in {"toggle", "save"}, NEW x \in Editor!Row, x.id = r.id,
         x = r.row, NEW k \in 1..Len(T), T[k].id = x.id, r.kind = "toggle" /\ ~u => x = Flip(T[k]),
         Listing(U), Rerow(T, U, x)
  PROVE  PageSound(B, P, U, u)
<1>1. Len(U) = Len(T) /\ \A j \in 1..Len(T) : U[j].id = T[j].id /\ U[j] = IF T[j].id = x.id THEN x ELSE T[j]
  BY DEF Rerow
<1>2. Creates(B, P, U)
  <2> SUFFICES ASSUME NEW c \in Calls, B[c].kind = "create"
               PROVE  /\ \A o \in Calls : B[o].kind = "create" => o = c
                      /\ B[c].done =>
                           /\ Len(U) > 0 /\ U[1] = B[c].row
                           /\ \A i \in 1..Len(P) : P[i].id # B[c].row.id
                           /\ \A o \in Calls : B[o].id # B[c].row.id
    BY DEF Creates
  <2>1. c # s /\ B[c] = A[c]
    BY DEF Turns
  <2>2. \A o \in Calls : B[o].kind = A[o].kind /\ B[o].id = A[o].id
    BY DEF Turns, Done1
  <2>3. ASSUME B[c].done
        PROVE  Len(U) > 0 /\ U[1] = B[c].row
    <3>1. Len(T) > 0 /\ T[1] = A[c].row /\ A[s].id # A[c].row.id
      BY <2>1, <2>3 DEF PageSound, Creates, Turns
    <3>2. 1 \in 1..Len(T) /\ T[1].id # x.id
      BY <3>1, Rows DEF Done1, PageSound
    <3> QED
      BY <1>1, <2>1, <3>1, <3>2
  <2> QED
    BY <2>1, <2>2, <2>3 DEF PageSound, Creates
<1>3. ASSUME ~u
      PROVE  Agrees(B, P, U)
  <2>1. Agrees(A, P, T)
    BY <1>3 DEF PageSound
  <2>2. Apart(B)
    BY <2>1, DoneApart DEF Agrees
  <2>3. \A id : (Gone(B, id) <=> Gone(A, id)) /\ (Made(B, id) <=> Made(A, id))
    BY MadeGoneStay DEF Done1
  <2>4. OnPage(B, P, U)
    BY <1>1, <2>1, <2>3 DEF Agrees, OnPage
  <2>5. InTable(B, P, U)
    BY <1>1, <2>1, <2>3 DEF Agrees, InTable
  <2>6. Ordered(P, U)
    BY <1>1, <2>1 DEF Agrees, Ordered
  <2>7. \A o \in Calls : A[o].id = x.id => o = s
    <3>1. x.id # None /\ A[s].id = x.id /\ s \in Calls
      BY RowId DEF Done1, Turns
    <3> QED
      BY <2>1, <3>1 DEF Agrees, Apart
  <2>8. SameRows(B, P, U)
    <3> SUFFICES ASSUME NEW i \in 1..Len(P), NEW j \in 1..Len(T), P[i].id = U[j].id
                 PROVE  P[i] = U[j] \/ \E o \in Calls : B[o].id = P[i].id /\ Ahead(B[o])
      BY <1>1 DEF SameRows
    <3>1. CASE T[j].id = x.id
      <4>1. U[j] = x /\ P[i].id = r.id
        BY <1>1, <3>1
      <4>2. CASE r.kind = "save"
        BY <4>1, <4>2 DEF Ahead, Turns, Done1
      <4>3. CASE r.kind = "toggle"
        <5>1. j = k
          BY <3>1 DEF PageSound, Listing
        <5>2. s \in Calls /\ A[s].kind = "toggle" /\ ~A[s].done /\ A[s].id = r.id /\ T[k].id = A[s].id
          BY <4>3 DEF Turns, Done1
        <5>3. P[i] = Flip(T[k])
          BY <2>1, <4>1, <5>2 DEF Agrees, Pending
        <5> QED
          BY <1>3, <4>1, <4>3, <5>3
      <4> QED
        BY <4>2, <4>3
    <3>2. CASE T[j].id # x.id
      <4>1. U[j] = T[j] /\ P[i].id = T[j].id
        BY <1>1, <3>2
      <4>2. P[i] = T[j] \/ \E o \in Calls : A[o].id = P[i].id /\ Ahead(A[o])
        BY <2>1, <4>1 DEF Agrees, SameRows
      <4>3. \A o \in Calls : A[o].id = P[i].id => B[o] = A[o]
        BY <3>2, <4>1 DEF Turns, Done1
      <4> QED
        BY <4>1, <4>2, <4>3
    <3> QED
      BY <3>1, <3>2
  <2>9. Pending(B, P, U)
    <3> SUFFICES ASSUME NEW o \in Calls, NEW j \in 1..Len(T), U[j].id = B[o].id
                 PROVE  /\ B[o].kind = "toggle" /\ ~B[o].done =>
                             /\ U[j] = B[o].old
                             /\ \A i \in 1..Len(P) : P[i].id = B[o].id => P[i] = Flip(U[j])
                        /\ B[o].kind = "save" /\ B[o].done => U[j] = B[o].row
      BY <1>1 DEF Pending
    <3>1. CASE o = s
      BY <1>1, <3>1 DEF Turns, Done1
    <3>2. CASE o # s
      <4>1. B[o] = A[o] /\ A[o].id # x.id /\ U[j] = T[j]
        BY <1>1, <2>7, <3>2 DEF Turns
      <4> QED
        BY <2>1, <4>1 DEF Agrees, Pending
    <3> QED
      BY <3>1, <3>2
  <2> QED
    BY <2>2, <2>4, <2>5, <2>6, <2>8, <2>9 DEF Agrees
<1> QED
  BY <1>2, <1>3 DEF PageSound, Turns

\* A row leaves the table.
LEMMA TableLess ==
  ASSUME NEW A, NEW B, NEW P, NEW T, NEW U, NEW u, NEW s, NEW r, PageSound(A, P, T, u),
         Turns(A, B, s, r), Done1(A, s, r), r.kind = "delete", Listing(U),
         (U = T /\ \A j \in 1..Len(T) : T[j].id # r.id) \/ \E k \in 1..Len(T) : T[k].id = r.id /\ Leaves(T, U, k)
  PROVE  PageSound(B, P, U, u)
<1>1. /\ \A j \in 1..Len(U) : U[j].id # r.id /\ \E h \in 1..Len(T) : U[j] = T[h]
      /\ \A h \in 1..Len(T) : T[h].id # r.id => \E j \in 1..Len(U) : U[j] = T[h]
      /\ \A j1, j2 \in 1..Len(U), h1, h2 \in 1..Len(T) : U[j1].id = T[h1].id /\ U[j2].id = T[h2].id /\ h1 < h2 => j1 < j2
      /\ Len(T) > 0 /\ T[1].id # r.id => Len(U) > 0 /\ U[1] = T[1]
  <2>0. PICK n \in Nat : n = Len(T)
    BY Rows DEF PageSound
  <2>1. \A i, j \in 1..n : T[i].id = T[j].id => i = j
    BY <2>0 DEF PageSound, Listing
  <2>2. CASE U = T /\ \A j \in 1..Len(T) : T[j].id # r.id
    <3>1. \A j1, j2 \in 1..Len(U), h1, h2 \in 1..Len(T) : U[j1].id = T[h1].id /\ U[j2].id = T[h2].id /\ h1 < h2 => j1 < j2
      BY <2>0, <2>1, <2>2
    <3> QED
      BY <2>2, <3>1
  <2>3. ASSUME NEW k \in 1..Len(T), T[k].id = r.id, Leaves(T, U, k)
        PROVE  <1>1!1 /\ <1>1!2 /\ <1>1!3 /\ <1>1!4
    <3>2. Len(U) = n - 1 /\ k \in 1..n /\ \A i \in 1..(n - 1) : U[i] = T[IF i < k THEN i ELSE i + 1]
      BY <2>0, <2>3 DEF Leaves
    <3>4. \A i \in 1..(n - 1) : (IF i < k THEN i ELSE i + 1) \in 1..n /\ (IF i < k THEN i ELSE i + 1) # k
      BY <3>2
    <3>5. <1>1!1
      BY <2>0, <2>1, <2>3, <3>2, <3>4
    <3>6. \A j \in 1..n : j # k => /\ (IF j < k THEN j ELSE j - 1) \in 1..(n - 1)
                                   /\ U[IF j < k THEN j ELSE j - 1] = T[j]
      <4> SUFFICES ASSUME NEW j \in 1..n, j # k
                   PROVE  /\ (IF j < k THEN j ELSE j - 1) \in 1..(n - 1)
                          /\ U[IF j < k THEN j ELSE j - 1] = T[j]
        OBVIOUS
      <4>1. PICK i : i = (IF j < k THEN j ELSE j - 1)
        OBVIOUS
      <4>2. i \in 1..(n - 1) /\ (IF i < k THEN i ELSE i + 1) = j
        BY <2>0, <3>2, <4>1
      <4> QED
        BY <3>2, <4>1, <4>2
    <3>7. <1>1!2
      BY <2>0, <2>3, <3>2, <3>6
    <3>8. ASSUME NEW j1 \in 1..(n - 1), NEW j2 \in 1..(n - 1), NEW h1 \in 1..n, NEW h2 \in 1..n,
                 U[j1].id = T[h1].id, U[j2].id = T[h2].id, h1 < h2
          PROVE  j1 < j2
      <4>1. h1 = (IF j1 < k THEN j1 ELSE j1 + 1) /\ h2 = (IF j2 < k THEN j2 ELSE j2 + 1)
        BY <2>1, <3>2, <3>4, <3>8, SMTT(20)
      <4> QED
        BY <3>2, <3>8, <4>1
    <3>9. <1>1!4
      BY <2>0, <2>3, <3>2, <3>6
    <3> QED
      BY <2>0, <3>2, <3>5, <3>7, <3>8, <3>9
  <2> QED
    BY <2>2, <2>3
<1>2. Creates(B, P, U)
  <2> SUFFICES ASSUME NEW c \in Calls, B[c].kind = "create"
               PROVE  /\ \A o \in Calls : B[o].kind = "create" => o = c
                      /\ B[c].done =>
                           /\ Len(U) > 0 /\ U[1] = B[c].row
                           /\ \A i \in 1..Len(P) : P[i].id # B[c].row.id
                           /\ \A o \in Calls : B[o].id # B[c].row.id
    BY DEF Creates
  <2>1. c # s /\ B[c] = A[c]
    BY DEF Turns
  <2>2. \A o \in Calls : B[o].kind = A[o].kind /\ B[o].id = A[o].id
    BY DEF Turns, Done1
  <2>3. ASSUME B[c].done
        PROVE  Len(U) > 0 /\ U[1] = B[c].row
    <3>1. Len(T) > 0 /\ T[1] = A[c].row /\ A[s].id # A[c].row.id
      BY <2>1, <2>3 DEF PageSound, Creates, Turns
    <3> QED
      BY <1>1, <2>1, <3>1 DEF Done1
  <2> QED
    BY <2>1, <2>2, <2>3 DEF PageSound, Creates
<1>3. ASSUME ~u
      PROVE  Agrees(B, P, U)
  <2>1. Agrees(A, P, T)
    BY <1>3 DEF PageSound
  <2>2. Apart(B)
    BY <2>1, DoneApart DEF Agrees
  <2>3. \A id : /\ id # r.id => (Gone(B, id) <=> Gone(A, id))
                /\ Made(B, id) <=> Made(A, id)
    BY DEF Turns, Gone, Made, Done1
  <2>4. Gone(B, r.id)
    BY DEF Turns, Gone, Done1
  <2>5. OnPage(B, P, U)
    <3> SUFFICES ASSUME NEW i \in 1..Len(P), P[i].id # r.id
                 PROVE  Gone(B, P[i].id) \/ \E j \in 1..Len(U) : U[j].id = P[i].id
      BY <2>4 DEF OnPage
    <3>1. Gone(A, P[i].id) \/ \E h \in 1..Len(T) : T[h].id = P[i].id
      BY <2>1 DEF Agrees, OnPage
    <3>2. ASSUME NEW h \in 1..Len(T), T[h].id = P[i].id
          PROVE  \E j \in 1..Len(U) : U[j].id = P[i].id
      <4>1. \E j \in 1..Len(U) : U[j] = T[h]
        BY <1>1, <3>2
      <4> QED
        BY <3>2, <4>1
    <3> QED
      BY <2>3, <3>1, <3>2
  <2>6. InTable(B, P, U)
    <3> SUFFICES ASSUME NEW j \in 1..Len(U)
                 PROVE  ~Gone(B, U[j].id) /\ (Made(B, U[j].id) \/ \E i \in 1..Len(P) : P[i].id = U[j].id)
      BY DEF InTable
    <3>0. U[j].id # r.id /\ \E h \in 1..Len(T) : U[j] = T[h]
      BY <1>1
    <3>1. PICK h \in 1..Len(T) : U[j] = T[h] /\ T[h].id # r.id
      BY <3>0
    <3>2. ~Gone(A, T[h].id) /\ (Made(A, T[h].id) \/ \E i \in 1..Len(P) : P[i].id = T[h].id)
      BY <2>1 DEF Agrees, InTable
    <3> QED
      BY <2>3, <3>1, <3>2
  <2>7. Ordered(P, U)
    <3> SUFFICES ASSUME NEW i1 \in 1..Len(P), NEW i2 \in 1..Len(P), NEW j1 \in 1..Len(U), NEW j2 \in 1..Len(U),
                        P[i1].id = U[j1].id, P[i2].id = U[j2].id, i1 < i2
                 PROVE  j1 < j2
      BY DEF Ordered
    <3>1. PICK h1 \in 1..Len(T) : U[j1] = T[h1]
      BY <1>1
    <3>2. PICK h2 \in 1..Len(T) : U[j2] = T[h2]
      BY <1>1
    <3>3. h1 < h2
      BY <2>1, <3>1, <3>2 DEF Agrees, Ordered
    <3> QED
      BY <1>1, <3>1, <3>2, <3>3
  <2>8. SameRows(B, P, U)
    <3> SUFFICES ASSUME NEW i \in 1..Len(P), NEW j \in 1..Len(U), P[i].id = U[j].id
                 PROVE  P[i] = U[j] \/ \E o \in Calls : B[o].id = P[i].id /\ Ahead(B[o])
      BY DEF SameRows
    <3>0. U[j].id # r.id /\ \E h \in 1..Len(T) : U[j] = T[h]
      BY <1>1
    <3>1. PICK h \in 1..Len(T) : U[j] = T[h] /\ T[h].id # r.id
      BY <3>0
    <3>2. P[i] = T[h] \/ \E o \in Calls : A[o].id = P[i].id /\ Ahead(A[o])
      BY <2>1, <3>1 DEF Agrees, SameRows
    <3>3. \A o \in Calls : A[o].id = P[i].id => B[o] = A[o]
      BY <3>1 DEF Turns, Done1
    <3> QED
      BY <3>1, <3>2, <3>3
  <2>9. Pending(B, P, U)
    <3> SUFFICES ASSUME NEW o \in Calls, NEW j \in 1..Len(U), U[j].id = B[o].id, o # s
                 PROVE  /\ B[o].kind = "toggle" /\ ~B[o].done =>
                             /\ U[j] = B[o].old
                             /\ \A i \in 1..Len(P) : P[i].id = B[o].id => P[i] = Flip(U[j])
                        /\ B[o].kind = "save" /\ B[o].done => U[j] = B[o].row
      BY DEF Pending, Turns
    <3>1. B[o] = A[o]
      BY DEF Turns
    <3>2. PICK h \in 1..Len(T) : U[j] = T[h]
      BY <1>1
    <3> QED
      BY <2>1, <3>1, <3>2 DEF Agrees, Pending
  <2> QED
    BY <2>2, <2>5, <2>6, <2>7, <2>8, <2>9 DEF Agrees
<1> QED
  BY <1>2, <1>3 DEF PageSound, Turns

\* What is pushed: the text after each of the policies.
Step1(T, g, i) == IF i = 0 THEN <<>> ELSE IF T[i].active THEN g[i - 1] \o T[i].rules ELSE g[i - 1]
IsText(T, g, n) == g = [i \in 0..n |-> Step1(T, g, i)]

LEMMA TextExists == ASSUME NEW T PROVE \A n \in Nat : \E g : IsText(T, g, n)
<1> DEFINE Bad == {n \in Nat : ~\E g : IsText(T, g, n)}
<1> SUFFICES ASSUME Bad # {}
             PROVE  FALSE
  OBVIOUS
<1>1. PICK n \in Bad : \A x \in Bad : ~(<<x, n>> \in OpToRel(<, Nat))
  BY NatLessThanWellFounded, WFMin
<1>2. n \in Nat /\ (~\E g : IsText(T, g, n)) /\ \A x \in Nat : x < n => \E g : IsText(T, g, x)
  BY <1>1 DEF OpToRel
<1>3. CASE n = 0
  <2>1. PICK g : g = [i \in 0..n |-> <<>>]
    OBVIOUS
  <2>2. \A i \in 0..n : Step1(T, g, i) = <<>>
    BY <1>3 DEF Step1
  <2> QED
    BY <1>2, <2>1, <2>2 DEF IsText
<1>4. CASE n # 0
  <2>1. n - 1 \in Nat /\ n - 1 < n
    BY <1>2, <1>4
  <2>2. PICK g : IsText(T, g, n - 1)
    BY <1>2, <2>1
  <2>3. PICK h : h = [i \in 0..n |-> IF i = n THEN Step1(T, g, n) ELSE g[i]]
    OBVIOUS
  <2>4. \A i \in 0..n : h[i] = Step1(T, h, i)
    <3> SUFFICES ASSUME NEW i \in 0..n
                 PROVE  h[i] = Step1(T, h, i)
      OBVIOUS
    <3>1. i # 0 => i - 1 \in 0..(n - 1) /\ i - 1 \in 0..n /\ i - 1 # n
      BY <1>2
    <3>2. i # 0 => h[i - 1] = g[i - 1]
      BY <2>3, <3>1
    <3>3. Step1(T, h, i) = Step1(T, g, i)
      BY <3>2 DEF Step1
    <3>4. i # n => i \in 0..(n - 1)
      BY <1>2
    <3>5. i # n => g[i] = Step1(T, g, i)
      BY <2>2, <3>4 DEF IsText
    <3> QED
      BY <2>3, <3>3, <3>5
  <2>5. IsText(T, h, n)
    BY <2>3, <2>4 DEF IsText
  <2> QED
    BY <1>2, <2>5
<1> QED
  BY <1>3, <1>4

LEMMA Compiled ==
  ASSUME NEW T, NEW n \in Nat, n = Len(T)
  PROVE  \E g : IsText(T, g, n) /\ Editor!compileToEngineYaml(T) = g[n]
<1> DEFINE C == CHOOSE g : g = [i \in 0..n |-> IF i = 0 THEN <<>>
                                               ELSE IF T[i].active THEN g[i - 1] \o T[i].rules ELSE g[i - 1]]
<1>1. \E g : g = [i \in 0..n |-> IF i = 0 THEN <<>>
                                 ELSE IF T[i].active THEN g[i - 1] \o T[i].rules ELSE g[i - 1]]
  <2>1. PICK g : IsText(T, g, n)
    BY TextExists
  <2>2. g = [i \in 0..n |-> IF i = 0 THEN <<>>
                            ELSE IF T[i].active THEN g[i - 1] \o T[i].rules ELSE g[i - 1]]
    BY <2>1, Zenon DEF IsText, Step1
  <2> QED
    BY <2>2, Zenon
<1>2. C = [i \in 0..n |-> IF i = 0 THEN <<>> ELSE IF T[i].active THEN C[i - 1] \o T[i].rules ELSE C[i - 1]]
  BY <1>1, Zenon
<1>3. Editor!compileToEngineYaml(T) = C[n]
  BY Zenon DEF Editor!compileToEngineYaml
<1>4. IsText(T, C, n)
  BY <1>2, Zenon DEF IsText, Step1
<1> HIDE DEF C
<1> QED
  BY <1>3, <1>4

\* The first rule of a list that matches the name decides d; or none matches.
NoneHits(F, name) == \A k \in 1..Len(F) : name \notin F[k].glob
FirstHits(F, name, d) ==
  \E k \in 1..Len(F) : /\ name \in F[k].glob /\ F[k].decision = d
                       /\ \A j \in 1..Len(F) : j < k => name \notin F[j].glob

LEMMA Joined ==
  ASSUME NEW F \in Seq(EditorRule), NEW G \in Seq(EditorRule), NEW name, NEW d
  PROVE  /\ F \o G \in Seq(EditorRule)
         /\ NoneHits(F, name) /\ NoneHits(G, name) => NoneHits(F \o G, name)
         /\ NoneHits(F, name) /\ FirstHits(G, name, d) => FirstHits(F \o G, name, d)
         /\ FirstHits(F, name, d) => FirstHits(F \o G, name, d)
<1> DEFINE R == EditorRule
<1>1. F \in Seq(R) /\ G \in Seq(R)
  OBVIOUS
<1> HIDE DEF R
<1>2. PICK a \in Nat, b \in Nat : a = Len(F) /\ b = Len(G)
  BY <1>1
<1>3. PICK H : H = F \o G
  OBVIOUS
<1>4. /\ F \o G \in Seq(R) /\ Len(F \o G) = Len(F) + Len(G)
      /\ \A i \in 1..(Len(F) + Len(G)) : (F \o G)[i] = IF i <= Len(F) THEN F[i] ELSE G[i - Len(F)]
  BY <1>1, ConcatProperties
<1>5. /\ H \in Seq(R) /\ Len(H) = a + b
      /\ \A i \in 1..(a + b) : H[i] = IF i <= a THEN F[i] ELSE G[i - a]
  BY <1>2, <1>3, <1>4
<1>6. /\ \A i \in 1..a : i \in 1..(a + b) /\ H[i] = F[i]
      /\ \A i \in 1..b : i + a \in 1..(a + b) /\ H[i + a] = G[i]
      /\ \A i \in 1..(a + b) : (i \in 1..a /\ H[i] = F[i]) \/ (i - a \in 1..b /\ H[i] = G[i - a])
  <2>1. \A i \in 1..b : i + a \in 1..(a + b) /\ ~(i + a <= a) /\ (i + a) - a = i
    OBVIOUS
  <2>2. \A i \in 1..(a + b) : i \in 1..a \/ (~(i <= a) /\ i - a \in 1..b)
    OBVIOUS
  <2>3. \A i \in 1..a : i \in 1..(a + b) /\ H[i] = F[i]
    BY <1>5
  <2>4. \A i \in 1..b : i + a \in 1..(a + b) /\ H[i + a] = G[i]
    BY <1>5, <2>1
  <2>5. \A i \in 1..(a + b) : (i \in 1..a /\ H[i] = F[i]) \/ (i - a \in 1..b /\ H[i] = G[i - a])
    BY <1>5, <2>2
  <2> QED
    BY <2>3, <2>4, <2>5
<1>7. ASSUME NoneHits(F, name), NoneHits(G, name)
      PROVE  NoneHits(H, name)
  <2>1. (\A i \in 1..a : name \notin F[i].glob) /\ (\A i \in 1..b : name \notin G[i].glob)
    BY <1>2, <1>7 DEF NoneHits
  <2>2. ASSUME NEW i \in 1..(a + b) PROVE name \notin H[i].glob
    <3>1. (i \in 1..a /\ H[i] = F[i]) \/ (i - a \in 1..b /\ H[i] = G[i - a])
      BY <1>6
    <3> QED
      BY <2>1, <3>1
  <2> QED
    BY <1>5, <2>2 DEF NoneHits
<1>8. ASSUME NoneHits(F, name), FirstHits(G, name, d)
      PROVE  FirstHits(H, name, d)
  <2>1. PICK k \in 1..b : /\ name \in G[k].glob /\ G[k].decision = d
                          /\ \A j \in 1..b : j < k => name \notin G[j].glob
    BY <1>2, <1>8 DEF FirstHits
  <2>2. k + a \in 1..(a + b) /\ name \in H[k + a].glob /\ H[k + a].decision = d
    BY <1>6, <2>1
  <2>3. \A j \in 1..(a + b) : j < k + a => name \notin H[j].glob
    <3> SUFFICES ASSUME NEW j \in 1..(a + b), j < k + a
                 PROVE  name \notin H[j].glob
      OBVIOUS
    <3>1. CASE j \in 1..a /\ H[j] = F[j]
      BY <1>2, <1>8, <3>1 DEF NoneHits
    <3>2. CASE j - a \in 1..b /\ H[j] = G[j - a]
      <4>1. j - a < k
        OBVIOUS
      <4> QED
        BY <2>1, <3>2, <4>1
    <3> QED
      BY <1>6, <3>1, <3>2
  <2> QED
    BY <1>5, <2>2, <2>3 DEF FirstHits
<1>9. ASSUME FirstHits(F, name, d)
      PROVE  FirstHits(H, name, d)
  <2>1. PICK k \in 1..a : /\ name \in F[k].glob /\ F[k].decision = d
                          /\ \A j \in 1..a : j < k => name \notin F[j].glob
    BY <1>2, <1>9 DEF FirstHits
  <2>2. \A j \in 1..(a + b) : j < k => j \in 1..a
    OBVIOUS
  <2> QED
    BY <1>5, <1>6, <2>1, <2>2 DEF FirstHits
<1> QED
  BY <1>3, <1>5, <1>7, <1>8, <1>9 DEF R

\* The rules of a policy.
LEMMA PolicyRules ==
  ASSUME NEW T, Listing(T), NEW i \in 1..Len(T)
  PROVE  T[i].rules \in Seq(EditorRule) /\ T[i].active \in BOOLEAN
<1>1. T[i] \in Editor!Row
  BY Rows
<1>2. T[i].rules \in RuleDrafts /\ T[i].active \in BOOLEAN
  BY <1>1 DEF Editor!Row
<1>3. RuleDrafts \subseteq Seq(EditorRule)
  BY PlatformAssumption
<1> QED
  BY <1>2, <1>3

\* The first policy with a rule that matches decides, if there is one.
Deciding(T, name) == {i \in 1..Len(T) : T[i].active /\ ~NoneHits(T[i].rules, name)}

Decides(T, name, d) ==
  \A m \in Deciding(T, name) : (\A h \in Deciding(T, name) : m <= h) => FirstHits(T[m].rules, name, d)

LEMMA TopDecides ==
  ASSUME NEW T, Listing(T), NEW name, NEW d, Decides(T, name, d)
  PROVE  /\ Editor!compileToEngineYaml(T) \in Seq(EditorRule)
         /\ IF Deciding(T, name) = {} THEN NoneHits(Editor!compileToEngineYaml(T), name)
            ELSE FirstHits(Editor!compileToEngineYaml(T), name, d)
<1>0. Len(T) \in Nat
  BY Rows
<1>1. PICK n \in Nat : n = Len(T)
  BY <1>0
<1>2. PICK g : IsText(T, g, n) /\ Editor!compileToEngineYaml(T) = g[n]
  BY <1>1, Compiled
<1> DEFINE D == Deciding(T, name)
           Good(i) == /\ g[i] \in Seq(EditorRule)
                      /\ IF \A h \in D : i < h THEN NoneHits(g[i], name) ELSE FirstHits(g[i], name, d)
           Bad == {i \in 0..n : ~Good(i)}
<1>3. Bad = {}
  <2> SUFFICES ASSUME Bad # {}
               PROVE  FALSE
    OBVIOUS
  <2>1. Bad \subseteq Nat
    OBVIOUS
  <2>2. PICK i \in Bad : \A x \in Bad : ~(<<x, i>> \in OpToRel(<, Nat))
    BY <2>1, NatLessThanWellFounded, WFMin
  <2>3. i \in 0..n /\ ~Good(i) /\ \A x \in 0..n : x < i => Good(x)
    BY <2>1, <2>2 DEF OpToRel
  <2>4. g[i] = Step1(T, g, i)
    BY <1>2, <2>3 DEF IsText
  <2>5. D \subseteq 1..n
    BY <1>1 DEF Deciding
  <2>6. CASE i = 0
    <3>1. g[i] = <<>>
      BY <2>4, <2>6 DEF Step1
    <3>2. \A h \in D : i < h
      BY <2>5, <2>6
    <3> QED
      BY <2>3, <3>1, <3>2 DEF NoneHits
  <2>7. CASE i # 0
    <3>1. i \in 1..n /\ i - 1 \in 0..n /\ i - 1 < i
      BY <2>3, <2>7
    <3>2. Good(i - 1)
      BY <2>3, <3>1
    <3>3. PICK F, G : F = g[i - 1] /\ G = T[i].rules
      OBVIOUS
    <3>4. F \in Seq(EditorRule) /\ G \in Seq(EditorRule) /\ T[i].active \in BOOLEAN
      BY <1>1, <3>1, <3>2, <3>3, PolicyRules
    <3>5. i \in D <=> T[i].active /\ ~NoneHits(G, name)
      BY <1>1, <3>1, <3>3 DEF Deciding
    <3>6. \A h \in D : i - 1 < h <=> i <= h
      BY <2>5, <3>1
    <3>7. g[i] = IF T[i].active THEN F \o G ELSE F
      BY <2>4, <2>7, <3>3 DEF Step1
    <3>8. /\ F \o G \in Seq(EditorRule)
          /\ NoneHits(F, name) /\ NoneHits(G, name) => NoneHits(F \o G, name)
          /\ NoneHits(F, name) /\ FirstHits(G, name, d) => FirstHits(F \o G, name, d)
          /\ FirstHits(F, name, d) => FirstHits(F \o G, name, d)
      BY <3>4, Joined
    <3>9. g[i] \in Seq(EditorRule)
      BY <3>4, <3>7, <3>8
    <3>10. CASE \A h \in D : i < h
      <4>1. i \notin D /\ \A h \in D : i - 1 < h
        BY <2>5, <3>1, <3>10
      <4>2. NoneHits(F, name)
        BY <3>2, <3>3, <4>1
      <4>3. NoneHits(g[i], name)
        BY <3>4, <3>5, <3>7, <3>8, <4>1, <4>2
      <4> QED
        BY <2>3, <3>9, <3>10, <4>3
    <3>11. CASE ~\A h \in D : i < h
      <4>1. CASE \A h \in D : i - 1 < h
        <5>1. NoneHits(F, name) /\ \A h \in D : i <= h
          BY <3>2, <3>3, <3>6, <4>1
        <5>2. i \in D
          BY <2>5, <3>1, <3>11, <5>1
        <5>3. FirstHits(G, name, d)
          BY <3>3, <5>1, <5>2 DEF Decides
        <5>4. FirstHits(g[i], name, d)
          BY <3>5, <3>7, <3>8, <5>1, <5>2, <5>3
        <5> QED
          BY <2>3, <3>9, <3>11, <5>4
      <4>2. CASE ~\A h \in D : i - 1 < h
        <5>1. FirstHits(F, name, d)
          BY <3>2, <3>3, <4>2
        <5>2. FirstHits(g[i], name, d)
          BY <3>4, <3>7, <3>8, <5>1
        <5> QED
          BY <2>3, <3>9, <3>11, <5>2
      <4> QED
        BY <4>1, <4>2
    <3> QED
      BY <3>10, <3>11
  <2> QED
    BY <2>6, <2>7
<1>4. Good(n)
  BY <1>3
<1>5. (\A h \in D : n < h) <=> D = {}
  BY <1>1 DEF Deciding
<1> QED
  BY <1>2, <1>4, <1>5

\* An action keeps the page sound; the page is there from then on.
LEMMA PageIs ==
  ASSUME PageSound(asks, shown, policies, torn)', torn' \in BOOLEAN
  PROVE  EditorPage'
BY PlatformAssumption DEF PageSound, Listing, EditorPage

LEMMA EmptySound ==
  ASSUME NEW A, A = [s \in Calls |-> Editor!Free], NEW u
  PROVE  PageSound(A, <<>>, <<>>, u)
<1>1. <<>> \in Seq(Editor!Row) /\ Len(<<>>) = 0 /\ 1..0 = {}
  OBVIOUS
<1>2. Listing(<<>>)
  BY <1>1 DEF Listing
<1>3. \A s \in Calls : A[s].kind = "free" /\ A[s].id = None /\ AskSound(A[s])
  BY FreeAsk
<1>4. A \in [Calls -> Ask]
  BY <1>3 DEF AskSound
<1>5. Creates(A, <<>>, <<>>)
  BY <1>3 DEF Creates
<1>6. Apart(A)
  BY <1>3 DEF Apart
<1>7. /\ OnPage(A, <<>>, <<>>) /\ InTable(A, <<>>, <<>>) /\ Ordered(<<>>, <<>>)
      /\ SameRows(A, <<>>, <<>>) /\ Pending(A, <<>>, <<>>)
  BY <1>1 DEF OnPage, InTable, Ordered, SameRows, Pending
<1> QED
  BY <1>2, <1>3, <1>4, <1>5, <1>6, <1>7 DEF PageSound, Agrees

LEMMA PageLoads ==
  ASSUME EditorInv, Editor!fetchPolicies
  PROVE  EditorPage'
<1>1. /\ shown = None /\ policies = <<>> /\ asks = [s \in Calls |-> Editor!Free] /\ torn \in BOOLEAN
      /\ policies' = policies /\ asks' = asks /\ torn' \in BOOLEAN /\ shown' = <<>>
  BY DEF EditorInv, EditorPage, Editor!fetchPolicies
<1>2. PageSound(asks, <<>>, <<>>, torn')
  BY <1>1, EmptySound
<1>3. PageSound(asks', shown', policies', torn')
  BY <1>1, <1>2
<1> QED
  BY <1>1, <1>3, PageIs

\* A request goes out in a free slot.
LEMMA RequestGoes ==
  ASSUME EditorInv, shown # None, NEW s \in Calls, NEW r, AskSound(r), Editor!Send(s, r)
  PROVE  /\ asks[s] = Editor!Free /\ Turns(asks, asks', s, r) /\ Alone1(asks, torn, torn', r)
         /\ torn' \in BOOLEAN /\ policies' = policies /\ PageSound(asks, shown, policies, torn)
<1>1. /\ PageSound(asks, shown, policies, torn) /\ torn \in BOOLEAN /\ asks \in [Calls -> Ask]
      /\ asks[s] = Editor!Free /\ policies' = policies /\ asks' = [asks EXCEPT ![s] = r]
      /\ torn' = (torn \/ (r.id # None /\ Editor!Open(r.id)))
  BY DEF EditorInv, EditorPage, PageSound, Editor!Send
<1>2. Turns(asks, asks', s, r)
  BY <1>1, TurnsIs
<1>3. r.id # None /\ ~Editor!Open(r.id) => \A o \in Calls : asks[o].id # r.id
  BY <1>1, AskFacts DEF Editor!Open
<1>4. torn' \in BOOLEAN
  BY <1>1
<1>5. ~torn' => ~torn /\ (r.id # None => ~Editor!Open(r.id))
  BY <1>1
<1>6. Alone1(asks, torn, torn', r)
  BY <1>3, <1>4, <1>5 DEF Alone1
<1> QED
  BY <1>1, <1>2, <1>4, <1>6

LEMMA PlainGoes ==
  ASSUME EditorInv, shown # None, NEW s \in Calls, NEW r, AskSound(r), Editor!Send(s, r), shown' = shown,
         r.kind \in {"create", "save", "delete"}, ~r.done,
         r.kind = "create" => ~Editor!Busy("create"),
         r.kind # "create" => Editor!Has(shown, r.id)
  PROVE  EditorPage'
<1>1. /\ asks[s] = Editor!Free /\ Turns(asks, asks', s, r) /\ Alone1(asks, torn, torn', r)
      /\ torn' \in BOOLEAN /\ policies' = policies /\ PageSound(asks, shown, policies, torn)
  BY RequestGoes
<1>2. r.kind = "create" => \A o \in Calls : asks[o].kind # "create"
  BY DEF Editor!Busy
<1>3. r.id # None => \E i \in 1..Len(shown) : shown[i].id = r.id
  BY <1>1, AskIs, Rows DEF Editor!Has, PageSound
<1>4. Sends1(asks, shown, s, r)
  BY <1>1, <1>2, <1>3 DEF Sends1
<1>5. PageSound(asks', shown, policies, torn')
  BY <1>1, <1>4, PlainSent
<1> QED
  BY <1>1, <1>5, PageIs

LEMMA PageCreates ==
  ASSUME EditorInv, NEW s \in Calls, NEW d \in RuleDrafts, Editor!handleCreate(s, d)
  PROVE  EditorPage'
<1>1. PICK r : r = [Editor!Free EXCEPT !.kind = "create", !.rules = d]
  OBVIOUS
<1>2. r = [kind |-> "create", id |-> None, rules |-> d, active |-> FALSE, old |-> None,
           reply |-> None, row |-> None, done |-> FALSE]
  BY <1>1 DEF Editor!Free
<1>3. AskSound(r)
  BY <1>2, PlatformAssumption DEF AskSound, Ask
<1>4. r.kind = "create" /\ ~r.done
  BY <1>2
<1>5. shown # None /\ ~Editor!Busy("create") /\ Editor!Send(s, r) /\ shown' = shown
  BY <1>1 DEF Editor!handleCreate
<1> QED
  BY <1>3, <1>4, <1>5, PlainGoes

LEMMA PageSaves ==
  ASSUME EditorInv, NEW s \in Calls, NEW id \in TableRows, NEW d \in RuleDrafts, Editor!saveEdit(s, id, d)
  PROVE  EditorPage'
<1>1. PICK r : r = [Editor!Free EXCEPT !.kind = "save", !.id = id, !.rules = d]
  OBVIOUS
<1>2. r = [kind |-> "save", id |-> id, rules |-> d, active |-> FALSE, old |-> None,
           reply |-> None, row |-> None, done |-> FALSE]
  BY <1>1 DEF Editor!Free
<1>3. AskSound(r)
  BY <1>2, PlatformAssumption DEF AskSound, Ask
<1>4. r.kind = "save" /\ ~r.done /\ r.id = id
  BY <1>2
<1>5. shown # None /\ Editor!Has(shown, id) /\ Editor!Send(s, r) /\ shown' = shown
  BY <1>1 DEF Editor!saveEdit
<1> QED
  BY <1>3, <1>4, <1>5, PlainGoes

LEMMA PageDeletes ==
  ASSUME EditorInv, NEW s \in Calls, NEW id \in TableRows, Editor!handleDelete(s, id)
  PROVE  EditorPage'
<1>1. PICK r : r = [Editor!Free EXCEPT !.kind = "delete", !.id = id]
  OBVIOUS
<1>2. r = [kind |-> "delete", id |-> id, rules |-> <<>>, active |-> FALSE, old |-> None,
           reply |-> None, row |-> None, done |-> FALSE]
  BY <1>1 DEF Editor!Free
<1>3. AskSound(r)
  BY <1>2, PlatformAssumption DEF AskSound, Ask
<1>4. r.kind = "delete" /\ ~r.done /\ r.id = id
  BY <1>2
<1>5. shown # None /\ Editor!Has(shown, id) /\ Editor!Send(s, r) /\ shown' = shown
  BY <1>1 DEF Editor!handleDelete
<1> QED
  BY <1>3, <1>4, <1>5, PlainGoes

LEMMA PageToggles ==
  ASSUME EditorInv, NEW s \in Calls, NEW id \in TableRows, Editor!handleToggleActive(s, id)
  PROVE  EditorPage'
<1>1. shown # None /\ Editor!Has(shown, id) /\ PageSound(asks, shown, policies, torn) /\ Listing(shown)
  BY DEF Editor!handleToggleActive, EditorInv, EditorPage, PageSound
<1>2. PICK i \in 1..Len(shown) : i = Editor!At(shown, id) /\ shown[i].id = id
  BY <1>1, Found
<1>3. PICK x : x = shown[i]
  OBVIOUS
<1>4. x \in Editor!Row /\ x.id = id /\ Flip(x) \in Editor!Row /\ Flip(x).id = id
  BY <1>1, <1>2, <1>3, Rows
<1>5. PICK r : r = [Editor!Free EXCEPT !.kind = "toggle", !.id = id, !.active = ~x.active, !.old = x]
  OBVIOUS
<1>6. r = [kind |-> "toggle", id |-> id, rules |-> <<>>, active |-> ~x.active, old |-> x,
           reply |-> None, row |-> None, done |-> FALSE]
  BY <1>5 DEF Editor!Free
<1>7. r \in Ask
  BY <1>4, <1>6 DEF Ask
<1>8. AskSound(r)
  <2>1. /\ r.kind = "toggle" /\ r.id = id /\ r.old = x /\ r.reply = None /\ r.done = FALSE
        /\ r.active = ~x.active
    BY <1>6
  <2>2. r.active <=> ~r.old.active
    BY <2>1
  <2>3. r.reply # "ok"
    BY <2>1, PlatformAssumption
  <2> QED
    BY <1>4, <1>7, <2>1, <2>2, <2>3 DEF AskSound
<1>9. Editor!Send(s, r) /\ shown' = Editor!Put(shown, Flip(x))
  BY <1>2, <1>3, <1>5 DEF Editor!handleToggleActive, Flip
<1>10. /\ asks[s] = Editor!Free /\ Turns(asks, asks', s, r) /\ Alone1(asks, torn, torn', r)
       /\ torn' \in BOOLEAN /\ policies' = policies
  BY <1>1, <1>8, <1>9, RequestGoes
<1>11. r.kind = "toggle" /\ ~r.done /\ r.id = id /\ r.old = x
  BY <1>6
<1>12. Sends1(asks, shown, s, r)
  BY <1>2, <1>8, <1>10, <1>11 DEF Sends1
<1>13. PICK Q : Q = shown'
  OBVIOUS
<1>14. Listing(Q) /\ Rerow(shown, Q, Flip(x))
  BY <1>1, <1>4, <1>9, <1>13, PutKeeps DEF Rerow
<1>15. PageSound(asks', Q, policies, torn')
  BY <1>1, <1>2, <1>3, <1>10, <1>11, <1>12, <1>14, ToggleSent
<1> QED
  BY <1>10, <1>13, <1>15, PageIs

\* The request after the route has done its work.
Serves(A, s, reply, row) ==
  /\ A \in [Calls -> Ask] /\ s \in Calls /\ AskSound(A[s]) /\ A[s].kind # "free" /\ A[s].reply = None
  /\ reply \in {"ok", "lost"} /\ row \in Editor!Row \cup {None}
  /\ A[s].kind # "delete" => row \in Editor!Row
  /\ A[s].kind = "save" => row.id = A[s].id
Served(A, s, reply, row) == [A EXCEPT ![s].reply = reply, ![s].row = row, ![s].done = TRUE]

LEMMA ServedAsk ==
  ASSUME NEW A, NEW s, NEW reply, NEW row, Serves(A, s, reply, row)
  PROVE  \E r : Turns(A, Served(A, s, reply, row), s, r) /\ Done1(A, s, r) /\ r.row = row
<1>1. PICK a : a = A[s]
  OBVIOUS
<1>2. a \in Ask /\ AskSound(a) /\ a.reply = None /\ a.kind # "free"
  BY <1>1 DEF AskSound, Serves
<1>3. PICK r : r = [a EXCEPT !.reply = reply, !.row = row, !.done = TRUE]
  OBVIOUS
<1>4. r \in Ask
  BY <1>2, <1>3 DEF Ask, EditorReplies, Serves
<1>5. /\ r.kind = a.kind /\ r.id = a.id /\ r.rules = a.rules /\ r.old = a.old /\ r.reply = reply
      /\ r.row = row /\ r.done = TRUE /\ r.active = a.active
  BY <1>2, <1>3 DEF Ask
<1>6. ~a.done
  BY <1>2, PlatformAssumption DEF AskSound
<1>7. /\ reply # "refused" /\ a.kind # "delete" => row \in Editor!Row
      /\ a.kind = "save" => row.id = a.id
  BY <1>1 DEF Serves
<1>8. AskSound(r)
  BY <1>2, <1>4, <1>5, <1>7 DEF AskSound, Serves
<1>9. A \in [Calls -> Ask] /\ s \in Calls
  BY DEF Serves
<1>10. [A EXCEPT ![s].reply = reply, ![s].row = row, ![s].done = TRUE] = [A EXCEPT ![s] = r]
  BY <1>1, <1>3
<1>11. Turns(A, [A EXCEPT ![s] = r], s, r)
  BY <1>8, <1>9, TurnsIs
<1>12. Turns(A, Served(A, s, reply, row), s, r)
  BY <1>10, <1>11 DEF Served
<1>13. Done1(A, s, r)
  BY <1>1, <1>5, <1>6 DEF Done1
<1> QED
  BY <1>5, <1>12, <1>13

LEMMA PageServed ==
  ASSUME EditorInv, NEW s \in Calls, Editor!Serve(s)
  PROVE  EditorPage'
<1>1. asks[s].kind # "free" /\ asks[s].reply = None /\ shown' = shown /\ torn' = torn
  BY DEF Editor!Serve
<1>2. shown # None
  BY <1>1, FreeAsk DEF EditorInv, EditorPage
<1>3. PageSound(asks, shown, policies, torn) /\ torn \in BOOLEAN
  BY <1>2 DEF EditorInv, EditorPage
<1>4. asks \in [Calls -> Ask] /\ AskSound(asks[s]) /\ Listing(shown) /\ Listing(policies)
  BY <1>3 DEF PageSound
<1>5. PICK o \in Editor!Outcomes(asks[s]), reply \in {"ok", "lost"} :
        /\ policies' = o.table
        /\ asks' = [asks EXCEPT ![s].reply = reply, ![s].row = o.row, ![s].done = TRUE]
  BY DEF Editor!Serve
<1>6. PICK U, B : U = policies' /\ B = asks'
  OBVIOUS
<1>7. asks[s].kind \in {"create", "toggle", "save", "delete"}
  BY <1>1, <1>4, AskIs
<1>8. CASE asks[s].kind = "create"
  <2>1. o \in Editor!createPolicy(asks[s])
    BY <1>5, <1>8 DEF Editor!Outcomes
  <2>2. PICK id \in Editor!Unused :
          \E x : /\ x = [id |-> id, rules |-> asks[s].rules, active |-> TRUE]
                 /\ o = [table |-> <<x>> \o policies, row |-> x]
    BY <2>1 DEF Editor!createPolicy
  <2>0. PICK x : /\ x = [id |-> id, rules |-> asks[s].rules, active |-> TRUE]
                 /\ o = [table |-> <<x>> \o policies, row |-> x]
    BY <2>2
  <2>3. /\ id \in TableRows /\ ~Editor!Has(policies, id) /\ ~Editor!Open(id) /\ ~Editor!Has(shown, id)
    BY <1>2, <2>2 DEF Editor!Unused
  <2>4. x \in Editor!Row /\ x.id = id
    BY <1>4, <1>8, <2>0, <2>3 DEF AskSound, Editor!Row
  <2>5. \A i \in 1..Len(policies) : policies[i].id # x.id
    BY <1>4, <2>3, <2>4, Rows DEF Editor!Has
  <2>6. \A i \in 1..Len(shown) : shown[i].id # x.id
    BY <1>4, <2>3, <2>4, Rows DEF Editor!Has
  <2>7. \A c \in Calls : asks[c].id # x.id
    BY <1>3, <2>3, <2>4, AskFacts, RowId DEF Editor!Open
  <2>8. U = <<x>> \o policies /\ B = Served(asks, s, reply, x)
    BY <1>5, <1>6, <2>0 DEF Served
  <2>9. PICK r : Turns(asks, B, s, r) /\ Done1(asks, s, r) /\ r.row = x
    <3>1. Serves(asks, s, reply, x)
      BY <1>1, <1>4, <1>8, <2>4 DEF Serves
    <3> QED
      BY <2>8, <3>1, ServedAsk
  <2>10. /\ Listing(U) /\ Len(U) = Len(policies) + 1 /\ U[1] = x
         /\ \A i \in 2..Len(U) : U[i] = policies[i - 1] /\ i - 1 \in 1..Len(policies)
    <3>1. Fresh(policies, x)
      BY <2>5 DEF Fresh
    <3>2. Listing(U) /\ Fronts(policies, x, U)
      BY <1>4, <2>4, <2>8, <3>1, Fronted
    <3> QED
      BY <3>2 DEF Fronts
  <2>11. r.kind = "create"
    BY <1>8, <2>9 DEF Done1
  <2>12. PageSound(B, shown, U, torn)
    BY <1>3, <2>4, <2>6, <2>7, <2>9, <2>10, <2>11, TableNew
  <2> QED
    BY <1>1, <1>3, <1>6, <2>12, PageIs
<1>9. CASE asks[s].kind = "delete"
  <2>1. o = [table |-> Editor!Without(policies, asks[s].id), row |-> None]
    BY <1>5, <1>9 DEF Editor!Outcomes, Editor!deletePolicy
  <2>2. /\ U = Editor!Without(policies, asks[s].id)
        /\ B = Served(asks, s, reply, None)
    BY <1>5, <1>6, <2>1 DEF Served
  <2>3. PICK r : Turns(asks, B, s, r) /\ Done1(asks, s, r)
    <3>1. Serves(asks, s, reply, None)
      BY <1>1, <1>4, <1>9 DEF Serves
    <3> QED
      BY <2>2, <3>1, ServedAsk
  <2>4. r.kind = "delete" /\ r.id = asks[s].id
    BY <1>9, <2>3 DEF Done1
  <2>5. /\ Listing(U)
        /\ \/ U = policies /\ \A j \in 1..Len(policies) : policies[j].id # r.id
           \/ \E k \in 1..Len(policies) : policies[k].id = r.id /\ Leaves(policies, U, k)
    BY <1>4, <2>2, <2>4, WithoutKeeps
  <2>6. PageSound(B, shown, U, torn)
    BY <1>3, <2>3, <2>4, <2>5, TableLess
  <2> QED
    BY <1>1, <1>3, <1>6, <2>6, PageIs
<1>10. CASE asks[s].kind \in {"toggle", "save"}
  <2>1. o \in Editor!updatePolicy(asks[s])
    BY <1>5, <1>10 DEF Editor!Outcomes
  <2>2. Editor!Has(policies, asks[s].id)
    BY <2>1 DEF Editor!updatePolicy
  <2>3. PICK k \in 1..Len(policies) : k = Editor!At(policies, asks[s].id) /\ policies[k].id = asks[s].id
    BY <1>4, <2>2, Found
  <2>4. PICK old : old = policies[k] /\ old \in Editor!Row
    BY <1>4, <2>3, Rows
  <2>5. PICK x : /\ x = IF asks[s].kind = "save" THEN [old EXCEPT !.rules = asks[s].rules]
                                                 ELSE [old EXCEPT !.active = asks[s].active]
                 /\ o = [table |-> Editor!Put(policies, x), row |-> x]
    BY <2>1, <2>2, <2>3, <2>4 DEF Editor!updatePolicy
  <2>6. asks[s].active \in BOOLEAN
    BY <1>4 DEF AskSound, Ask
  <2>7. x \in Editor!Row /\ x.id = asks[s].id
    <3>1. CASE asks[s].kind = "save"
      <4>1. asks[s].rules \in RuleDrafts
        BY <1>4, <3>1 DEF AskSound
      <4> QED
        BY <2>3, <2>4, <2>5, <3>1, <4>1 DEF Editor!Row
    <3>2. CASE asks[s].kind = "toggle"
      BY <2>3, <2>4, <2>5, <2>6, <3>2 DEF Editor!Row
    <3> QED
      BY <1>10, <3>1, <3>2
  <2>8. asks[s].kind = "toggle" /\ ~torn => x = Flip(old)
    <3> SUFFICES ASSUME asks[s].kind = "toggle", ~torn
                 PROVE  x = Flip(old)
      OBVIOUS
    <3>1. ~asks[s].done /\ (asks[s].active <=> ~asks[s].old.active)
      BY <1>1, <1>4, PlatformAssumption DEF AskSound
    <3>2. old = asks[s].old
      BY <1>3, <2>3, <2>4, <3>1 DEF PageSound, Agrees, Pending
    <3>3. x = [old EXCEPT !.active = asks[s].active]
      BY <2>5
    <3>4. x.rules = old.rules /\ (x.active <=> ~old.active) /\ x.id = old.id
      BY <2>4, <3>1, <3>2, <3>3 DEF Editor!Row
    <3>5. /\ Flip(old) \in Editor!Row /\ Flip(old).id = old.id /\ Flip(old).rules = old.rules
          /\ Flip(old).active <=> ~old.active
      BY <2>4, Rows
    <3> QED
      BY <2>7, <3>4, <3>5, Rows
  <2>9. /\ U = Editor!Put(policies, x)
        /\ B = Served(asks, s, reply, x)
    BY <1>5, <1>6, <2>5 DEF Served
  <2>10. PICK r : Turns(asks, B, s, r) /\ Done1(asks, s, r) /\ r.row = x
    <3>1. Serves(asks, s, reply, x)
      BY <1>1, <1>4, <1>10, <2>7 DEF Serves
    <3> QED
      BY <2>9, <3>1, ServedAsk
  <2>11. r.kind \in {"toggle", "save"} /\ x.id = r.id /\ (r.kind = "toggle" /\ ~torn => x = Flip(policies[k]))
    BY <1>10, <2>4, <2>7, <2>8, <2>10 DEF Done1
  <2>12. Listing(U) /\ Rerow(policies, U, x)
    BY <1>4, <2>7, <2>9, PutKeeps DEF Rerow
  <2>13. PageSound(B, shown, U, torn)
    BY <1>3, <2>3, <2>7, <2>10, <2>11, <2>12, TableChanged
  <2> QED
    BY <1>1, <1>3, <1>6, <2>13, PageIs
<1> QED
  BY <1>7, <1>8, <1>9, <1>10

\* A request that is refused or never gets there has an answer only.
LEMMA PageRefused ==
  ASSUME EditorInv, NEW s \in Calls, Editor!Refuse(s)
  PROVE  EditorPage'
<1>1. /\ asks[s].kind # "free" /\ asks[s].reply = None
      /\ shown' = shown /\ torn' = torn /\ policies' = policies
  BY DEF Editor!Refuse
<1>2. PICK reply \in {"refused", "lost"} : asks' = [asks EXCEPT ![s].reply = reply]
  BY DEF Editor!Refuse
<1>3. shown # None
  BY <1>1, FreeAsk DEF EditorInv, EditorPage
<1>4. PageSound(asks, shown, policies, torn) /\ torn \in BOOLEAN
  BY <1>3 DEF EditorInv, EditorPage
<1>5. asks \in [Calls -> Ask] /\ AskSound(asks[s])
  BY <1>4 DEF PageSound
<1>6. PICK a : a = asks[s]
  OBVIOUS
<1>7. a \in Ask /\ AskSound(a) /\ a.reply = None /\ a.kind # "free"
  BY <1>1, <1>5, <1>6 DEF AskSound
<1>8. PICK r : r = [kind |-> a.kind, id |-> a.id, rules |-> a.rules, active |-> a.active, old |-> a.old,
                    reply |-> reply, row |-> a.row, done |-> a.done]
  OBVIOUS
<1>9. r = [a EXCEPT !.reply = reply]
  BY <1>7, <1>8 DEF Ask
<1>10. PICK B : B = asks'
  OBVIOUS
<1>11. B = [asks EXCEPT ![s] = r]
  BY <1>2, <1>6, <1>9, <1>10
<1>12. r \in Ask
  BY <1>7, <1>8 DEF Ask, EditorReplies
<1>13. /\ r.kind = a.kind /\ r.id = a.id /\ r.rules = a.rules /\ r.old = a.old /\ r.reply = reply
       /\ r.row = a.row /\ r.done = a.done /\ r.active = a.active
  BY <1>8
<1>14. ~a.done
  BY <1>7, PlatformAssumption DEF AskSound
<1>15. AskSound(r)
  BY <1>7, <1>12, <1>13, <1>14 DEF AskSound
<1>16. Turns(asks, B, s, r)
  BY <1>5, <1>11, <1>15, TurnsIs
<1>17. PageSound(B, shown, policies, torn)
  BY <1>4, <1>6, <1>13, <1>16, Answered
<1> QED
  BY <1>1, <1>4, <1>10, <1>17, PageIs

\* An answer is in, and the page takes from it what its kind says.
LEMMA PageReceives ==
  ASSUME EditorInv, NEW s \in Calls, Editor!Receive(s)
  PROVE  EditorPage'
<1>1. PICK r : r = asks[s]
  OBVIOUS
<1>2. PICK Q, B, v : Q = shown' /\ B = asks' /\ v = torn'
  OBVIOUS
<1>3. r.reply # None /\ policies' = policies /\ B = [asks EXCEPT ![s] = Editor!Free]
  BY <1>1, <1>2 DEF Editor!Receive
<1>4. shown # None
  BY <1>1, <1>3, FreeAsk DEF EditorInv, EditorPage
<1>5. PageSound(asks, shown, policies, torn) /\ torn \in BOOLEAN
  BY <1>4 DEF EditorInv, EditorPage
<1>6. asks \in [Calls -> Ask] /\ AskSound(r) /\ Listing(shown) /\ Listing(policies)
  BY <1>1, <1>5 DEF PageSound
<1>7. Frees(asks, B, s)
  BY <1>3, <1>6, FreeAsk, TurnsIs DEF Frees
<1>8. r.kind \in {"create", "toggle", "save", "delete"} /\ r.reply \in EditorReplies
  BY <1>3, <1>6, AskIs, FreeAsk DEF AskSound
<1>9. v = (torn \/ (r.reply = "lost" /\ r.done) \/ (r.reply = "refused" /\ r.kind \in {"toggle", "delete"}))
  BY <1>1, <1>2 DEF Editor!Receive
<1>10. v \in BOOLEAN
  BY <1>9
<1>11. /\ ~v => ~torn
       /\ ~v /\ r.reply = "lost" => ~r.done
       /\ ~v /\ r.reply = "refused" => r.kind \notin {"toggle", "delete"}
       /\ r.reply = "ok" => r.done
       /\ r.reply = "refused" => ~r.done
  BY <1>6, <1>9 DEF AskSound
<1>12. Q = CASE r.kind = "create" /\ r.reply = "ok" -> Editor!Prepended(shown, r.row)
             [] r.kind = "save" /\ r.reply = "ok" -> Editor!Put(shown, r.row)
             [] r.kind = "delete" /\ ~(r.reply = "lost") -> Editor!Without(shown, r.id)
             [] r.kind = "toggle" /\ r.reply = "lost" -> Editor!Reverted(shown, r)
             [] OTHER -> shown
  BY <1>1, <1>2 DEF Editor!Receive
<1>13. PageSound(B, Q, policies, v)
  <2>1. CASE r.kind = "create" /\ r.reply = "ok"
    <3>1. Q = <<r.row>> \o shown
      BY <1>12, <2>1 DEF Editor!Prepended
    <3>2. r.done /\ r.row \in Editor!Row
      BY <1>6, <1>11, <2>1, AskIs
    <3>3. Fresh(shown, r.row)
      BY <1>1, <1>5, <2>1, <3>2 DEF PageSound, Creates, Fresh
    <3>4. Listing(Q) /\ Fronts(shown, r.row, Q)
      BY <1>6, <3>1, <3>2, <3>3, Fronted
    <3>5. v = torn
      BY <1>5, <1>9, <2>1
    <3>6. PageSound(B, Q, policies, torn)
      BY <1>1, <1>5, <1>7, <2>1, <3>2, <3>4, RowNew DEF Fronts
    <3> QED
      BY <3>5, <3>6
  <2>2. CASE r.kind = "save" /\ r.reply = "ok"
    <3>1. Q = Editor!Put(shown, r.row)
      BY <1>12, <2>2
    <3>2. r.done /\ r.row \in Editor!Row /\ r.row.id = r.id
      BY <1>6, <1>11, <2>2 DEF AskSound
    <3>3. Listing(Q) /\ Rerow(shown, Q, r.row)
      BY <1>6, <3>1, <3>2, PutKeeps DEF Rerow
    <3>4. ~torn => \A j \in 1..Len(policies) : policies[j].id = r.row.id => policies[j] = r.row
      BY <1>1, <1>5, <2>2, <3>2 DEF PageSound, Agrees, Pending
    <3> QED
      BY <1>1, <1>5, <1>7, <1>10, <1>11, <2>2, <3>2, <3>3, <3>4, RowTaken
  <2>3. CASE r.kind = "delete" /\ r.reply # "lost"
    <3>1. Q = Editor!Without(shown, r.id)
      BY <1>12, <2>3
    <3>2. /\ Listing(Q)
          /\ \/ Q = shown /\ \A i \in 1..Len(shown) : shown[i].id # r.id
             \/ \E k \in 1..Len(shown) : shown[k].id = r.id /\ Leaves(shown, Q, k)
      BY <1>6, <3>1, WithoutKeeps
    <3>3. ~v => ~torn /\ r.done
      BY <1>8, <1>11, <2>3 DEF EditorReplies
    <3> QED
      BY <1>1, <1>5, <1>7, <1>10, <2>3, <3>2, <3>3, RowGone
  <2>4. CASE r.kind = "toggle" /\ r.reply = "lost"
    <3>1. Q = IF Editor!Has(shown, r.id) THEN Editor!Put(shown, r.old) ELSE shown
      BY <1>12, <2>4 DEF Editor!Reverted
    <3>2. r.old \in Editor!Row /\ r.old.id = r.id
      BY <1>6, <2>4 DEF AskSound
    <3>3. Listing(Q) /\ Rerow(shown, Q, r.old)
      <4>1. CASE Editor!Has(shown, r.id)
        BY <1>6, <3>1, <3>2, <4>1, PutKeeps DEF Rerow
      <4>2. CASE ~Editor!Has(shown, r.id)
        <5>1. \A i \in 1..Len(shown) : shown[i].id # r.old.id
          BY <1>6, <3>2, <4>2, Rows DEF Editor!Has
        <5> QED
          BY <1>6, <3>1, <4>2, <5>1 DEF Rerow
      <4> QED
        BY <4>1, <4>2
    <3>4. ~v => ~torn /\ \A j \in 1..Len(policies) : policies[j].id = r.old.id => policies[j] = r.old
      BY <1>1, <1>5, <1>11, <2>4, <3>2 DEF PageSound, Agrees, Pending
    <3> QED
      BY <1>1, <1>5, <1>7, <1>10, <2>4, <3>2, <3>3, <3>4, RowTaken
  <2>5. CASE \/ r.kind \in {"create", "save"} /\ r.reply # "ok"
             \/ r.kind = "delete" /\ r.reply = "lost"
             \/ r.kind = "toggle" /\ r.reply # "lost"
    <3>1. Q = shown
      BY <1>12, <2>5
    <3>2. ~v => ~torn /\ (IF r.kind = "toggle" THEN r.done ELSE ~r.done)
      BY <1>8, <1>11, <2>5 DEF EditorReplies
    <3> QED
      BY <1>1, <1>5, <1>7, <1>10, <3>1, <3>2, Dropped
  <2> QED
    BY <1>8, <2>1, <2>2, <2>3, <2>4, <2>5
<1> QED
  BY <1>2, <1>3, <1>10, <1>13, PageIs

(* What is pushed *)

LEMMA PushesStay ==
  ASSUME Pushes, UNCHANGED <<policies, due, texts, engine, listings, inForce>>
  PROVE  Pushes'
BY DEF Pushes

\* A request got through to the table, and a push is due.
LEMMA PushesServed ==
  ASSUME Pushes, NEW s, Editor!Serve(s)
  PROVE  Pushes'
<1>1. due' = due + 1 /\ UNCHANGED <<texts, engine, listings, inForce>>
  BY DEF Editor!Serve
<1>2. due' \in Nat /\ due' # 0
  BY <1>1 DEF Pushes
<1> QED
  BY <1>1, <1>2 DEF Pushes

LEMMA PushesListed ==
  ASSUME Pushes, Editor!pushPolicyToEngine
  PROVE  Pushes'
<1>1. /\ due > 0 /\ due' = due - 1 /\ listings' = listings + 1 /\ UNCHANGED <<policies, engine, inForce>>
      /\ texts' = texts \cup {[nth |-> listings + 1, rules |-> Editor!compileToEngineYaml(policies)]}
  BY DEF Editor!pushPolicyToEngine
<1>2. /\ due \in Nat /\ listings \in Nat /\ inForce \in 0..listings
      /\ \A t \in texts : t.nth \in 1..listings
  BY DEF Pushes
<1>3. due' \in Nat /\ listings' \in Nat /\ inForce' \in 0..listings' /\ inForce' # listings'
  BY <1>1, <1>2
<1>4. \A t \in texts' : \/ t \in texts
                        \/ t.nth = listings' /\ t.rules = Editor!compileToEngineYaml(policies)
  BY <1>1
<1>5. \A t \in texts : t.nth \in 1..listings' /\ t.nth # listings'
  BY <1>1, <1>2
<1>6. \A t \in texts' : t.nth \in 1..listings'
  BY <1>3, <1>4, <1>5, <1>1, <1>2
<1>7. \A t \in texts' : t.nth = listings' => t.rules = Editor!compileToEngineYaml(policies)
  BY <1>4, <1>5
<1>8. \A t \in texts' : t.nth = listings' => t.rules = Editor!compileToEngineYaml(policies')
  BY <1>1, <1>7
<1> QED
  BY <1>3, <1>6, <1>8 DEF Pushes

LEMMA PushesPut ==
  ASSUME Pushes, Editor!doPut
  PROVE  Pushes'
<1>1. PICK t \in texts : /\ texts' = texts \ {t}
                         /\ (engine' = t.rules /\ inForce' = t.nth) \/ UNCHANGED <<engine, inForce>>
                         /\ UNCHANGED <<policies, due, listings>>
  BY DEF Editor!doPut
<1>2. t.nth \in 1..listings /\ listings \in Nat
  BY DEF Pushes
<1>3. inForce' \in 0..listings
  BY <1>1, <1>2 DEF Pushes
<1>4. due = 0 /\ inForce' = listings => engine' = Editor!compileToEngineYaml(policies)
  BY <1>1 DEF Pushes
<1>5. engine' = engine' /\ policies' = policies /\ due' = due /\ listings' = listings
  BY <1>1
<1>6. Editor!compileToEngineYaml(policies') = Editor!compileToEngineYaml(policies)
  BY <1>5
<1>7. texts' \subseteq texts
  BY <1>1
<1> QED
  BY <1>3, <1>4, <1>5, <1>6, <1>7 DEF Pushes

(* What was sent *)

LEMMA UnservedFinite ==
  ASSUME NEW A
  PROVE  IsFiniteSet(Unserved(A)) /\ Cardinality(Unserved(A)) \in Nat
<1>1. Unserved(A) \subseteq Calls
  BY DEF Unserved
<1>2. IsFiniteSet(Unserved(A))
  BY <1>1, FS_Subset, PlatformAssumption
<1> QED
  BY <1>2, FS_CardinalityType

LEMMA UnservedLess ==
  ASSUME NEW A, NEW B, Unserved(B) \subseteq Unserved(A)
  PROVE  /\ Cardinality(Unserved(B)) <= Cardinality(Unserved(A))
         /\ \A s \in Unserved(A) : s \notin Unserved(B) =>
              Cardinality(Unserved(B)) + 1 <= Cardinality(Unserved(A))
<1>1. IsFiniteSet(Unserved(A)) /\ Cardinality(Unserved(A)) \in Nat /\ Cardinality(Unserved(B)) \in Nat
  BY UnservedFinite
<1>2. Cardinality(Unserved(B)) <= Cardinality(Unserved(A))
  BY <1>1, FS_Subset
<1>3. ASSUME NEW s \in Unserved(A), s \notin Unserved(B)
      PROVE  Cardinality(Unserved(B)) + 1 <= Cardinality(Unserved(A))
  <2>1. Cardinality(Unserved(B)) < Cardinality(Unserved(A))
    BY <1>1, <1>2, <1>3, FS_Subset
  <2> QED
    BY <1>1, <2>1
<1> QED
  BY <1>2, <1>3

LEMMA UnservedMore ==
  ASSUME NEW A, NEW B, NEW s, Unserved(B) \subseteq Unserved(A) \cup {s}
  PROVE  Cardinality(Unserved(B)) <= Cardinality(Unserved(A)) + 1
<1>1. IsFiniteSet(Unserved(A)) /\ Cardinality(Unserved(A)) \in Nat /\ Cardinality(Unserved(B)) \in Nat
  BY UnservedFinite
<1>2. /\ IsFiniteSet(Unserved(A) \cup {s})
      /\ Cardinality(Unserved(A) \cup {s}) =
           IF s \in Unserved(A) THEN Cardinality(Unserved(A)) ELSE Cardinality(Unserved(A)) + 1
  BY <1>1, FS_AddElement
<1>3. Cardinality(Unserved(B)) <= Cardinality(Unserved(A) \cup {s})
  BY <1>2, FS_Subset
<1> QED
  BY <1>1, <1>2, <1>3

\* Every request is of a record form.
LEMMA AsksAre ==
  ASSUME EditorInv
  PROVE  asks \in [Calls -> Ask] /\ \A s \in Calls : AskSound(asks[s])
<1>1. CASE shown = None
  <2>1. asks = [s \in Calls |-> Editor!Free]
    BY <1>1 DEF EditorInv, EditorPage
  <2>2. Editor!Free \in Ask /\ AskSound(Editor!Free)
    BY FreeAsk DEF AskSound
  <2> QED
    BY <2>1, <2>2
<1>2. CASE shown # None
  BY <1>2 DEF EditorInv, EditorPage, PageSound
<1> QED
  BY <1>1, <1>2

LEMMA CountsSent ==
  ASSUME EditorInv, NEW s \in Calls, NEW r, Editor!Send(s, r)
  PROVE  Counts'
<1>1. /\ asked < MaxSent /\ asked' = asked + 1 /\ asks' = [asks EXCEPT ![s] = r]
      /\ UNCHANGED <<due, listings>>
  BY DEF Editor!Send, Editor!sync
<1>2. Unserved(asks') \subseteq Unserved(asks) \cup {s}
  BY <1>1, AsksAre DEF Unserved
<1>3. Cardinality(Unserved(asks')) <= Cardinality(Unserved(asks)) + 1
  BY <1>2, UnservedMore
<1>4. Cardinality(Unserved(asks)) \in Nat /\ Cardinality(Unserved(asks')) \in Nat
  BY UnservedFinite
<1>5. /\ asked \in 0..MaxSent /\ MaxSent \in Nat /\ due \in Nat /\ listings \in Nat
      /\ due + listings + Cardinality(Unserved(asks)) <= asked
  BY PlatformAssumption DEF EditorInv, Counts, Pushes
<1>6. asked' \in 0..MaxSent /\ due' + listings' + Cardinality(Unserved(asks')) <= asked'
  BY <1>1, <1>3, <1>4, <1>5
<1> QED
  BY <1>6 DEF Counts

LEMMA CountsServed ==
  ASSUME EditorInv, NEW s \in Calls, Editor!Serve(s)
  PROVE  Counts'
<1>1. PICK reply, row : asks' = [asks EXCEPT ![s].reply = reply, ![s].row = row, ![s].done = TRUE]
  BY DEF Editor!Serve
<1>2. asks[s].kind # "free" /\ asks[s].reply = None /\ due' = due + 1 /\ UNCHANGED <<listings, asked>>
  BY DEF Editor!Serve
<1>3. asks \in [Calls -> Ask] /\ AskSound(asks[s])
  BY AsksAre
<1>4. s \in Unserved(asks)
  BY <1>2, <1>3, PlatformAssumption DEF Unserved, AskSound
<1>5. asks'[s].done = TRUE /\ \A o \in Calls : o # s => asks'[o] = asks[o]
  BY <1>1, <1>3 DEF Ask
<1>6. Unserved(asks') \subseteq Unserved(asks) /\ s \notin Unserved(asks')
  BY <1>5 DEF Unserved
<1>7. Cardinality(Unserved(asks')) + 1 <= Cardinality(Unserved(asks))
  BY <1>4, <1>6, UnservedLess
<1>8. Cardinality(Unserved(asks)) \in Nat /\ Cardinality(Unserved(asks')) \in Nat
  BY UnservedFinite
<1>9. /\ asked \in 0..MaxSent /\ due \in Nat /\ listings \in Nat
      /\ due + listings + Cardinality(Unserved(asks)) <= asked
  BY DEF EditorInv, Counts, Pushes
<1>10. asked' \in 0..MaxSent /\ due' + listings' + Cardinality(Unserved(asks')) <= asked'
  BY <1>2, <1>7, <1>8, <1>9
<1> QED
  BY <1>10 DEF Counts

LEMMA CountsAnswered ==
  ASSUME EditorInv, UNCHANGED <<due, listings, asked>>, Unserved(asks') \subseteq Unserved(asks)
  PROVE  Counts'
<1>1. Cardinality(Unserved(asks')) <= Cardinality(Unserved(asks))
  BY UnservedLess
<1>2. Cardinality(Unserved(asks)) \in Nat /\ Cardinality(Unserved(asks')) \in Nat
  BY UnservedFinite
<1>3. /\ asked \in 0..MaxSent /\ due \in Nat /\ listings \in Nat
      /\ due + listings + Cardinality(Unserved(asks)) <= asked
  BY DEF EditorInv, Counts, Pushes
<1>4. asked' \in 0..MaxSent /\ due' + listings' + Cardinality(Unserved(asks')) <= asked'
  BY <1>1, <1>2, <1>3
<1> QED
  BY <1>4 DEF Counts

LEMMA CountsPushed ==
  ASSUME EditorInv, Editor!pushPolicyToEngine
  PROVE  Counts'
<1>1. due > 0 /\ due' = due - 1 /\ listings' = listings + 1 /\ asked' = asked /\ asks' = asks
  BY DEF Editor!pushPolicyToEngine
<1>2. Cardinality(Unserved(asks)) \in Nat
  BY UnservedFinite
<1>3. /\ asked \in 0..MaxSent /\ due \in Nat /\ listings \in Nat
      /\ due + listings + Cardinality(Unserved(asks)) <= asked
  BY DEF EditorInv, Counts, Pushes
<1>4. asked' \in 0..MaxSent /\ due' + listings' + Cardinality(Unserved(asks')) <= asked'
  BY <1>1, <1>2, <1>3
<1> QED
  BY <1>4 DEF Counts

LEMMA EditorStarts ==
  ASSUME Editor!Init
  PROVE  EditorInv
<1>1. /\ policies = <<>> /\ shown = None /\ asks = [s \in Calls |-> Editor!Free] /\ torn = FALSE
      /\ due = 0 /\ texts = {} /\ engine = <<>> /\ listings = 0 /\ inForce = 0 /\ asked = 0
  BY DEF Editor!Init
<1>2. EditorPage
  BY <1>1 DEF EditorPage
<1>3. Editor!compileToEngineYaml(<<>>) = <<>>
  <2>1. PICK g : IsText(<<>>, g, 0) /\ Editor!compileToEngineYaml(<<>>) = g[0]
    BY Compiled
  <2>2. g[0] = <<>>
    BY <2>1 DEF IsText, Step1
  <2> QED
    BY <2>1, <2>2
<1>4. Pushes
  BY <1>1, <1>3 DEF Pushes
<1>5. Unserved(asks) = {}
  BY <1>1, FreeAsk DEF Unserved
<1>6. Cardinality(Unserved(asks)) = 0
  BY <1>5, FS_EmptySet
<1>7. Counts
  BY <1>1, <1>6, PlatformAssumption DEF Counts
<1> QED
  BY <1>2, <1>4, <1>7 DEF EditorInv

\* A request that is sent.
LEMMA SendKeeps ==
  ASSUME EditorInv, NEW s \in Calls, NEW r, Editor!Send(s, r), EditorPage'
  PROVE  EditorInv'
<1>1. Counts'
  BY CountsSent
<1>2. UNCHANGED <<policies, due, texts, engine, listings, inForce>>
  BY DEF Editor!Send, Editor!sync
<1>3. Pushes'
  BY <1>2, PushesStay DEF EditorInv
<1> QED
  BY <1>1, <1>3 DEF EditorInv

LEMMA EditorKeeps ==
  ASSUME EditorInv, [Editor!Next]_(Editor!vars)
  PROVE  EditorInv'
<1>1. CASE Editor!fetchPolicies
  <2>1. EditorPage'
    BY <1>1, PageLoads
  <2>2. UNCHANGED <<policies, due, texts, engine, listings, inForce, asks, asked>>
    BY <1>1 DEF Editor!fetchPolicies, Editor!sync
  <2>3. Pushes'
    BY <2>2, PushesStay DEF EditorInv
  <2>4. Counts'
    BY <2>2, CountsAnswered
  <2> QED
    BY <2>1, <2>3, <2>4 DEF EditorInv
<1>2. ASSUME NEW s \in Calls, NEW d \in RuleDrafts, Editor!handleCreate(s, d)
      PROVE  EditorInv'
  <2>1. EditorPage'
    BY <1>2, PageCreates
  <2>2. \E r : Editor!Send(s, r)
    BY <1>2 DEF Editor!handleCreate
  <2> QED
    BY <2>1, <2>2, SendKeeps
<1>3. ASSUME NEW s \in Calls, NEW id \in TableRows, Editor!handleToggleActive(s, id)
      PROVE  EditorInv'
  <2>1. EditorPage'
    BY <1>3, PageToggles
  <2>2. \E r : Editor!Send(s, r)
    BY <1>3 DEF Editor!handleToggleActive
  <2> QED
    BY <2>1, <2>2, SendKeeps
<1>4. ASSUME NEW s \in Calls, NEW id \in TableRows, Editor!handleDelete(s, id)
      PROVE  EditorInv'
  <2>1. EditorPage'
    BY <1>4, PageDeletes
  <2>2. \E r : Editor!Send(s, r)
    BY <1>4 DEF Editor!handleDelete
  <2> QED
    BY <2>1, <2>2, SendKeeps
<1>5. ASSUME NEW s \in Calls, NEW id \in TableRows, NEW d \in RuleDrafts, Editor!saveEdit(s, id, d)
      PROVE  EditorInv'
  <2>1. EditorPage'
    BY <1>5, PageSaves
  <2>2. \E r : Editor!Send(s, r)
    BY <1>5 DEF Editor!saveEdit
  <2> QED
    BY <2>1, <2>2, SendKeeps
<1>6. ASSUME NEW s \in Calls, Editor!Serve(s)
      PROVE  EditorInv'
  BY <1>6, PageServed, PushesServed, CountsServed DEF EditorInv
<1>7. ASSUME NEW s \in Calls, Editor!Refuse(s)
      PROVE  EditorInv'
  <2>1. EditorPage'
    BY <1>7, PageRefused
  <2>2. UNCHANGED <<policies, due, texts, engine, listings, inForce, asked>>
    BY <1>7 DEF Editor!Refuse, Editor!sync
  <2>3. PICK reply : asks' = [asks EXCEPT ![s].reply = reply]
    BY <1>7 DEF Editor!Refuse
  <2>4. \A o \in Calls : asks'[o].kind = asks[o].kind /\ asks'[o].done = asks[o].done
    BY <2>3, AsksAre DEF Ask
  <2>5. Unserved(asks') \subseteq Unserved(asks)
    BY <2>4 DEF Unserved
  <2>6. Pushes'
    BY <2>2, PushesStay DEF EditorInv
  <2>7. Counts'
    BY <2>2, <2>5, CountsAnswered
  <2> QED
    BY <2>1, <2>6, <2>7 DEF EditorInv
<1>8. ASSUME NEW s \in Calls, Editor!Receive(s)
      PROVE  EditorInv'
  <2>1. EditorPage'
    BY <1>8, PageReceives
  <2>2. /\ UNCHANGED <<policies, due, texts, engine, listings, inForce, asked>>
        /\ asks' = [asks EXCEPT ![s] = Editor!Free]
    BY <1>8 DEF Editor!Receive, Editor!sync
  <2>3. Unserved(asks') \subseteq Unserved(asks)
    BY <2>2, AsksAre, FreeAsk DEF Unserved
  <2>4. Pushes'
    BY <2>2, PushesStay DEF EditorInv
  <2>5. Counts'
    BY <2>2, <2>3, CountsAnswered
  <2> QED
    BY <2>1, <2>4, <2>5 DEF EditorInv
<1>9. CASE Editor!pushPolicyToEngine
  <2>1. UNCHANGED <<policies, shown, asks, torn>>
    BY <1>9 DEF Editor!pushPolicyToEngine
  <2>2. EditorPage'
    BY <2>1 DEF EditorInv, EditorPage
  <2> QED
    BY <1>9, <2>2, PushesListed, CountsPushed DEF EditorInv
<1>10. CASE Editor!doPut
  <2>1. UNCHANGED <<policies, shown, asks, torn, due, listings, asked>>
    BY <1>10 DEF Editor!doPut
  <2>2. EditorPage'
    BY <2>1 DEF EditorInv, EditorPage
  <2>3. Counts'
    BY <2>1, CountsAnswered
  <2> QED
    BY <1>10, <2>2, <2>3, PushesPut DEF EditorInv
<1>11. CASE UNCHANGED Editor!vars
  <2>1. UNCHANGED <<policies, shown, asks, torn, due, texts, engine, listings, inForce, asked>>
    BY <1>11 DEF Editor!vars
  <2>2. EditorPage'
    BY <2>1 DEF EditorInv, EditorPage
  <2>3. Pushes'
    BY <2>1, PushesStay DEF EditorInv
  <2>4. Counts'
    BY <2>1, CountsAnswered
  <2> QED
    BY <2>2, <2>3, <2>4 DEF EditorInv
<1> QED
  BY <1>1, <1>2, <1>3, <1>4, <1>5, <1>6, <1>7, <1>8, <1>9, <1>10, <1>11 DEF Editor!Next

\* The engine goes by the first rule that matches.
LEMMA EngineGoesBy ==
  ASSUME engine \in Seq(EditorRule), NEW name
  PROVE  /\ NoneHits(engine, name) => Editor!EngineSays(name) = "deny"
         /\ \A d : FirstHits(engine, name, d) => Editor!EngineSays(name) = d
<1>1. PICK R : R = [i \in DOMAIN engine |-> [match |-> engine[i].glob, actor |-> {"agent"},
                                             decision |-> engine[i].decision]]
  OBVIOUS
<1>2. PICK p : p = [rules |-> R, scopes |-> [a \in {"agent"} |-> None]]
  OBVIOUS
<1>3. p.rules = R /\ p.scopes["agent"] = None
  BY <1>2
<1>4. PICK e : e = Editor!PE!EvaluateAgent(p, "agent", name, 100)
  OBVIOUS
<1>5. Editor!EngineSays(name) = CASE e.compute -> "compute" [] e.review -> "human_review"
                                  [] ~ e.compute /\ ~ e.review /\ e.allowed -> "allow" [] OTHER -> "deny"
  BY <1>1, <1>2, <1>4 DEF Editor!EngineSays
<1>6. /\ Len(engine) \in Nat /\ DOMAIN engine = 1..Len(engine) /\ DOMAIN R = 1..Len(engine)
      /\ \A k \in 1..Len(engine) : /\ R[k].match = engine[k].glob /\ R[k].actor = {"agent"}
                                   /\ R[k].decision = engine[k].decision
      /\ \A k \in 1..Len(engine) : engine[k] \in EditorRule
  BY <1>1
<1>7. \A k \in 1..Len(engine) : engine[k].decision \in {"allow", "deny", "human_review", "compute"}
  BY <1>6 DEF EditorRule
<1>8. Editor!PE!Matching(p, "agent", name) = {k \in 1..Len(engine) : name \in engine[k].glob}
  BY <1>3, <1>6, <1>7 DEF Editor!PE!Matching, Editor!PE!matchAction, Editor!PE!RuleDecisions
<1>9. PICK M : M = {k \in 1..Len(engine) : name \in engine[k].glob}
  OBVIOUS
<1>10. e = IF M # {} THEN Editor!PE!RuleDecision[R[Editor!PE!Min(M)].decision] ELSE Editor!PE!Deny
  BY <1>3, <1>4, <1>8, <1>9 DEF Editor!PE!EvaluateAgent
<1>11. ASSUME NoneHits(engine, name)
       PROVE  Editor!EngineSays(name) = "deny"
  <2>1. M = {}
    BY <1>9, <1>11 DEF NoneHits
  <2>2. ~e.compute /\ ~e.review /\ ~e.allowed
    BY <1>10, <2>1 DEF Editor!PE!Deny, Editor!PE!Decision
  <2> QED
    BY <1>5, <2>2
<1>12. ASSUME NEW d, FirstHits(engine, name, d)
       PROVE  Editor!EngineSays(name) = d
  <2>1. PICK k \in 1..Len(engine) : /\ name \in engine[k].glob /\ engine[k].decision = d
                                    /\ \A j \in 1..Len(engine) : j < k => name \notin engine[j].glob
    BY <1>12 DEF FirstHits
  <2>2. k \in M /\ \A y \in M : k <= y
    BY <1>6, <1>9, <2>1
  <2>3. Editor!PE!Min(M) = k
    <3>1. \A x \in M : (\A y \in M : x =< y) => x = k
      BY <1>6, <1>9, <2>2
    <3> QED
      BY <2>2, <3>1 DEF Editor!PE!Min
  <2>4. e = Editor!PE!RuleDecision[d]
    BY <1>6, <1>10, <2>1, <2>2, <2>3
  <2>5. d \in {"allow", "deny", "human_review", "compute"}
    BY <1>7, <2>1
  <2>6. CASE d = "allow"
    <3>1. e = Editor!PE!Allow
      BY <2>4, <2>6 DEF Editor!PE!RuleDecision
    <3>2. ~e.compute /\ ~e.review /\ e.allowed
      BY <3>1 DEF Editor!PE!Allow, Editor!PE!Decision
    <3> QED
      BY <1>5, <2>6, <3>2
  <2>7. CASE d = "deny"
    <3>1. e = Editor!PE!Deny
      BY <2>4, <2>7 DEF Editor!PE!RuleDecision
    <3>2. ~e.compute /\ ~e.review /\ ~e.allowed
      BY <3>1 DEF Editor!PE!Deny, Editor!PE!Decision
    <3> QED
      BY <1>5, <2>7, <3>2
  <2>8. CASE d = "human_review"
    <3>1. e = Editor!PE!HumanReview
      BY <2>4, <2>8 DEF Editor!PE!RuleDecision
    <3>2. ~e.compute /\ e.review
      BY <3>1 DEF Editor!PE!HumanReview, Editor!PE!Decision
    <3> QED
      BY <1>5, <2>8, <3>2
  <2>9. CASE d = "compute"
    <3>1. e = Editor!PE!Compute
      BY <2>4, <2>9 DEF Editor!PE!RuleDecision
    <3>2. e.compute /\ ~e.review
      BY <3>1 DEF Editor!PE!Compute, Editor!PE!Decision
    <3> QED
      BY <1>5, <2>9, <3>2
  <2> QED
    BY <2>5, <2>6, <2>7, <2>8, <2>9
<1> QED
  BY <1>11, <1>12

\* The first of some places of a list is there, and before the others.
LEMMA FirstOf ==
  ASSUME NEW S, S \subseteq Nat, S # {}
  PROVE  /\ Editor!First(S) \in S /\ \A j \in S : Editor!First(S) <= j
         /\ \A m \in S : (\A j \in S : m <= j) => m = Editor!First(S)
<1>1. PICK m \in S : \A x \in S : ~(<<x, m>> \in OpToRel(<, Nat))
  BY NatLessThanWellFounded, WFMin
<1>2. \A x \in S : m <= x
  <2>1. \A x \in S : x \in Nat /\ m \in Nat /\ ~(x < m)
    BY <1>1 DEF OpToRel
  <2> QED
    BY <2>1
<1>3. Editor!First(S) \in S /\ \A j \in S : Editor!First(S) <= j
  BY <1>1, <1>2 DEF Editor!First
<1>4. \A k \in S : (\A j \in S : k <= j) => k = Editor!First(S)
  <2> SUFFICES ASSUME NEW k \in S, \A j \in S : k <= j
               PROVE  k = Editor!First(S)
    OBVIOUS
  <2>1. k <= Editor!First(S) /\ Editor!First(S) <= k /\ k \in Nat /\ Editor!First(S) \in Nat
    BY <1>3
  <2> QED
    BY <2>1
<1> QED
  BY <1>3, <1>4

LEMMA PageIsTable ==
  ASSUME EditorInv, shown # None, \A s \in Calls : asks[s] = Editor!Free, ~torn
  PROVE  shown = policies /\ Listing(policies)
<1>1. PageSound(asks, shown, policies, FALSE)
  BY DEF EditorInv, EditorPage
<1>2. \A s \in Calls : asks[s].kind = "free"
  BY FreeAsk
<1> QED
  BY <1>1, <1>2, SettledAlike DEF PageSound

LEMMA SettledPushed ==
  ASSUME EditorInv, Editor!Settled
  PROVE  shown = policies /\ Listing(shown) /\ engine = Editor!compileToEngineYaml(shown)
<1>1. shown = policies /\ Listing(policies)
  BY PageIsTable DEF Editor!Settled
<1>2. engine = Editor!compileToEngineYaml(policies)
  BY DEF EditorInv, Pushes, Editor!Settled
<1> QED
  BY <1>1, <1>2

\* The rules of a list that match, and the first of them.
LEMMA HitsAre ==
  ASSUME NEW rules \in Seq(EditorRule), NEW name
  PROVE  /\ Editor!Hits(rules, name) = {k \in 1..Len(rules) : name \in rules[k].glob}
         /\ Editor!Hits(rules, name) \subseteq Nat
         /\ Editor!Hits(rules, name) = {} <=> NoneHits(rules, name)
         /\ ~NoneHits(rules, name) => FirstHits(rules, name, rules[Editor!First(Editor!Hits(rules, name))].decision)
<1>1. PICK H : H = Editor!Hits(rules, name)
  OBVIOUS
<1>2. H = {k \in 1..Len(rules) : name \in rules[k].glob} /\ H \subseteq Nat
  BY <1>1 DEF Editor!Hits
<1>3. H = {} <=> NoneHits(rules, name)
  BY <1>2 DEF NoneHits
<1>4. ASSUME H # {}
      PROVE  FirstHits(rules, name, rules[Editor!First(H)].decision)
  <2>1. Editor!First(H) \in H /\ \A j \in H : Editor!First(H) <= j
    BY <1>2, <1>4, FirstOf
  <2>2. PICK k \in H : k = Editor!First(H) /\ \A j \in H : k <= j
    BY <2>1
  <2>3. \A j \in 1..Len(rules) : j < k => j \notin H
    BY <1>2, <2>2
  <2> QED
    BY <1>2, <2>2, <2>3 DEF FirstHits
<1> QED
  BY <1>1, <1>2, <1>3, <1>4

\* The rule that decides in a list of policies.
TopHits(P, name) == {i \in DOMAIN P : P[i].active /\ Editor!Hits(P[i].rules, name) # {}}

LEMMA PageDecides ==
  ASSUME EditorInv, Editor!Settled, NEW name,
         NEW rules, rules = shown[Editor!First(TopHits(shown, name))].rules
  PROVE  Editor!EngineSays(name) = IF TopHits(shown, name) = {} THEN "deny"
                                   ELSE rules[Editor!First(Editor!Hits(rules, name))].decision
<1>1. PICK P : P = shown /\ Listing(P) /\ engine = Editor!compileToEngineYaml(P)
  BY SettledPushed
<1>2. Len(P) \in Nat /\ DOMAIN P = 1..Len(P)
  BY <1>1, Rows
<1>3. \A i \in 1..Len(P) : P[i].rules \in Seq(EditorRule)
  BY <1>1, PolicyRules
<1>4. TopHits(P, name) = Deciding(P, name)
  BY <1>2, <1>3, HitsAre DEF TopHits, Deciding
<1>5. PICK D : D = Deciding(P, name)
  OBVIOUS
<1>6. D \subseteq 1..Len(P) /\ D \subseteq Nat
  BY <1>2, <1>5 DEF Deciding
<1>7. PICK d : d = rules[Editor!First(Editor!Hits(rules, name))].decision
  OBVIOUS
<1>8. Decides(P, name, d)
  <2> SUFFICES ASSUME NEW m \in D, \A h \in D : m <= h
               PROVE  FirstHits(P[m].rules, name, d)
    BY <1>5 DEF Decides
  <2>1. m = Editor!First(D)
    BY <1>6, FirstOf
  <2>2. rules = P[m].rules
    BY <1>1, <1>4, <1>5, <2>1
  <2>3. rules \in Seq(EditorRule) /\ ~NoneHits(rules, name)
    BY <1>3, <1>5, <1>6, <2>2 DEF Deciding
  <2>4. FirstHits(rules, name, d)
    BY <1>7, <2>3, HitsAre
  <2> QED
    BY <2>2, <2>4
<1>9. /\ engine \in Seq(EditorRule)
      /\ IF D = {} THEN NoneHits(engine, name) ELSE FirstHits(engine, name, d)
  BY <1>1, <1>5, <1>8, TopDecides
<1>10. Editor!EngineSays(name) = IF D = {} THEN "deny" ELSE d
  BY <1>9, EngineGoesBy
<1> QED
  BY <1>1, <1>4, <1>5, <1>7, <1>10

LEMMA EditorCounts == \A S : Editor!Cardinality(S) = Cardinality(S)
BY DEF Editor!Cardinality, Cardinality

LEMMA PlainPredicted ==
  ASSUME EditorInv, Editor!Settled, Editor!OneActive, NEW name,
         NEW rules, rules = Editor!ActiveRules,
         \A i \in DOMAIN rules : name \in rules[i].regex <=> name \in rules[i].glob,
         \E i \in DOMAIN rules : name \in rules[i].glob
  PROVE  Editor!testPolicy(rules, name) = Editor!EngineSays(name)
<1>1. PICK P : P = shown /\ Listing(P)
  BY SettledPushed
<1>2. Len(P) \in Nat /\ DOMAIN P = 1..Len(P)
  BY <1>1, Rows
<1>3. PICK a : {i \in DOMAIN P : P[i].active} = {a}
  <2>1. Cardinality({i \in DOMAIN P : P[i].active}) = 1
    BY <1>1, EditorCounts DEF Editor!OneActive
  <2>2. IsFiniteSet(1..Len(P))
    BY <1>2, FS_Interval
  <2>3. IsFiniteSet({i \in DOMAIN P : P[i].active})
    BY <1>2, <2>2, FS_Subset
  <2> QED
    BY <2>1, <2>3, FS_Singleton
<1>4. a \in 1..Len(P) /\ P[a].active /\ \A j \in DOMAIN P : P[j].active => j = a
  BY <1>2, <1>3
<1>5. (CHOOSE j \in DOMAIN P : P[j].active) = a
  BY <1>2, <1>4
<1>6. rules = P[a].rules
  BY <1>1, <1>5 DEF Editor!ActiveRules
<1>7. rules \in Seq(EditorRule)
  BY <1>1, <1>4, <1>6, PolicyRules
<1>8. PICK H : H = Editor!Hits(rules, name)
  OBVIOUS
<1>9. H # {} /\ H = {i \in DOMAIN rules : name \in rules[i].regex}
  BY <1>8 DEF Editor!Hits
<1>10. Editor!testPolicy(rules, name) = rules[Editor!First(H)].decision
  BY <1>9 DEF Editor!testPolicy
<1>11. TopHits(P, name) = {a}
  BY <1>2, <1>4, <1>6, <1>8, <1>9 DEF TopHits
<1>12. a \in Nat /\ Editor!First({a}) = a
  BY <1>2, <1>4 DEF Editor!First
<1>13. rules = shown[Editor!First(TopHits(shown, name))].rules
  BY <1>1, <1>6, <1>11, <1>12
<1>14. Editor!EngineSays(name) = rules[Editor!First(Editor!Hits(rules, name))].decision
  BY <1>1, <1>11, <1>13, PageDecides
<1> QED
  BY <1>8, <1>10, <1>14

LEMMA EditorHolds ==
  ASSUME EditorInv
  PROVE  Editor!PageShowsTable /\ Editor!PageOrderDecides /\ Editor!TestPredictsPlain
<1>1. Editor!PageShowsTable
  BY PageIsTable DEF Editor!PageShowsTable
<1>2. Editor!PageOrderDecides
  BY PageDecides DEF Editor!PageOrderDecides, TopHits
<1>3. Editor!TestPredictsPlain
  BY PlainPredicted DEF Editor!TestPredictsPlain
<1> QED
  BY <1>1, <1>2, <1>3

---------------------------------------------------------------------------
(* The theorems about the pages                                          *)

\* Which part is there never changes, and only that part moves.
LEMMA PartMoves ==
  ASSUME [PlatformNext]_platformVars
  PROVE  /\ part' = part
         /\ part = "resources" => [Resources!Next]_(Resources!vars)
         /\ part = "playground" => [Playground!Next]_(Playground!vars)
         /\ part = "editor" => [Editor!Next]_(Editor!vars)
<1>1. CASE PlatformNext
  BY <1>1 DEF PlatformNext, GatewayStep, AccountsStep, BillingStep, ResourcesStep, PlaygroundStep,
              SafetyStep, RulesStep, EditorStep, InventoryStep
<1>2. CASE UNCHANGED platformVars
  BY <1>2 DEF platformVars, resourcesVars, playgroundVars, editorVars, Resources!vars,
              Playground!vars, Editor!vars, Editor!sync
<1> QED
  BY <1>1, <1>2

LEMMA PlaygroundRuns == PlatformSpec => [](part = "playground" => PlaygroundInv)
<1>1. PlatformInit => (part = "playground" => PlaygroundInv)
  BY PlaygroundStarts DEF PlatformInit
<1>2. (part = "playground" => PlaygroundInv) /\ [PlatformNext]_platformVars => (part = "playground" => PlaygroundInv)'
  BY PlaygroundKeeps, PartMoves
<1> QED
  BY <1>1, <1>2, PTL DEF PlatformSpec

\* The link of the sandbox page is of its form whenever the router rests, one
\* round of the router settles both, and a form read from the address bar has
\* no scenario (sandbox/page.tsx): for any texts, scenarios and requests.
THEOREM FormAndLinkAgree == PlatformSpec => FormFollowsLink
<1>1. (part = "playground" => PlaygroundInv) /\ [PlatformNext]_platformVars =>
        [part = "playground" =>
           Playground!Settles /\ Playground!ClearsChip /\ Playground!LinkIsForm]_platformVars
  BY PlaygroundKeeps, PartMoves
<1> QED
  BY <1>1, PlaygroundRuns, PTL DEF PlatformSpec, FormFollowsLink

LEMMA ResourcesRun == PlatformSpec => [](part = "resources" => ResourcesInv)
<1>1. PlatformInit => (part = "resources" => ResourcesInv)
  BY ResourcesStarts DEF PlatformInit
<1>2. (part = "resources" => ResourcesInv) /\ [PlatformNext]_platformVars => (part = "resources" => ResourcesInv)'
  BY ResourcesKeeps, PartMoves
<1> QED
  BY <1>1, <1>2, PTL DEF PlatformSpec

\* A request to retire a row is about one that the key or agent page shows as
\* active, whatever was confirmed before, and a row whose creation was
\* acknowledged stays listed while it is live: for any numbers of rows, tabs
\* and requests in flight.
THEOREM PagesAreTruthful == PlatformSpec => []PagesTruthful
<1>1. (part = "resources" => ResourcesInv) => PagesTruthful
  BY PagesTell DEF PagesTruthful
<1> QED
  BY <1>1, ResourcesRun, PTL

\* On the key page and the agents page no answer shows a revoked row as active
\* again, but the answer to that row's own creation; and on the key page and
\* the dashboard only the user's closing it takes a new key's secret off the
\* screen, as long as the tab never had two creates under way at once
\* (handleCreated, handleCreate, fetchKeys): for any numbers of rows, tabs and
\* requests in flight.
THEOREM PagesKeepShown == PlatformSpec => PagesKeep
<1>1. (part = "resources" => ResourcesInv) /\ [PlatformNext]_platformVars =>
        [part = "resources" => Resources!KeepsRevoked /\ Resources!KeepsSecret]_platformVars
  BY PagesStay, PartMoves
<1> QED
  BY <1>1, ResourcesRun, PTL DEF PlatformSpec, PagesKeep

LEMMA EditorRuns == PlatformSpec => [](part = "editor" => EditorInv)
<1>1. PlatformInit => (part = "editor" => EditorInv)
  BY EditorStarts DEF PlatformInit
<1>2. (part = "editor" => EditorInv) /\ [PlatformNext]_platformVars => (part = "editor" => EditorInv)'
  BY EditorKeeps, PartMoves
<1> QED
  BY <1>1, <1>2, PTL DEF PlatformSpec

\* With all answers in, the policies page shows the table row for row, unless
\* requests for one policy overlapped or an outcome was not told; once the pushes
\* are through, the engine decides by the page read from top to bottom, and the
\* page's own test tells the same of plain patterns (handleCreate,
\* handleToggleActive, saveEdit, handleDelete, pushPolicyToEngine, testPolicy):
\* for any policies, rules, names and numbers of requests under way.
THEOREM PageAndEngineAgree == PlatformSpec => []EditorTruthful
<1>1. (part = "editor" => EditorInv) => EditorTruthful
  BY EditorHolds DEF EditorTruthful
<1> QED
  BY <1>1, EditorRuns, PTL
=============================================================================
