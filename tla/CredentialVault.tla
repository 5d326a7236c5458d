-------------------------- MODULE CredentialVault --------------------------
(***************************************************************************)
(* The OAuth token vault (engine/internal/vault/vault.go): the credential  *)
(* of one (agent, user, provider).  Each SQL statement and the exchange    *)
(* with the provider is one step.                                          *)
(*                                                                         *)
(* An access token is the Store it descends from, with the number of the   *)
(* refresh that made it.                                                   *)
(***************************************************************************)
EXTENDS Naturals

CONSTANTS Slots,      \* calls under way at a time
          MaxStores,  \* bounds: Store calls,
          MaxGets     \*         Get calls

VARIABLES row,       \* credential_vault; None when there is none
          call,      \* local variables
          stores,    \* Store calls so far
          gets,      \* Get calls so far (for the bound)
          last,      \* history: what was stored last, None after Revoke
          crossed    \* history: the last Store or Revoke came during a refresh

vars == <<row, call, stores, gets, last, crossed>>

None == [store |-> 0, nth |-> 0, refresh |-> FALSE, soon |-> FALSE]
Free == [pc |-> "free", entry |-> None, failed |-> FALSE]

Init ==
  /\ row = None /\ last = None
  /\ call = [s \in Slots |-> Free]
  /\ stores = 0 /\ gets = 0
  /\ crossed = FALSE

Refreshing == \E s \in Slots : call[s].pc \in {"exchange", "upsert", "select"}
Goto(s, pc, entry) == call' = [call EXCEPT ![s] = [@ EXCEPT !.pc = pc, !.entry = entry]]
Fail(s) == call' = [call EXCEPT ![s] = [@ EXCEPT !.pc = "answer", !.failed = TRUE]]

\* The upsert of Store.  The SELECT of the row's ID that follows changes nothing.
Store(refresh, soon) ==
  /\ stores < MaxStores
  /\ stores' = stores + 1
  /\ row' = [store |-> stores + 1, nth |-> 0, refresh |-> refresh, soon |-> soon]
  /\ last' = row'
  /\ crossed' = Refreshing
  /\ UNCHANGED <<call, gets>>

Revoke ==
  /\ row # None
  /\ row' = None /\ last' = None
  /\ crossed' = Refreshing
  /\ UNCHANGED <<call, stores, gets>>

shouldRefresh(entry) == entry.soon /\ entry.refresh

\* The SELECT of Get.
Get(s) ==
  /\ call[s].pc = "free" /\ row # None /\ gets < MaxGets
  /\ gets' = gets + 1
  /\ Goto(s, IF shouldRefresh(row) THEN "exchange" ELSE "answer", row)
  /\ UNCHANGED <<row, stores, last, crossed>>

\* The provider answers the refresh token; if not, the entry read is returned.
ExchangeRefreshToken(s) ==
  /\ call[s].pc = "exchange"
  /\ \/ Goto(s, "upsert", call[s].entry)
     \/ Fail(s)
  /\ UNCHANGED <<row, stores, gets, last, crossed>>

Fresh_Spent(s) == [call[s].entry EXCEPT !.nth = @ + 1, !.soon = FALSE, !.refresh = FALSE]
\* What is stored: a new access token, the same refresh token.
Fresh(s) == [call[s].entry EXCEPT !.nth = @ + 1, !.soon = FALSE]

\* The Store inside Get, whose failure is not reported.
StoreFresh(s) ==
  /\ call[s].pc = "upsert"
  /\ \/ row' = Fresh(s) /\ Goto(s, "select", call[s].entry)
     \/ row' = row /\ Fail(s)
  /\ UNCHANGED <<stores, gets, last, crossed>>

\* Its SELECT of the ID: without a row the entry read first is returned.
CanonicalID(s) ==
  /\ call[s].pc = "select"
  /\ IF row = None THEN Fail(s) ELSE Goto(s, "answer", Fresh(s))
  /\ UNCHANGED <<row, stores, gets, last, crossed>>

Return(s) ==
  /\ call[s].pc = "answer"
  /\ call' = [call EXCEPT ![s] = Free]
  /\ UNCHANGED <<row, stores, gets, last, crossed>>

\* The access token is about to expire.
Age ==
  /\ row # None /\ ~ row.soon
  /\ row' = [row EXCEPT !.soon = TRUE]
  /\ UNCHANGED <<call, stores, gets, last, crossed>>

Next ==
  \/ \E refresh \in BOOLEAN, soon \in BOOLEAN : Store(refresh, soon)
  \/ Revoke \/ Age
  \/ \E s \in Slots : \/ Get(s) \/ ExchangeRefreshToken(s) \/ StoreFresh(s)
                      \/ CanonicalID(s) \/ Return(s)

Spec == Init /\ [][Next]_vars
---------------------------------------------------------------------------

\* Every variable has its type.
TypeOK ==
  /\ \A e \in {row, last} \cup {call[s].entry : s \in Slots} :
       /\ e.store \in 0..MaxStores /\ e.nth \in 0..MaxGets
       /\ e.refresh \in BOOLEAN /\ e.soon \in BOOLEAN
  /\ \A s \in Slots : call[s].pc \in {"free", "exchange", "upsert", "select", "answer"}
  /\ crossed \in BOOLEAN

\* Automatic refreshes leave the row to whoever stored or revoked it last, and
\* keep its refresh token, unless one of them came between the reads and the
\* write of a refresh (Get, Store, Revoke).
LastWriterKept ==
  ~ crossed => row.store = last.store /\ row.refresh = last.refresh

\* However many calls refresh one credential, each returns a token that is not
\* about to expire, as long as the provider and the database answer: the stored
\* refresh token goes on working (Get, ExchangeRefreshToken).
AnswersFresh ==
  \A s \in Slots :
    /\ call[s].pc = "answer" /\ ~ call[s].failed /\ ~ crossed
    /\ call[s].entry.store = last.store /\ last.refresh
    => ~ call[s].entry.soon
============================================================================
