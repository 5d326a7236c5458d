---------------------------- MODULE OAuthServer ----------------------------
(***************************************************************************)
(* The OAuth server for MCP clients (engine/internal/mcpauth/server.go).   *)
(* Each SQL statement of a handler is one step, and handlers overlap.      *)
(* Codes and refresh tokens are numbered as they are issued.  What a call  *)
(* presents beside them (PKCE verifier, redirect URI; client secret) is    *)
(* right or wrong, where it is checked.  No scope is the empty set.        *)
(***************************************************************************)
EXTENDS Naturals, Sequences, FiniteSets

CONSTANTS Clients,
          SupportedScopes,        \* the scopes the server grants
          Asked,                  \* sets of scopes clients register and ask for
          Slots,                  \* calls under way at a time
          MaxCodes, MaxTokens,    \* bounds: rows ever inserted
          MaxCalls                \*         calls begun

VARIABLES client,   \* oauth_clients
          code,     \* oauth_codes, with those deleted
          token,    \* oauth_tokens, with those deleted
          call,     \* the handlers' local variables
          ended,    \* history: the grants whose use or revocation was answered
          begun,    \* calls begun so far (for the bound)
          fails     \* whether statements fail whose errors the code ignores

vars == <<client, code, token, call, ended, begun, fails>>

Free == [kind |-> "free", pc |-> "", client |-> "", grant |-> <<>>, scope |-> {},
         late |-> FALSE, gone |-> FALSE]
Code(k) == <<"code", k>>
Token(t) == <<"token", t>>

Init ==
  /\ client = [c \in Clients |-> [status |-> "none", scopes |-> {}, secret |-> FALSE]]
  /\ code = <<>> /\ token = <<>>
  /\ call = [s \in Slots |-> Free]
  /\ ended = {} /\ begun = 0
  /\ fails \in BOOLEAN

---------------------------------------------------------------------------
(* Clients and scopes.                                                     *)

handleRegisterClient_AnyScope(c, scopes, secret) ==
  /\ client[c].status = "none"
  /\ client' = [client EXCEPT ![c] = [status |-> "live", scopes |-> scopes, secret |-> secret]]
  /\ UNCHANGED <<code, token, call, ended, begun, fails>>
\* A scope the server does not support is refused at registration.
handleRegisterClient(c, scopes, secret) ==
  /\ client[c].status = "none"
  /\ scopes \subseteq SupportedScopes
  /\ client' = [client EXCEPT ![c] = [status |-> "live", scopes |-> scopes, secret |-> secret]]
  /\ UNCHANGED <<code, token, call, ended, begun, fails>>

Ceiling(c) == IF client[c].scopes = {} THEN SupportedScopes ELSE client[c].scopes

\* The scope that is granted, if any: nothing is narrowed silently.
grantableScope(asked, c) ==
  IF asked = {} THEN {Ceiling(c) \cap SupportedScopes}
  ELSE {S \in {asked} : S \subseteq SupportedScopes /\ S \subseteq Ceiling(c)}

---------------------------------------------------------------------------
(* A call begins with its first statement.                                 *)

Revoked(c) == client[c].status = "revoked"

Begin(s, kind, pc, c, grant, scope) ==
  /\ call[s] = Free /\ begun < MaxCalls
  /\ begun' = begun + 1
  /\ call' = [call EXCEPT ![s] =
       [kind |-> kind, pc |-> pc, client |-> c, grant |-> grant, scope |-> scope,
        late |-> grant \in ended, gone |-> Revoked(c)]]
Goto(s, pc) == call' = [call EXCEPT ![s].pc = pc]
\* The answer: a "code", a "token", or that a token is "active".
Answer(s, what) == Goto(s, what)
Answered == {"token", "active", "code"}
\* Everything else that ends a call: an error, a plain 200, an inactive token.
End(s) == call' = [call EXCEPT ![s] = Free]

Return(s) ==
  /\ call[s].pc \in Answered
  /\ End(s)
  /\ UNCHANGED <<client, code, token, ended, begun, fails>>

\* getLiveClient is the first statement here, the scope is checked on what it read.
handleAuthorize(s, c, asked) ==
  /\ client[c].status = "live"
  /\ \E scope \in grantableScope(asked, c) :
       Begin(s, "authorize", "insert", c, <<>>, scope)
  /\ UNCHANGED <<client, code, token, ended, fails>>

InsertCode(s) ==
  /\ call[s].pc = "insert" /\ Len(code) < MaxCodes
  /\ code' = Append(code, [client |-> call[s].client, scope |-> call[s].scope,
                           row |-> TRUE, expired |-> FALSE])
  /\ Answer(s, "code")
  /\ UNCHANGED <<client, token, ended, begun, fails>>

---------------------------------------------------------------------------
(* The token endpoint.                                                     *)

\* SELECT of the code.
handleAuthCodeExchange(s, k) ==
  /\ code[k].row
  /\ Begin(s, "exchange", "delete", code[k].client, Code(k), code[k].scope)
  /\ UNCHANGED <<client, code, token, ended, fails>>

DeleteCode_AfterProof(s, proof) ==
  /\ call[s].pc = "delete"
  /\ LET k == call[s].grant[2]
         good == ~ code[k].expired /\ proof
     IN  /\ code' = IF good THEN [code EXCEPT ![k].row = FALSE] ELSE code
         /\ IF good THEN Goto(s, "client") /\ UNCHANGED ended
                    ELSE End(s) /\ ended' = ended \cup {call[s].grant}
  /\ UNCHANGED <<client, token, begun, fails>>
\* The code is deleted before anything about the call is checked; the error of
\* the statement, and whether there was a row left, are not looked at.
DeleteCode(s, proof) ==
  /\ call[s].pc = "delete"
  /\ LET k == call[s].grant[2] IN
       /\ \/ code' = [code EXCEPT ![k].row = FALSE]
          \/ fails /\ code' = code
       /\ IF ~ code[k].expired /\ proof
          THEN Goto(s, "client") /\ UNCHANGED ended
          ELSE End(s) /\ ended' = ended \cup {call[s].grant}
  /\ UNCHANGED <<client, token, begun, fails>>

handleClientCredentials(s, c, asked) ==
  /\ client[c].status = "live" /\ client[c].secret
  /\ \E scope \in grantableScope(asked, c) :
       Begin(s, "credentials", "issue", c, <<>>, scope)
  /\ UNCHANGED <<client, code, token, ended, fails>>

\* SELECT of the token: one that is revoked is refused.
handleRefreshToken(s, t) ==
  /\ token[t].row /\ ~ token[t].revoked
  /\ Begin(s, "refresh", IF token[t].age = 2 THEN "expired" ELSE "client",
           token[t].client, Token(t), token[t].scope)
  /\ UNCHANGED <<client, code, token, ended, fails>>

DeleteExpired(s) ==
  /\ call[s].pc = "expired"
  /\ \/ token' = [token EXCEPT ![call[s].grant[2]].row = FALSE]
     \/ fails /\ token' = token
  /\ End(s)
  /\ UNCHANGED <<client, code, ended, begun, fails>>

\* The client must be live, must authenticate when it has a secret, and the
\* scope is bound to its registration again.
getLiveClient(s, secret) ==
  LET c == call[s].client
      rotates == call[s].kind = "refresh"
      granted == grantableScope(call[s].scope, c)
  IN
  /\ call[s].pc = "client"
  /\ CASE client[c].status # "live" -> IF rotates THEN Goto(s, "killTokens") ELSE End(s)
       [] client[c].status = "live" /\ client[c].secret /\ ~ secret -> End(s)
       [] OTHER -> IF granted = {} THEN End(s)
                   ELSE call' = [call EXCEPT ![s].pc = IF rotates THEN "rotate" ELSE "issue",
                                             ![s].scope = CHOOSE S \in granted : TRUE]
  /\ ended' = IF call[s].kind = "exchange" /\ call'[s] = Free
              THEN ended \cup {call[s].grant} ELSE ended
  /\ UNCHANGED <<client, code, token, begun, fails>>

\* The old record is marked, not deleted.
Rotate(s) ==
  /\ call[s].pc = "rotate"
  /\ \/ token' = [token EXCEPT ![call[s].grant[2]].revoked = TRUE]
     \/ fails /\ token' = token
  /\ Goto(s, "issue")
  /\ UNCHANGED <<client, code, ended, begun, fails>>

\* INSERT of the token; when it fails the caller gets an error.
issueTokenResponse(s) ==
  /\ call[s].pc = "issue"
  /\ \/ /\ Len(token) < MaxTokens
        /\ token' = Append(token, [client |-> call[s].client, scope |-> call[s].scope,
                                   revoked |-> FALSE, age |-> 0, row |-> TRUE])
        /\ Answer(s, "token")
     \/ token' = token /\ End(s)
  /\ ended' = IF call[s].grant = <<>> THEN ended ELSE ended \cup {call[s].grant}
  /\ UNCHANGED <<client, code, begun, fails>>
---------------------------------------------------------------------------
(* Revocation.                                                             *)

\* One statement, and 200 whatever became of it.
handleRevoke(t) ==
  /\ \/ token' = [token EXCEPT ![t].revoked = TRUE]
     \/ fails /\ token' = token
  /\ ended' = ended \cup {Token(t)}
  /\ UNCHANGED <<client, code, call, begun, fails>>

\* The client's own row; a failure here is reported and ends the call.
handleRevokeClient(s, c) ==
  /\ client[c].status # "none"
  /\ client' = [client EXCEPT ![c].status = "revoked"]
  /\ Begin(s, "revokeClient", "killTokens", c, <<>>, {})
  /\ UNCHANGED <<code, token, ended, fails>>

\* Its tokens, then its codes.
revokeClientTokens(s) ==
  /\ call[s].pc = "killTokens"
  /\ \/ token' = [t \in DOMAIN token |-> IF token[t].client = call[s].client
                                         THEN [token[t] EXCEPT !.revoked = TRUE] ELSE token[t]]
     \/ fails /\ token' = token
  /\ Goto(s, "killCodes")
  /\ UNCHANGED <<client, code, ended, begun, fails>>
DeleteCodes(s) ==
  /\ call[s].pc = "killCodes"
  /\ \/ code' = [k \in DOMAIN code |-> IF code[k].client = call[s].client
                                       THEN [code[k] EXCEPT !.row = FALSE] ELSE code[k]]
     \/ fails /\ code' = code
  /\ End(s)
  /\ UNCHANGED <<client, token, ended, begun, fails>>

\* A resource server asks; its own authentication is the first statement.
handleIntrospect(s, t) ==
  /\ Begin(s, "introspect", "look", token[t].client, Token(t), {})
  /\ UNCHANGED <<client, code, token, ended, fails>>
LookUp(s) ==
  /\ call[s].pc = "look"
  /\ LET row == token[call[s].grant[2]] IN
       IF row.row /\ ~ row.revoked /\ row.age = 0 THEN Goto(s, "owner") ELSE End(s)
  /\ UNCHANGED <<client, code, token, ended, begun, fails>>

CheckOwner_Exists(s) ==
  /\ call[s].pc = "owner"
  /\ IF client[call[s].client].status # "none" THEN Answer(s, "active") ELSE End(s)
  /\ UNCHANGED <<client, code, token, ended, begun, fails>>
CheckOwner(s) ==
  /\ call[s].pc = "owner"
  /\ IF client[call[s].client].status = "live" THEN Answer(s, "active") ELSE End(s)
  /\ UNCHANGED <<client, code, token, ended, begun, fails>>

\* Time passes: codes expire, access tokens do (age 1), then refresh tokens (2).
Age ==
  /\ \/ \E t \in DOMAIN token : token[t].age < 2
     \/ \E k \in DOMAIN code : ~ code[k].expired
  /\ code' = [k \in DOMAIN code |-> [code[k] EXCEPT !.expired = TRUE]]
  /\ token' = [t \in DOMAIN token |-> [token[t] EXCEPT !.age = IF @ < 2 THEN @ + 1 ELSE 2]]
  /\ UNCHANGED <<client, call, ended, begun, fails>>

Next ==
  \/ \E c \in Clients, a \in Asked, b \in BOOLEAN : handleRegisterClient(c, a, b)
  \/ \E t \in DOMAIN token : handleRevoke(t)
  \/ Age
  \/ \E s \in Slots :
       \/ \E c \in Clients, a \in Asked : handleAuthorize(s, c, a) \/ handleClientCredentials(s, c, a)
       \/ \E k \in DOMAIN code : handleAuthCodeExchange(s, k)
       \/ \E t \in DOMAIN token : handleRefreshToken(s, t) \/ handleIntrospect(s, t)
       \/ \E c \in Clients : handleRevokeClient(s, c)
       \/ \E right \in BOOLEAN : DeleteCode(s, right) \/ getLiveClient(s, right)
       \/ InsertCode(s) \/ DeleteExpired(s) \/ Rotate(s) \/ issueTokenResponse(s)
       \/ revokeClientTokens(s) \/ DeleteCodes(s)
       \/ LookUp(s) \/ CheckOwner(s) \/ Return(s)

Spec == Init /\ [][Next]_vars
---------------------------------------------------------------------------

ClientRow == [status : {"none", "live", "revoked"}, scopes : SUBSET SupportedScopes,
              secret : BOOLEAN]
CodeRow == [client : Clients, scope : SUBSET SupportedScopes, row : BOOLEAN, expired : BOOLEAN]
TokenRow == [client : Clients, scope : SUBSET SupportedScopes, revoked : BOOLEAN,
             age : 0..2, row : BOOLEAN]
Issued == {Code(k) : k \in DOMAIN code} \cup {Token(t) : t \in DOMAIN token}

CallRow ==
  [kind : {"free", "authorize", "exchange", "credentials", "refresh", "revokeClient",
           "introspect"},
   pc : {"", "insert", "delete", "client", "rotate", "expired", "issue", "killTokens",
         "killCodes", "look", "owner"} \cup Answered,
   client : Clients \cup {""}, grant : {<<>>} \cup Issued, scope : SUBSET SupportedScopes,
   late : BOOLEAN, gone : BOOLEAN]

\* Every variable has its type.
TypeOK ==
  /\ client \in [Clients -> ClientRow]
  /\ code \in Seq(CodeRow) /\ token \in Seq(TokenRow)
  /\ call \in [Slots -> CallRow]
  /\ ended \subseteq Issued
  /\ begun \in Nat /\ fails \in BOOLEAN

\* A code yields tokens only to calls that had begun when it was first
\* presented and answered, with the right verifier or not; a refresh token only
\* to calls that had begun when it was first exchanged or revoked, and it is
\* reported active to no later call.  Statements that fail unseen are excepted
\* (handleAuthCodeExchange, handleRefreshToken, handleRevoke, handleIntrospect).
GrantsOnce ==
  ~ fails => \A s \in Slots : call[s].pc \in {"token", "active"} => ~ call[s].late

\* A client revoked before a call began gets no code and no token from it, and
\* none of its tokens is reported active, although a refresh that was under way
\* may have left it a token nobody marked and the marking itself may have
\* failed (handleRevokeClient, getLiveClient, handleIntrospect).
RevokedInert ==
  \A s \in Slots : call[s].pc \in {"token", "active", "code"} => ~ call[s].gone

\* No code or token goes beyond what the server supports and its client was
\* registered with, also at the end of a chain of refreshes (grantableScope).
WithinCeiling ==
  \A g \in {code[k] : k \in DOMAIN code} \cup {token[t] : t \in DOMAIN token} :
    g.scope \subseteq SupportedScopes \cap Ceiling(g.client)

\* What the server promises (mcpauth): the three above.
OAuthSafe == GrantsOnce /\ RevokedInert /\ WithinCeiling
============================================================================
