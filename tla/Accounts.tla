------------------------------ MODULE Accounts ------------------------------
(***************************************************************************)
(* The accounts of the platform: registration, e-mail verification,        *)
(* password reset, password login and OAuth login (platform/ui/lib/auth.ts,*)
(* lib/oauth.ts, lib/email.ts and the routes under app/api/auth).  Every   *)
(* route is a request process and every SQL statement, every mail and      *)
(* every call of a provider is a step of it, because the routes use no     *)
(* transaction.  A statement may be refused, or be executed and its answer *)
(* lost; the route then takes its catch branch.                            *)
(*                                                                         *)
(* A user is identified with its address: lelu_users.email is UNIQUE and   *)
(* no route changes it or deletes a user.                                  *)
(***************************************************************************)
EXTENDS Naturals, FiniteSets

CONSTANTS Emails,       \* normalised addresses
          Passwords,    \* passwords that pass the length checks
          Google,       \* accounts at Google
          GitHub,       \* accounts at GitHub
          Tokens,       \* random link tokens, each drawn once
          Requests,     \* request handlers that run at the same time
          MaxRequests,  \* bound: requests served in a behaviour
          EmailOn,      \* emailConfigured(): some mail provider is set up
          None

VARIABLES users,     \* lelu_users: address -> row, or None
          linked,    \* lelu_oauth_accounts: provider account -> address, or None
          links,     \* rows of lelu_email_tokens and lelu_password_reset_tokens
          expired,   \* tokens whose expires_at has passed
          inbox,     \* tokens that arrived in a mail
          profile,   \* external: the address each provider account has now
          req,       \* the request handlers
          served,    \* number of requests accepted so far
          sessions,  \* JWTs handed out
          created,   \* history: <<address, password>> answered with 201
          reset,     \* history: addresses whose password a reset has changed
          grounds    \* history: why an address may count as verified

vars == <<users, linked, links, expired, inbox, profile, req, served,
          sessions, created, reset, grounds>>
db == <<users, linked, links>>
history == <<created, reset, grounds>>

Accts == Google \cup GitHub
Kinds == {"verify", "reset"}
User == [pw : Passwords \cup {None}, verified : BOOLEAN]
Link == [kind : Kinds, id : Tokens, user : Emails, over : SUBSET Tokens]
Ops == {"idle", "register", "login", "forgot", "resend", "reset", "verify",
        "oauth"}
Steps == {"start", "insert", "clear", "issue", "send", "mark", "find", "read",
          "spend", "apply", "linked", "byEmail", "create", "link"}
Request == [op : Ops, at : Steps, user : Emails \cup {None},
            pw : Passwords \cup {None}, tok : Tokens \cup {None},
            acct : Accts \cup {None}, seen : SUBSET Tokens,
            verified : BOOLEAN]
Idle == [op |-> "idle", at |-> "start", user |-> None, pw |-> None,
         tok |-> None, acct |-> None, seen |-> {}, verified |-> FALSE]
Session == [user : Emails, via : Accts \cup {None}]

TypeOK ==
    /\ users \in [Emails -> User \cup {None}]
    /\ linked \in [Accts -> Emails \cup {None}]
    /\ links \subseteq Link
    /\ expired \subseteq Tokens
    /\ inbox \subseteq Tokens
    /\ profile \in [Accts -> Emails]
    /\ req \in [Requests -> Request]
    /\ served \in 0..MaxRequests
    /\ sessions \subseteq Session
    /\ created \subseteq Emails \X Passwords
    /\ reset \subseteq Emails
    /\ grounds \subseteq Emails

\* ensureSchema: the tables are there and empty.
Init ==
    /\ users = [e \in Emails |-> None]
    /\ linked = [a \in Accts |-> None]
    /\ links = {} /\ expired = {} /\ inbox = {}
    /\ profile \in [Accts -> Emails]
    /\ req = [r \in Requests |-> Idle] /\ served = 0
    /\ sessions = {} /\ created = {} /\ reset = {} /\ grounds = {}

-----------------------------------------------------------------------------
Exists(e) == users[e] # None
At(r, op, step) == req[r].op \in op /\ req[r].at = step
Go(r, step) == req' = [req EXCEPT ![r].at = step]
Done(r) == req' = [req EXCEPT ![r] = Idle]

\* The handler starts after its validation of the body passed.
Accept(r) == req[r] = Idle /\ served < MaxRequests /\ served' = served + 1
Begin(r, q) == Accept(r) /\ req' = [req EXCEPT ![r] = q]
New(op, step) == [Idle EXCEPT !.op = op, !.at = step]

\* A statement that throws: it was refused, or executed and its answer lost.
Threw(effect, nothing) == effect \/ nothing

Rows(kind, e) == {l \in links : l.kind = kind /\ l.user = e}
RowOf(kind, t) == {l \in links : l.kind = kind /\ l.id = t}
Forgotten(t) ==
    /\ t \notin inbox
    /\ \A l \in links : t # l.id /\ t \notin l.over
    /\ \A r \in Requests : t # req[r].tok /\ t \notin req[r].seen

KindOf(op) == IF op \in {"register", "resend"} THEN "verify" ELSE "reset"

-----------------------------------------------------------------------------
(* createUser: SELECT by address, then INSERT; UNIQUE(email) makes the     *)
(* INSERT of the slower of two registrations throw.                        *)

Register(r) == \E e \in Emails, p \in Passwords :
    /\ Begin(r, [New("register", "start") EXCEPT !.user = e, !.pw = p])
    /\ UNCHANGED <<db, expired, inbox, profile, sessions, history>>

RegisterSelect(r) ==
    /\ At(r, {"register"}, "start")
    /\ \/ Exists(req[r].user) /\ Done(r)             \* EMAIL_TAKEN: 409
       \/ ~Exists(req[r].user) /\ Go(r, "insert")
       \/ Done(r)                                    \* 500
    /\ UNCHANGED <<db, expired, inbox, profile, sessions, history, served>>

InsertUser(e, p, v) ==
    users' = [users EXCEPT ![e] = [pw |-> p, verified |-> v]]

RegisterInsert_Upsert(r) ==
    LET q == req[r] IN
    /\ At(r, {"register"}, "insert")
    /\ InsertUser(q.user, q.pw, ~EmailOn)
    /\ IF EmailOn THEN Go(r, "clear") ELSE Done(r)
    /\ created' = created \cup {<<q.user, q.pw>>}
    /\ UNCHANGED <<linked, links, expired, inbox, profile, sessions, reset, grounds, served>>

RegisterInsert(r) ==
    LET q == req[r] IN
    /\ At(r, {"register"}, "insert")
    /\ \/ /\ ~Exists(q.user)
          /\ InsertUser(q.user, q.pw, ~EmailOn)
          /\ IF EmailOn THEN Go(r, "clear") ELSE Done(r)
          /\ created' = created \cup {<<q.user, q.pw>>}
       \/ /\ \/ ~Exists(q.user) /\ InsertUser(q.user, q.pw, ~EmailOn)
             \/ UNCHANGED users                      \* refused or conflict
          /\ Done(r)                                 \* 500
          /\ UNCHANGED created
    /\ UNCHANGED <<linked, links, expired, inbox, profile, sessions, reset, grounds, served>>

\* The fallback when the verification mail could not leave.
RegisterMark(r) ==
    /\ At(r, {"register"}, "mark")
    /\ \/ users' = [users EXCEPT ![req[r].user].verified = TRUE]
       \/ UNCHANGED users
    /\ Done(r)
    /\ UNCHANGED <<linked, links, expired, inbox, profile, sessions, history, served>>

-----------------------------------------------------------------------------
(* createVerificationToken and createPasswordResetToken: DELETE the links  *)
(* the user has, INSERT a new one, then mail it.  register verifies the    *)
(* account when any of the three throws, the other two routes swallow it.  *)

IssueFailed(r) ==
    IF req[r].op = "register"
    THEN Go(r, "mark") /\ grounds' = grounds \cup {req[r].user}
    ELSE Done(r) /\ UNCHANGED grounds

ForgotPassword(r) == \E e \in Emails :
    /\ Begin(r, [New("forgot", "find") EXCEPT !.user = e])
    /\ UNCHANGED <<db, expired, inbox, profile, sessions, history>>

ResendVerification(r) == \E e \in Emails :
    /\ Begin(r, [New("resend", "find") EXCEPT !.user = e])
    /\ UNCHANGED <<db, expired, inbox, profile, sessions, history>>

IssueFind(r) ==
    LET e == req[r].user IN
    /\ At(r, {"forgot", "resend"}, "find")
    /\ \/ /\ Exists(e)
          /\ req[r].op = "resend" => ~users[e].verified
          /\ Go(r, "clear")
       \/ Done(r)                   \* no such account, verified, or an error
    /\ UNCHANGED <<db, expired, inbox, profile, sessions, history, served>>

IssueClear_Keep(r) ==
    /\ At(r, {"register", "forgot", "resend"}, "clear")
    /\ Go(r, "issue")
    /\ UNCHANGED <<db, expired, inbox, profile, sessions, history, served>>

IssueClear(r) ==
    LET old == Rows(KindOf(req[r].op), req[r].user) IN
    /\ At(r, {"register", "forgot", "resend"}, "clear")
    /\ \/ links' = links \ old /\ Go(r, "issue") /\ UNCHANGED grounds
       \/ Threw(links' = links \ old, UNCHANGED links) /\ IssueFailed(r)
    /\ UNCHANGED <<users, linked, expired, inbox, profile, sessions, created, reset, served>>

\* Random tokens are interchangeable: which fresh one is drawn does not matter.
Fresh == CHOOSE t \in Tokens : Forgotten(t)

IssueInsert(r) ==
    LET t == Fresh
        q == req[r]
        kind == KindOf(q.op)
        row == [kind |-> kind, id |-> t, user |-> q.user, over |-> q.seen]
        rivals == {s \in Requests \ {r} :
                     /\ At(s, {"register", "forgot", "resend"}, "issue")
                     /\ KindOf(req[s].op) = kind /\ req[s].user = q.user}
        noted == [s \in Requests |->
                    IF s \in rivals
                    THEN [req[s] EXCEPT !.seen = @ \cup {t}] ELSE req[s]]
    IN
    /\ At(r, {"register", "forgot", "resend"}, "issue")
    /\ \E free \in Tokens : Forgotten(free)
    /\ \/ /\ links' = links \cup {row}
          /\ req' = [noted EXCEPT ![r].at = "send", ![r].tok = t]
          /\ UNCHANGED grounds
       \/ /\ Threw(links' = links \cup {row}, UNCHANGED links)
          /\ IF q.op = "register"
             THEN /\ req' = [noted EXCEPT ![r].at = "mark"]
                  /\ grounds' = grounds \cup {q.user}
             ELSE req' = [noted EXCEPT ![r] = Idle] /\ UNCHANGED grounds
    /\ expired' = expired \ {t}
    /\ UNCHANGED <<users, linked, inbox, profile, sessions, created, reset, served>>

\* send: SES, Resend or SMTP; with none configured the mail is skipped.
IssueSend(r) ==
    /\ At(r, {"register", "forgot", "resend"}, "send")
    /\ \/ /\ inbox' = IF EmailOn THEN inbox \cup {req[r].tok} ELSE inbox
          /\ Done(r) /\ UNCHANGED grounds
       \/ /\ EmailOn
          /\ Threw(inbox' = inbox \cup {req[r].tok}, UNCHANGED inbox)
          /\ IssueFailed(r)
    /\ UNCHANGED <<db, expired, profile, sessions, created, reset, served>>

-----------------------------------------------------------------------------
(* consumeVerificationToken and consumePasswordResetToken: SELECT the row, *)
(* DELETE it without looking at the number of rows, then apply.            *)

VerifyEmail(r) == \E t \in inbox :
    /\ Begin(r, [New("verify", "read") EXCEPT !.tok = t])
    /\ grounds' = grounds \cup {l.user : l \in RowOf("verify", t)}
    /\ UNCHANGED <<db, expired, inbox, profile, sessions, created, reset>>

ResetPassword(r) == \E t \in inbox, p \in Passwords :
    /\ Begin(r, [New("reset", "read") EXCEPT !.tok = t, !.pw = p])
    /\ UNCHANGED <<db, expired, inbox, profile, sessions, history>>

ConsumeSelect(r) ==
    LET q == req[r]
        rows == RowOf(q.op, q.tok)
    IN
    /\ At(r, {"verify", "reset"}, "read")
    /\ \/ /\ q.tok \notin expired
          /\ \E l \in rows :
               req' = [req EXCEPT ![r].at = "spend", ![r].user = l.user]
          /\ UNCHANGED links
       \/ /\ rows = {} \/ q.tok \in expired        \* answered: invalid or expired
          /\ links' = links \ rows
          /\ Done(r)
       \/ UNCHANGED links /\ Done(r)                \* answered: failed
    /\ UNCHANGED <<users, linked, expired, inbox, profile, sessions, history, served>>

ConsumeDelete(r) ==
    LET gone == links \ RowOf(req[r].op, req[r].tok) IN
    /\ At(r, {"verify", "reset"}, "spend")
    /\ \/ links' = gone /\ Go(r, "apply")
       \/ Threw(links' = gone, UNCHANGED links) /\ Done(r)
    /\ UNCHANGED <<users, linked, expired, inbox, profile, sessions, history, served>>

\* markEmailVerified or updateUserPassword; when it throws the link is spent.
ConsumeApply(r) ==
    LET q == req[r]
        row == users[q.user]
    IN
    /\ At(r, {"verify", "reset"}, "apply")
    /\ \/ users' = [users EXCEPT ![q.user] =
                      IF q.op = "verify"
                      THEN [pw |-> row.pw, verified |-> TRUE]
                      ELSE [pw |-> q.pw, verified |-> row.verified]]
       \/ UNCHANGED users
    /\ reset' = IF q.op = "reset" THEN reset \cup {q.user} ELSE reset
    /\ Done(r)
    /\ UNCHANGED <<linked, links, expired, inbox, profile, sessions, created, grounds, served>>

-----------------------------------------------------------------------------
(* Password login: one SELECT, verifyPassword, the verified check, and the *)
(* session; an OAuth-only account has no password to match.                *)

Login_AnyState(r) == \E e \in Emails, p \in Passwords :
    /\ Accept(r) /\ Exists(e) /\ users[e].pw = p
    /\ sessions' = sessions \cup {[user |-> e, via |-> None]}
    /\ UNCHANGED <<db, expired, inbox, profile, req, history>>

Login(r) == \E e \in Emails, p \in Passwords :
    /\ Accept(r)
    /\ Exists(e) /\ users[e].pw = p                  \* otherwise 401
    /\ users[e].verified                             \* otherwise 403
    /\ sessions' = sessions \cup {[user |-> e, via |-> None]}
    /\ UNCHANGED <<db, expired, inbox, profile, req, history>>

-----------------------------------------------------------------------------
(* OAuth login.  fetchProfile is what the provider says of the account:    *)
(* Google states whether the address is verified; GitHub states it for the *)
(* chosen address, unless /user/emails fails and the unverified public     *)
(* address is used.                                                        *)

fetchGoogleProfile(a) == {[email |-> profile[a], verified |-> v] : v \in BOOLEAN}
fetchGitHubProfile(a) == {[email |-> profile[a], verified |-> v] : v \in BOOLEAN}
                         \cup {[email |-> e, verified |-> FALSE] : e \in Emails}
fetchProfile(a) ==
    IF a \in Google THEN fetchGoogleProfile(a) ELSE fetchGitHubProfile(a)

\* The callback, once the state matches the cookie and the code is exchanged.
OAuthCallback(r) == \E a \in Accts : \E p \in fetchProfile(a) :
    /\ Begin(r, [New("oauth", "linked") EXCEPT
                   !.acct = a, !.user = p.email, !.verified = p.verified])
    /\ UNCHANGED <<db, expired, inbox, profile, sessions, history>>

SignIn(r, e) == sessions' = sessions \cup {[user |-> e, via |-> req[r].acct]}

OAuthLinked(r) ==
    LET a == req[r].acct IN
    /\ At(r, {"oauth"}, "linked")
    /\ \/ linked[a] # None /\ SignIn(r, linked[a]) /\ Done(r)
       \/ linked[a] = None /\ Go(r, "byEmail") /\ UNCHANGED sessions
       \/ Done(r) /\ UNCHANGED sessions              \* oauth_failed
    /\ UNCHANGED <<db, expired, inbox, profile, history, served>>

OAuthByEmail(r) ==
    /\ At(r, {"oauth"}, "byEmail")
    /\ \/ Go(r, IF Exists(req[r].user) THEN "link" ELSE "create")
       \/ Done(r)
    /\ UNCHANGED <<db, expired, inbox, profile, sessions, history, served>>

OAuthCreate_Trust(r) ==
    LET q == req[r] IN
    /\ At(r, {"oauth"}, "create")
    /\ ~Exists(q.user) /\ InsertUser(q.user, None, TRUE) /\ Go(r, "link")
    /\ UNCHANGED <<linked, links, expired, inbox, profile, sessions, history, served>>

OAuthCreate(r) ==
    LET q == req[r] IN
    /\ At(r, {"oauth"}, "create")
    /\ \/ ~Exists(q.user) /\ InsertUser(q.user, None, q.verified) /\ Go(r, "link")
       \/ /\ \/ ~Exists(q.user) /\ InsertUser(q.user, None, q.verified)
             \/ UNCHANGED users                      \* refused or conflict
          /\ Done(r)
    /\ grounds' = IF q.verified THEN grounds \cup {q.user} ELSE grounds
    /\ UNCHANGED <<linked, links, expired, inbox, profile, sessions, created, reset, served>>

OAuthLink_IgnoreConflict(r) ==
    LET q == req[r] IN
    /\ At(r, {"oauth"}, "link")
    /\ linked' = IF linked[q.acct] = None
                 THEN [linked EXCEPT ![q.acct] = q.user] ELSE linked
    /\ SignIn(r, q.user) /\ Done(r)
    /\ UNCHANGED <<users, links, expired, inbox, profile, history, served>>

\* UNIQUE (provider, provider_account_id) makes the slower of two links throw.
OAuthLink(r) ==
    LET q == req[r]
        Insert == linked[q.acct] = None /\ linked' = [linked EXCEPT ![q.acct] = q.user]
    IN
    /\ At(r, {"oauth"}, "link")
    /\ \/ Insert /\ SignIn(r, q.user)
       \/ Threw(Insert, UNCHANGED linked) /\ UNCHANGED sessions
    /\ Done(r)
    /\ UNCHANGED <<users, links, expired, inbox, profile, history, served>>

-----------------------------------------------------------------------------
\* Time passes a link's expires_at, and a provider account gets another
\* address.
Expire == \E l \in links :
    /\ l.id \notin expired
    /\ expired' = expired \cup {l.id}
    /\ UNCHANGED <<db, inbox, profile, req, sessions, history, served>>

ChangeAddress == \E a \in Accts, e \in Emails :
    /\ profile[a] # e
    /\ profile' = [profile EXCEPT ![a] = e]
    /\ UNCHANGED <<db, expired, inbox, req, sessions, history, served>>

Handler(r) ==
    \/ Register(r) \/ RegisterSelect(r) \/ RegisterInsert(r) \/ RegisterMark(r)
    \/ ForgotPassword(r) \/ ResendVerification(r) \/ IssueFind(r)
    \/ IssueClear(r) \/ IssueInsert(r) \/ IssueSend(r)
    \/ VerifyEmail(r) \/ ResetPassword(r)
    \/ ConsumeSelect(r) \/ ConsumeDelete(r) \/ ConsumeApply(r)
    \/ Login(r)
    \/ OAuthCallback(r) \/ OAuthLinked(r) \/ OAuthByEmail(r)
    \/ OAuthCreate(r) \/ OAuthLink(r)

Next == (\E r \in Requests : Handler(r)) \/ Expire \/ ChangeAddress

Spec == Init /\ [][Next]_vars
-----------------------------------------------------------------------------
\* While mail is configured an address counts as verified only after its link
\* was opened, a provider vouched for it, or its mail could not be sent:
\* register's fallback, verify-email and findOrCreateOAuthUser together.
VerifiedForAReason ==
    EmailOn => \A e \in Emails : Exists(e) /\ users[e].verified => e \in grounds

\* Asking for a new link ends the old ones: two live links of a user come from
\* requests that overlapped (createVerificationToken, createPasswordResetToken).
OneLiveLink ==
    \A l, m \in links :
        l.kind = m.kind /\ l.user = m.user /\ l # m =>
            l.id \in m.over \/ m.id \in l.over

\* Every login with one provider account is a login as the same user, also when
\* the account's address changes while two callbacks race or after a callback
\* died between creating the user and linking it (findOrCreateOAuthUser).
SameAccountSameUser ==
    \A s, t \in sessions : s.via # None /\ s.via = t.via => s.user = t.user

\* Of racing registrations of an address at most one is answered 201, and its
\* password is the one that counts until a reset (createUser, register).
RegisteredOnce ==
    \A c, d \in created :
        c[1] = d[1] => /\ c = d
                       /\ c[1] \notin reset => users[c[1]].pw = c[2]

\* Whoever signed in with a password has an account that is verified and stays
\* so (login against markEmailVerified, the only UPDATE of email_verified).
PasswordLoginVerified ==
    \A s \in sessions : s.via = None => users[s.user].verified
=============================================================================
