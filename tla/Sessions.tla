------------------------------- MODULE Sessions -------------------------------
(***************************************************************************)
(* internal/authentication: accounts with their profiles, sessions in      *)
(* PostgreSQL, and the cache of sessions in Redis that every authenticated *)
(* request reads first.                                                    *)
(*                                                                         *)
(* A transaction is one action, and so is every read or write of the cache *)
(* and of a row that a later step acts on.  The session manager (authlier) *)
(* is external: what it asks of the store and the cache is taken from      *)
(* their contract, in any order the contract allows.  Passwords and token  *)
(* hashes are left out: who signs in knows the password, who presents a    *)
(* token was given it.                                                     *)
(***************************************************************************)
EXTENDS FiniteSets

CONSTANTS
    Emails,     \* normalized email addresses
    Tokens,     \* session tokens, each issued at most once
    Requests,   \* HTTP requests that may be in flight
    NoEmail     \* SQL NULL

ASSUME SessionsAssumption == NoEmail \notin Emails

VARIABLES
    account,    \* authentication_accounts: the account type behind an email
    profile,    \* users, hosts, crews, internal_admins: the types with a profile row
    session,    \* authentication_sessions, one row per token
    expired,    \* tokens whose expires_at has passed
    cached,     \* tokens of which Redis holds a record
    request     \* where each request is, and the tokens it works on

accountVars == <<account, profile>>
vars == <<account, profile, session, expired, cached, request>>

PublicRole == {"host", "crew", "user"}
AccountType == PublicRole \cup {"internal_admin"}
Role == AccountType

\* door is the role of the route the holder came in by, and login the token of
\* the sign-in a rotated session goes back to; neither is stored.
SessionRow == [status : {"none", "live", "revoked"}, subject : Emails \cup {NoEmail},
               door : Role \cup {"none"}, login : SUBSET Tokens]
NoSession == [status |-> "none", subject |-> NoEmail, door |-> "none", login |-> {}]

Step == {"idle", "issue", "store", "fill", "account", "signout", "purge"}
RequestState == [at : Step, tokens : SUBSET Tokens, email : Emails \cup {NoEmail},
                 role : Role \cup {"none"}]
Idle == [at |-> "idle", tokens |-> {}, email |-> NoEmail, role |-> "none"]

Init ==
    /\ account = [e \in Emails |-> "none"]
    /\ profile = [e \in Emails |-> {}]
    /\ session = [t \in Tokens |-> NoSession]
    /\ expired = {}
    /\ cached = {}
    /\ request = [r \in Requests |-> Idle]

Goto(r, step, tokens) ==
    request' = [request EXCEPT ![r].at = step, ![r].tokens = tokens]

Return(r) == request' = [request EXCEPT ![r] = Idle]

-----------------------------------------------------------------------------
(***************************************************************************)
(* Accounts: sign-up, sign-in, and the command that creates admins.        *)
(***************************************************************************)

\* CreateAccount, unique on the email whatever the type.
CreateAccount(e, type) ==
    /\ account[e] = "none"
    /\ account' = [account EXCEPT ![e] = type]

\* createProfile: the row of the table that goes with the account type.
CreateProfile(e, type) == profile' = [profile EXCEPT ![e] = @ \cup {type}]

\* Store Register: account and profile in one transaction; a taken email is a
\* conflict and changes nothing.  A session is issued in a later one.
Register(r, role, e) ==
    /\ request[r] = Idle
    /\ CreateAccount(e, role)
    /\ CreateProfile(e, role)
    /\ request' = [request EXCEPT ![r] = [Idle EXCEPT !.at = "issue", !.email = e, !.role = role]]
    /\ UNCHANGED <<session, expired, cached>>

\* Mutation of FindByEmail: an account of any type answers.
FindByEmailAnyType(e, role) == account[e] # "none"

\* FindByEmail: an account of another type is not found.
FindByEmail(e, role) == account[e] = role

\* SignIn through the route of a role, with the right password.
SignIn(r, role, e) ==
    /\ request[r] = Idle
    /\ FindByEmail(e, role)
    /\ request' = [request EXCEPT ![r] = [Idle EXCEPT !.at = "issue", !.email = e, !.role = role]]
    /\ UNCHANGED <<accountVars, session, expired, cached>>

\* CreateInternalAdmin, from the command line.
CreateInternalAdmin(e) ==
    /\ CreateAccount(e, "internal_admin")
    /\ CreateProfile(e, "internal_admin")
    /\ UNCHANGED <<session, expired, cached, request>>

\* CreateSession: the row of a fresh token.
CreateSession(t, row) ==
    /\ session[t].status = "none"
    /\ session' = [session EXCEPT ![t] = row]

\* issueSession, and the token goes to the client.
IssueSession(r, t) ==
    /\ request[r].at = "issue"
    /\ CreateSession(t, [status |-> "live", subject |-> request[r].email,
                         door |-> request[r].role, login |-> {t}])
    /\ Return(r)
    /\ UNCHANGED <<accountVars, expired, cached>>

-----------------------------------------------------------------------------
(***************************************************************************)
(* RequireSession: Authenticate resolves the token, from the cache or else *)
(* from the store, and looks up the account type.                          *)
(***************************************************************************)
\* Neither revoked nor expired, as Rotate checks under the row's lock.
Active(t) == session[t].status = "live" /\ t \notin expired

\* SessionCache Get.  A cached record carries its expiry, which the manager checks;
\* it was not revoked when it was read.
ReadCache(r, t) ==
    /\ request[r] = Idle
    /\ session[t].status # "none"
    /\ IF t \in cached
       THEN t \notin expired /\ Goto(r, "account", {t})
       ELSE Goto(r, "store", {t})
    /\ UNCHANGED <<accountVars, session, expired, cached>>

\* SessionStore FindByTokenHash: the row as it stands, revoked or expired too.
FindByTokenHash(t) == session[t]

\* Mutation of ReadStore: the record found is not checked.
ReadStoreUnchecked(r) ==
    /\ request[r].at = "store"
    /\ Goto(r, "fill", request[r].tokens)
    /\ UNCHANGED <<accountVars, session, expired, cached>>

\* The token resolved from the store: it is the manager that refuses a record revoked
\* or expired, which Authenticate sees as ErrInactive.
ReadStore(r) ==
    /\ request[r].at = "store"
    /\ \E t \in request[r].tokens :
          IF FindByTokenHash(t).status = "live" /\ t \notin expired
          THEN Goto(r, "fill", {t})
          ELSE Return(r)
    /\ UNCHANGED <<accountVars, session, expired, cached>>

\* SessionCache Set: the record as it was read, under a fresh TTL; a cache that
\* fails costs nothing but the entry.
Fill(r) ==
    /\ request[r].at = "fill"
    /\ cached' \in {cached \cup request[r].tokens, cached}
    /\ Goto(r, "account", request[r].tokens)
    /\ UNCHANGED <<accountVars, session, expired>>

\* AccountType, and the request is served under the role that goes with it.
LookUpAccount(r) ==
    /\ request[r].at = "account"
    /\ Return(r)
    /\ UNCHANGED <<accountVars, session, expired, cached>>

-----------------------------------------------------------------------------
(***************************************************************************)
(* Revocation, and the other operations the store offers the manager.      *)
(***************************************************************************)

\* POST /signout with a token the client was given.
SignOut(r, t) ==
    /\ request[r] = Idle
    /\ session[t].status # "none"
    /\ Goto(r, "signout", {t})
    /\ UNCHANGED <<accountVars, session, expired, cached>>

\* The rows of some sessions with revoked_at set, unless it was set before.
WithRevoked(rows, S) ==
    [t \in Tokens |-> IF t \in S /\ rows[t].status = "live"
                      THEN [rows[t] EXCEPT !.status = "revoked"] ELSE rows[t]]

\* SessionStore Revoke.
Revoke(r) ==
    /\ request[r].at = "signout"
    /\ session' = WithRevoked(session, request[r].tokens)
    /\ Goto(r, "purge", request[r].tokens)
    /\ UNCHANGED <<accountVars, expired, cached>>

\* SessionStore RevokeAll, of the sessions of one account.
RevokeAll(r, e) ==
    LET theirs == {t \in Tokens : session[t].subject = e} IN
    /\ request[r] = Idle
    /\ theirs # {}
    /\ session' = WithRevoked(session, theirs)
    /\ Goto(r, "purge", theirs)
    /\ UNCHANGED <<accountVars, expired, cached>>

\* SessionCache Delete, after the row is revoked or before it.
Purge(r, t) ==
    /\ request[r].at \in {"signout", "purge"}
    /\ t \in request[r].tokens
    /\ cached' = cached \ {t}
    /\ IF request[r].at = "signout" THEN UNCHANGED request
       ELSE IF request[r].tokens = {t} THEN Return(r)
       ELSE Goto(r, "purge", request[r].tokens \ {t})
    /\ UNCHANGED <<accountVars, session, expired>>

\* Mutation of Rotate: the row is not read again under its lock.
RotateUnchecked(r, t, new) ==
    /\ request[r] = Idle
    /\ session[t].status # "none"
    /\ session[new].status = "none"
    /\ session' = [session EXCEPT ![t].status = "revoked",
                                  ![new] = [session[t] EXCEPT !.status = "live"]]
    /\ Goto(r, "purge", {t})
    /\ UNCHANGED <<accountVars, expired, cached>>

\* SessionStore Rotate: under the lock of its row an active session is replaced by
\* a new one of the same subject, in one transaction.
Rotate(r, t, new) ==
    /\ request[r] = Idle
    /\ Active(t)
    /\ session[new].status = "none"
    /\ session' = [session EXCEPT ![t].status = "revoked",
                                  ![new] = session[t]]
    /\ Goto(r, "purge", {t})
    /\ UNCHANGED <<accountVars, expired, cached>>

\* The client goes away, a query fails or the process dies.
Abandon(r) ==
    /\ request[r] # Idle
    /\ Return(r)
    /\ UNCHANGED <<accountVars, session, expired, cached>>

-----------------------------------------------------------------------------
\* now() passes expires_at.
Expire(t) ==
    /\ Active(t)
    /\ expired' = expired \cup {t}
    /\ UNCHANGED <<accountVars, session, cached, request>>

\* Mutation of CacheExpires: entries are written without a TTL.
CacheNeverExpires(t) == FALSE /\ UNCHANGED vars

\* The TTL of a cached record passes, or Redis loses it.
CacheExpires(t) ==
    /\ t \in cached
    /\ cached' = cached \ {t}
    /\ UNCHANGED <<accountVars, session, expired, request>>

Resolve(r) == ReadStore(r) \/ Fill(r) \/ LookUpAccount(r)

Next ==
    \/ \E r \in Requests, role \in PublicRole, e \in Emails : Register(r, role, e)
    \/ \E r \in Requests, role \in Role, e \in Emails : SignIn(r, role, e)
    \/ \E e \in Emails : CreateInternalAdmin(e)
    \/ \E r \in Requests, t \in Tokens : IssueSession(r, t)
    \/ \E r \in Requests, t \in Tokens : ReadCache(r, t)
    \/ \E r \in Requests : Resolve(r)
    \/ \E r \in Requests, t \in Tokens : SignOut(r, t)
    \/ \E r \in Requests : Revoke(r)
    \/ \E r \in Requests, e \in Emails : RevokeAll(r, e)
    \/ \E r \in Requests, t \in Tokens : Purge(r, t)
    \/ \E r \in Requests, t, new \in Tokens : Rotate(r, t, new)
    \/ \E r \in Requests : Abandon(r)
    \/ \E t \in Tokens : Expire(t)
    \/ \E t \in Tokens : CacheExpires(t)

Spec == Init /\ [][Next]_vars

\* A request that resolves a token goes on, and Redis honours the TTL.
FairSpec ==
    /\ Spec
    /\ \A r \in Requests : WF_vars(Resolve(r))
    /\ \A t \in Tokens : WF_vars(CacheExpires(t))
-----------------------------------------------------------------------------
(***************************************************************************)
(* Properties.                                                             *)
(***************************************************************************)
TypeOK ==
    /\ account \in [Emails -> AccountType \cup {"none"}]
    /\ profile \in [Emails -> SUBSET AccountType]
    /\ session \in [Tokens -> SessionRow]
    /\ expired \in SUBSET Tokens
    /\ cached \in SUBSET Tokens
    /\ request \in [Requests -> RequestState]
    /\ \A r \in Requests : request[r].at = "idle" => request[r] = Idle

\* A copy of the session's record that a request may still be served from.
Copied(t) ==
    \/ t \in cached
    \/ \E r \in Requests : request[r].at \in {"fill", "account"} /\ t \in request[r].tokens

\* A session is served under the role of the door its holder signed in by: every
\* account has the one profile of its type, however sign-ups of one email race,
\* and no role's sign-in reaches an account of another (Register, FindByEmail,
\* CreateInternalAdmin, roleForAccountType).
RolesAgree ==
    /\ \A e \in Emails : profile[e] = IF account[e] = "none" THEN {} ELSE {account[e]}
    /\ \A t \in Tokens : session[t].status # "none" => session[t].door = account[session[t].subject]

\* The live sessions that go back to the sign-in of token l.
LiveOf(l) == {t \in Tokens : session[t].status = "live" /\ session[t].login = {l}}

\* One sign-in is one live session at a time, and none again once it was signed
\* out, however its rotations race with each other and with revocations: no token
\* is rotated twice, none after it was revoked (Rotate, Revoke, RevokeAll).
OneLiveSession ==
    [][\A l \in Tokens :
          session[l].status # "none" =>
              /\ LiveOf(l) = {} => LiveOf(l)' = {}
              /\ \A t, u \in LiveOf(l)' : t = u]_vars

\* A revoked session stays revoked, and once the copies made of it before are
\* gone no request makes another: what overlaps the revocation is the whole of
\* the staleness (ReadCache, ReadStore, Fill, Rotate, WithRevoked).
RevokedStaysOut ==
    [][\A t \in Tokens :
          session[t].status = "revoked" =>
              /\ session'[t].status = "revoked"
              /\ Copied(t)' => Copied(t)]_vars

\* A revoked session is in the end served to nobody, though the fill of a slow
\* request may follow the deletion of the cache entry.
RevokedEnds == \A t \in Tokens : session[t].status = "revoked" ~> ~Copied(t)
=============================================================================
