---------------------------- MODULE SessionsProofs ----------------------------
(***************************************************************************)
(* Proofs about Sessions for every set of emails, tokens and requests.     *)
(***************************************************************************)
EXTENDS Sessions, TLAPS

-----------------------------------------------------------------------------
(***************************************************************************)
(* What a step does to one request.                                        *)
(***************************************************************************)

LEMMA GotoState ==
  ASSUME TypeOK, NEW r \in Requests, NEW step \in Step \ {"idle"}, NEW S \in SUBSET Tokens,
         Goto(r, step, S)
  PROVE  /\ request' \in [Requests -> RequestState]
         /\ \A q \in Requests : request'[q].at = "idle" => request'[q] = Idle
         /\ request'[r].at = step /\ request'[r].tokens = S
         /\ \A q \in Requests \ {r} : request'[q] = request[q]
  <1> DEFINE new == [request[r] EXCEPT !.at = step, !.tokens = S]
  <1>1. request[r] \in RequestState
    BY DEF TypeOK
  <1>2. new \in RequestState /\ new.at = step /\ new.tokens = S
    BY <1>1 DEF RequestState
  <1>3. request' = [request EXCEPT ![r] = new]
    BY DEF Goto
  <1> HIDE DEF new
  <1>4. request'[r] = new /\ \A q \in Requests \ {r} : request'[q] = request[q]
    BY <1>3 DEF TypeOK
  <1>5. request' \in [Requests -> RequestState]
    BY <1>2, <1>3 DEF TypeOK
  <1>6. \A q \in Requests : request'[q].at = "idle" => request'[q] = Idle
    BY <1>2, <1>4 DEF TypeOK
  <1>7. QED
    BY <1>2, <1>4, <1>5, <1>6

LEMMA ReturnState ==
  ASSUME TypeOK, NEW r \in Requests, Return(r)
  PROVE  /\ request' \in [Requests -> RequestState]
         /\ \A q \in Requests : request'[q].at = "idle" => request'[q] = Idle
         /\ request'[r] = Idle
         /\ \A q \in Requests \ {r} : request'[q] = request[q]
  BY DEF Return, TypeOK, RequestState, Idle, Step

\* Register and SignIn send the request on to issue a session.
LEMMA IssueState ==
  ASSUME TypeOK, NEW r \in Requests, NEW role \in Role, NEW e \in Emails,
         request' = [request EXCEPT
                       ![r] = [Idle EXCEPT !.at = "issue", !.email = e, !.role = role]]
  PROVE  /\ request' \in [Requests -> RequestState]
         /\ \A q \in Requests : request'[q].at = "idle" => request'[q] = Idle
         /\ request'[r].email = e /\ request'[r].role = role
         /\ \A q \in Requests \ {r} : request'[q] = request[q]
  BY DEF TypeOK, RequestState, Idle, Step

LEMMA WithRevokedRows ==
  ASSUME NEW rows \in [Tokens -> SessionRow], NEW S
  PROVE  /\ WithRevoked(rows, S) \in [Tokens -> SessionRow]
         /\ \A t \in Tokens :
               LET row == WithRevoked(rows, S)[t] IN
               /\ row.subject = rows[t].subject /\ row.door = rows[t].door
               /\ row.login = rows[t].login
               /\ row.status = rows[t].status
                  \/ (rows[t].status = "live" /\ row.status = "revoked")
  BY DEF WithRevoked, SessionRow

-----------------------------------------------------------------------------
(***************************************************************************)
(* Type correctness.                                                       *)
(***************************************************************************)
LEMMA InitTypeOK == Init => TypeOK
  BY DEF Init, TypeOK, NoSession, SessionRow, Idle, RequestState, Step, Role, AccountType,
         PublicRole

\* The steps of the accounts.
LEMMA AccountTypeOK ==
  ASSUME TypeOK, NEW e \in Emails,
         \/ \E r \in Requests, role \in PublicRole : Register(r, role, e)
         \/ \E r \in Requests, role \in Role : SignIn(r, role, e)
         \/ CreateInternalAdmin(e)
  PROVE  TypeOK'
  <1>1. ASSUME NEW r \in Requests, NEW role \in PublicRole, Register(r, role, e)
        PROVE  TypeOK'
    <2>1. role \in Role
      BY DEF Role, AccountType
    <2>2. /\ request' \in [Requests -> RequestState]
          /\ \A q \in Requests : request'[q].at = "idle" => request'[q] = Idle
      BY <1>1, <2>1, IssueState DEF Register
    <2>3. QED
      BY <1>1, <2>1, <2>2 DEF Register, CreateAccount, CreateProfile, TypeOK, Role
  <1>2. ASSUME NEW r \in Requests, NEW role \in Role, SignIn(r, role, e)
        PROVE  TypeOK'
    <2>1. /\ request' \in [Requests -> RequestState]
          /\ \A q \in Requests : request'[q].at = "idle" => request'[q] = Idle
      BY <1>2, IssueState DEF SignIn
    <2>2. QED
      BY <1>2, <2>1 DEF SignIn, accountVars, TypeOK
  <1>3. CASE CreateInternalAdmin(e)
    BY <1>3 DEF CreateInternalAdmin, CreateAccount, CreateProfile, TypeOK, AccountType
  <1>4. QED
    BY <1>1, <1>2, <1>3

\* The steps that write the rows of the sessions.
LEMMA StoreTypeOK ==
  ASSUME TypeOK, NEW r \in Requests,
         \/ \E t \in Tokens : IssueSession(r, t)
         \/ Revoke(r)
         \/ \E e \in Emails : RevokeAll(r, e)
         \/ \E t, new \in Tokens : Rotate(r, t, new)
  PROVE  TypeOK'
  <1> USE DEF accountVars, Step
  <1>1. ASSUME NEW t \in Tokens, IssueSession(r, t)
        PROVE  TypeOK'
    <2>1. request[r].email \in Emails \cup {NoEmail} /\ request[r].role \in Role \cup {"none"}
      BY DEF TypeOK, RequestState
    <2>2. session' \in [Tokens -> SessionRow]
      BY <1>1, <2>1 DEF IssueSession, CreateSession, TypeOK, SessionRow
    <2>3. QED
      BY <1>1, <2>2, ReturnState DEF IssueSession, TypeOK
  <1>2. ASSUME NEW S \in SUBSET Tokens, session' = WithRevoked(session, S),
               Goto(r, "purge", S), UNCHANGED <<accountVars, expired, cached>>
        PROVE  TypeOK'
    <2>1. session' \in [Tokens -> SessionRow]
      BY <1>2, WithRevokedRows DEF TypeOK
    <2>2. /\ request' \in [Requests -> RequestState]
          /\ \A q \in Requests : request'[q].at = "idle" => request'[q] = Idle
      BY <1>2, GotoState
    <2>3. QED
      BY <1>2, <2>1, <2>2 DEF TypeOK
  <1>3. CASE Revoke(r)
    BY <1>2, <1>3 DEF Revoke, TypeOK, RequestState
  <1>4. ASSUME NEW e \in Emails, RevokeAll(r, e)
        PROVE  TypeOK'
    BY <1>2, <1>4 DEF RevokeAll
  <1>5. ASSUME NEW t \in Tokens, NEW new \in Tokens, Rotate(r, t, new)
        PROVE  TypeOK'
    <2>1. session' \in [Tokens -> SessionRow]
      BY <1>5 DEF Rotate, TypeOK, SessionRow
    <2>2. /\ request' \in [Requests -> RequestState]
          /\ \A q \in Requests : request'[q].at = "idle" => request'[q] = Idle
      BY <1>5, GotoState DEF Rotate
    <2>3. QED
      BY <1>5, <2>1, <2>2 DEF Rotate, TypeOK
  <1>6. QED
    BY <1>1, <1>3, <1>4, <1>5

\* The steps that read, and those of the cache and the clock.
ReadStep(r) ==
    \/ \E t \in Tokens : ReadCache(r, t) \/ SignOut(r, t) \/ Purge(r, t)
    \/ Resolve(r) \/ Abandon(r)

ClockStep == \E t \in Tokens : Expire(t) \/ CacheExpires(t)

\* How a step that only reads moves its request on.
LEMMA ReadStepMoves ==
  ASSUME TypeOK, NEW r \in Requests, ReadStep(r)
  PROVE  /\ UNCHANGED <<account, profile, session, expired>> /\ cached' \in SUBSET Tokens
         /\ \/ Return(r) \/ UNCHANGED request
            \/ \E step \in Step \ {"idle", "issue"}, S \in SUBSET Tokens : Goto(r, step, S)
  <1> USE DEF Step, accountVars
  <1>1. request[r].tokens \in SUBSET Tokens
    BY DEF TypeOK, RequestState
  <1>2. ASSUME NEW t \in Tokens, ReadCache(r, t) \/ SignOut(r, t)
        PROVE  /\ UNCHANGED <<account, profile, session, expired, cached>>
               /\ \E step \in Step \ {"idle", "issue"} : Goto(r, step, {t})
    BY <1>2 DEF ReadCache, SignOut
  <1>3. ASSUME NEW t \in Tokens, Purge(r, t)
        PROVE  /\ UNCHANGED <<account, profile, session, expired>> /\ cached' = cached \ {t}
               /\ \/ Return(r) \/ UNCHANGED request \/ Goto(r, "purge", request[r].tokens \ {t})
    BY <1>3 DEF Purge
  <1>4. CASE Resolve(r)
    <2>1. UNCHANGED <<account, profile, session, expired>>
      BY <1>4 DEF Resolve, ReadStore, Fill, LookUpAccount
    <2>2. cached' = cached \/ cached' = cached \cup request[r].tokens
      BY <1>4 DEF Resolve, ReadStore, Fill, LookUpAccount
    <2>3. \/ Return(r)
          \/ \E step \in Step \ {"idle", "issue"}, S \in SUBSET Tokens : Goto(r, step, S)
      BY <1>1, <1>4 DEF Resolve, ReadStore, Fill, LookUpAccount
    <2>4. QED
      BY <1>1, <2>1, <2>2, <2>3 DEF TypeOK
  <1>5. CASE Abandon(r)
    BY <1>5 DEF Abandon, TypeOK
  <1>6. QED
    BY <1>1, <1>2, <1>3, <1>4, <1>5 DEF ReadStep, TypeOK

LEMMA ReadTypeOK ==
  ASSUME TypeOK, NEW r \in Requests, ReadStep(r)
  PROVE  TypeOK'
  <1>1. /\ request' \in [Requests -> RequestState]
        /\ \A q \in Requests : request'[q].at = "idle" => request'[q] = Idle
    BY ReadStepMoves, GotoState, ReturnState DEF TypeOK
  <1>2. QED
    BY <1>1, ReadStepMoves DEF TypeOK

LEMMA NextTypeOK == TypeOK /\ [Next]_vars => TypeOK'
  <1>1. ASSUME TypeOK, UNCHANGED vars
        PROVE  TypeOK'
    BY <1>1 DEF TypeOK, vars
  <1>2. ASSUME TypeOK, Next
        PROVE  TypeOK'
    <2>1. CASE ClockStep
      BY <1>2, <2>1 DEF ClockStep, Expire, CacheExpires, accountVars, TypeOK
    <2>2. QED
      BY <1>2, <2>1, AccountTypeOK, StoreTypeOK, ReadTypeOK DEF Next, ReadStep, ClockStep
  <1>3. QED
    BY <1>1, <1>2

\* Every reachable state is well typed; an idle request holds no tokens.
THEOREM TypeCorrect == Spec => []TypeOK
  BY InitTypeOK, NextTypeOK, PTL DEF Spec

-----------------------------------------------------------------------------
(***************************************************************************)
(* Roles.                                                                  *)
(***************************************************************************)

\* RolesAgree with what its steps rely on: a request that is about to issue a
\* session has found the account under its role, and every session is somebody's.
\* Account types never change, so neither does what they agree with.
RolesKept ==
    /\ RolesAgree
    /\ \A r \in Requests :
          request[r].at = "issue" =>
              /\ request[r].email \in Emails /\ request[r].role \in Role
              /\ account[request[r].email] = request[r].role
    /\ \A t \in Tokens :
          session[t].status # "none" => session[t].subject \in Emails /\ session[t].door \in Role

\* Steps that touch neither accounts nor who a session belongs to, and send no
\* request to issue one.
LEMMA SameRoles ==
  ASSUME RolesKept, UNCHANGED accountVars,
         \A r \in Requests : request'[r].at = "issue" => request'[r] = request[r],
         \A t \in Tokens :
            session'[t].status # "none" =>
               \E s \in Tokens : /\ session[s].status # "none"
                               /\ session'[t].subject = session[s].subject
                               /\ session'[t].door = session[s].door
  PROVE  RolesKept'
  BY DEF RolesKept, RolesAgree, accountVars

\* An account is created for an email that has none, with the profile of its type.
LEMMA AccountCreated ==
  ASSUME TypeOK, RolesKept, NEW e \in Emails, NEW type \in Role,
         CreateAccount(e, type), CreateProfile(e, type), UNCHANGED session
  PROVE  /\ RolesAgree' /\ account'[e] = type
         /\ \A d \in Emails : account[d] # "none" => account'[d] = account[d]
  <1>1. /\ account[e] = "none" /\ profile[e] = {}
        /\ account' = [account EXCEPT ![e] = type]
        /\ profile' = [profile EXCEPT ![e] = {type}]
    BY DEF CreateAccount, CreateProfile, RolesKept, RolesAgree
  <1>2. type # "none" /\ "none" \notin Role
    BY DEF Role, AccountType, PublicRole
  <1>3. \A d \in Emails : account[d] # "none" => account'[d] = account[d]
    BY <1>1 DEF TypeOK
  <1>4. \A d \in Emails : profile'[d] = IF account'[d] = "none" THEN {} ELSE {account'[d]}
    BY <1>1, <1>2 DEF TypeOK, RolesKept, RolesAgree
  <1>5. ASSUME NEW t \in Tokens, session[t].status # "none"
        PROVE  session[t].door = account'[session[t].subject]
    BY <1>2, <1>3, <1>5 DEF RolesKept, RolesAgree
  <1>6. QED
    BY <1>1, <1>3, <1>4, <1>5 DEF RolesAgree, TypeOK

LEMMA AccountRoles ==
  ASSUME TypeOK, RolesKept, NEW e \in Emails,
         \/ \E r \in Requests, role \in PublicRole : Register(r, role, e)
         \/ \E r \in Requests, role \in Role : SignIn(r, role, e)
         \/ CreateInternalAdmin(e)
  PROVE  RolesKept'
  <1>n. "none" \notin Role /\ PublicRole \subseteq Role /\ "internal_admin" \in Role
    BY DEF Role, AccountType, PublicRole
  <1>1. ASSUME NEW r \in Requests, NEW role \in PublicRole, Register(r, role, e)
        PROVE  RolesKept'
    <2>1. /\ RolesAgree' /\ account'[e] = role
          /\ \A d \in Emails : account[d] # "none" => account'[d] = account[d]
      BY <1>n, <1>1, AccountCreated DEF Register
    <2>2. /\ request'[r].email = e /\ request'[r].role = role
          /\ \A q \in Requests \ {r} : request'[q] = request[q]
      <3>1. request' = [request EXCEPT
                          ![r] = [Idle EXCEPT !.at = "issue", !.email = e, !.role = role]]
        BY <1>1 DEF Register
      <3>2. /\ request'[r] = [Idle EXCEPT !.at = "issue", !.email = e, !.role = role]
            /\ \A q \in Requests \ {r} : request'[q] = request[q]
        BY <3>1 DEF TypeOK
      <3>3. QED
        BY <3>2 DEF Idle
    <2>3. session' = session
      BY <1>1 DEF Register
    <2>4. ASSUME NEW q \in Requests, request'[q].at = "issue"
          PROVE  /\ request'[q].email \in Emails /\ request'[q].role \in Role
                 /\ account'[request'[q].email] = request'[q].role
      <3>1. CASE q = r
        BY <1>n, <2>1, <2>2, <3>1
      <3>2. CASE q # r
        <4>1. /\ request'[q] = request[q]
              /\ request[q].email \in Emails /\ request[q].role \in Role
              /\ account[request[q].email] = request[q].role
          BY <2>2, <2>4, <3>2 DEF RolesKept
        <4>2. QED
          BY <1>n, <2>1, <4>1
      <3>3. QED
        BY <3>1, <3>2
    <2>5. QED
      BY <2>1, <2>3, <2>4 DEF RolesKept
  <1>2. ASSUME NEW r \in Requests, NEW role \in Role, SignIn(r, role, e)
        PROVE  RolesKept'
    <2>1. /\ request'[r].email = e /\ request'[r].role = role
          /\ \A q \in Requests \ {r} : request'[q] = request[q]
      <3>1. request' = [request EXCEPT
                          ![r] = [Idle EXCEPT !.at = "issue", !.email = e, !.role = role]]
        BY <1>2 DEF SignIn
      <3>2. /\ request'[r] = [Idle EXCEPT !.at = "issue", !.email = e, !.role = role]
            /\ \A q \in Requests \ {r} : request'[q] = request[q]
        BY <3>1 DEF TypeOK
      <3>3. QED
        BY <3>2 DEF Idle
    <2>2. account[e] = role /\ UNCHANGED <<account, profile, session>>
      BY <1>2 DEF SignIn, FindByEmail, accountVars
    <2>3. RolesAgree'
      BY <2>2 DEF RolesKept, RolesAgree
    <2>4. ASSUME NEW q \in Requests, request'[q].at = "issue"
          PROVE  /\ request'[q].email \in Emails /\ request'[q].role \in Role
                 /\ account'[request'[q].email] = request'[q].role
      <3>1. CASE q = r
        BY <2>1, <2>2, <3>1
      <3>2. CASE q # r
        BY <2>1, <2>2, <2>4, <3>2 DEF RolesKept
      <3>3. QED
        BY <3>1, <3>2
    <2>5. QED
      BY <2>2, <2>3, <2>4 DEF RolesKept
  <1>3. CASE CreateInternalAdmin(e)
    <2>1. /\ RolesAgree'
          /\ \A d \in Emails : account[d] # "none" => account'[d] = account[d]
      BY <1>n, <1>3, AccountCreated DEF CreateInternalAdmin
    <2>2. UNCHANGED <<session, request>>
      BY <1>3 DEF CreateInternalAdmin
    <2>3. QED
      BY <1>n, <2>1, <2>2 DEF RolesKept
  <1>4. QED
    BY <1>1, <1>2, <1>3

LEMMA StoreRoles ==
  ASSUME TypeOK, RolesKept, NEW r \in Requests,
         \/ \E t \in Tokens : IssueSession(r, t)
         \/ Revoke(r)
         \/ \E e \in Emails : RevokeAll(r, e)
         \/ \E t, new \in Tokens : Rotate(r, t, new)
  PROVE  RolesKept'
  <1>1. ASSUME NEW t \in Tokens, IssueSession(r, t)
        PROVE  RolesKept'
    <2>1. session' = [session EXCEPT ![t] = [status |-> "live", subject |-> request[r].email,
                                             door |-> request[r].role, login |-> {t}]]
      BY <1>1 DEF IssueSession, CreateSession
    <2>2. request[r].at = "issue" /\ UNCHANGED <<account, profile>>
      BY <1>1 DEF IssueSession, accountVars
    <2>3. \A q \in Requests : request'[q].at = "issue" => request'[q] = request[q]
      BY <1>1, ReturnState DEF IssueSession, Idle
    <2>4. /\ request[r].email \in Emails /\ request[r].role \in Role
          /\ account[request[r].email] = request[r].role
      BY <2>2 DEF RolesKept
    <2>5. ASSUME NEW u \in Tokens, session'[u].status # "none"
          PROVE  /\ session'[u].subject \in Emails /\ session'[u].door \in Role
                 /\ session'[u].door = account'[session'[u].subject]
      <3>1. CASE u = t
        BY <2>1, <2>2, <2>4, <3>1 DEF TypeOK
      <3>2. CASE u # t
        BY <2>1, <2>2, <2>5, <3>2 DEF RolesKept, RolesAgree, TypeOK
      <3>3. QED
        BY <3>1, <3>2
    <2>6. RolesAgree'
      BY <2>2, <2>5 DEF RolesKept, RolesAgree
    <2>7. \A q \in Requests :
             request'[q].at = "issue" =>
                /\ request'[q].email \in Emails /\ request'[q].role \in Role
                /\ account'[request'[q].email] = request'[q].role
      BY <2>2, <2>3 DEF RolesKept
    <2>8. QED
      BY <2>5, <2>6, <2>7 DEF RolesKept
  <1>2. ASSUME NEW S \in SUBSET Tokens, session' = WithRevoked(session, S),
               Goto(r, "purge", S), UNCHANGED accountVars
        PROVE  RolesKept'
    <2>1. \A q \in Requests : request'[q].at = "issue" => request'[q] = request[q]
      BY <1>2, GotoState DEF Step
    <2>2. \A t \in Tokens : /\ session'[t].status # "none" => session[t].status # "none"
                            /\ session'[t].subject = session[t].subject
                            /\ session'[t].door = session[t].door
      BY <1>2, WithRevokedRows DEF TypeOK
    <2>3. QED
      BY <1>2, <2>1, <2>2, SameRoles
  <1>3. CASE Revoke(r)
    BY <1>2, <1>3 DEF Revoke, TypeOK, RequestState
  <1>4. ASSUME NEW e \in Emails, RevokeAll(r, e)
        PROVE  RolesKept'
    BY <1>2, <1>4 DEF RevokeAll
  <1>5. ASSUME NEW t \in Tokens, NEW new \in Tokens, Rotate(r, t, new)
        PROVE  RolesKept'
    <2>1. \A q \in Requests : request'[q].at = "issue" => request'[q] = request[q]
      BY <1>5, GotoState DEF Rotate, Step
    <2>2. /\ session[t].status = "live" /\ UNCHANGED accountVars
          /\ session' = [session EXCEPT ![t].status = "revoked", ![new] = session[t]]
      BY <1>5 DEF Rotate, Active
    <2>3. \A s \in Tokens :
             \/ session'[s].subject = session[t].subject /\ session'[s].door = session[t].door
             \/ session'[s] = session[s]
      BY <2>2 DEF TypeOK, SessionRow
    <2>4. QED
      BY <2>1, <2>2, <2>3, SameRoles
  <1>6. QED
    BY <1>1, <1>3, <1>4, <1>5

LEMMA NextRoles == TypeOK /\ RolesKept /\ [Next]_vars => RolesKept'
  <1> SUFFICES ASSUME TypeOK, RolesKept, [Next]_vars PROVE RolesKept'
    OBVIOUS
  <1>1. ASSUME NEW r \in Requests, ReadStep(r)
        PROVE  RolesKept'
    <2>1. \A q \in Requests : request'[q].at = "issue" => request'[q] = request[q]
      BY <1>1, ReadStepMoves, GotoState, ReturnState DEF Idle
    <2>2. UNCHANGED accountVars /\ UNCHANGED session
      BY <1>1, ReadStepMoves DEF accountVars
    <2>3. QED
      BY <2>1, <2>2, SameRoles
  <1>2. CASE ClockStep \/ UNCHANGED vars
    BY <1>2, SameRoles DEF ClockStep, Expire, CacheExpires, vars, accountVars
  <1>3. QED
    BY <1>1, <1>2, AccountRoles, StoreRoles DEF Next, ReadStep, ClockStep

\* An account has the one profile of its type, and every session the role of it.
THEOREM RolesNeverCross == Spec => []RolesAgree
  <1>1. Init => RolesKept
    BY DEF Init, RolesKept, RolesAgree, NoSession, Idle
  <1>2. RolesKept => RolesAgree
    BY DEF RolesKept
  <1>3. QED
    BY <1>1, <1>2, NextRoles, TypeCorrect, PTL DEF Spec

-----------------------------------------------------------------------------
(***************************************************************************)
(* Rotation and revocation.                                                *)
(***************************************************************************)

\* Every session goes back to one sign-in, of a token that was issued, and of the
\* sessions of one sign-in at most one is live.
Lineage ==
    /\ \A t \in Tokens :
          session[t].status # "none" =>
              \E l \in Tokens : session[t].login = {l} /\ session[l].status # "none"
    /\ \A l \in Tokens : \A t, u \in LiveOf(l) : t = u

\* What OneLiveSession says of one step and one sign-in.
LineKept(l) ==
    session[l].status # "none" =>
        /\ LiveOf(l) = {} => LiveOf(l)' = {}
        /\ \A t, u \in LiveOf(l)' : t = u

\* What RevokedStaysOut says of the rows.
RevokedKept == \A t \in Tokens : session[t].status = "revoked" => session'[t].status = "revoked"

\* What a step does to the rows: nothing but revocations, a fresh session, or a
\* rotation.
OnlyRevoked ==
    \A t \in Tokens : /\ session'[t].login = session[t].login
                      /\ \/ session'[t].status = session[t].status
                         \/ session[t].status = "live" /\ session'[t].status = "revoked"

Issued(t) ==
    /\ session[t].status = "none"
    /\ session'[t].status = "live" /\ session'[t].login = {t}
    /\ \A u \in Tokens \ {t} : session'[u] = session[u]

Rotated(t, new) ==
    /\ session[t].status = "live" /\ session[new].status = "none"
    /\ session'[t].status = "revoked" /\ session'[t].login = session[t].login
    /\ session'[new] = session[t]
    /\ \A u \in Tokens \ {t, new} : session'[u] = session[u]

LEMMA SessionSteps ==
  ASSUME TypeOK, [Next]_vars
  PROVE  \/ OnlyRevoked
         \/ \E t \in Tokens : Issued(t)
         \/ \E t, new \in Tokens : Rotated(t, new)
  <1>1. ASSUME UNCHANGED session
        PROVE  OnlyRevoked
    BY <1>1 DEF OnlyRevoked
  <1>2. ASSUME NEW r \in Requests, NEW t \in Tokens, IssueSession(r, t)
        PROVE  Issued(t)
    BY <1>2 DEF IssueSession, CreateSession, Issued, TypeOK
  <1>3. ASSUME NEW S, session' = WithRevoked(session, S)
        PROVE  OnlyRevoked
    BY <1>3, WithRevokedRows DEF OnlyRevoked, TypeOK
  <1>4. ASSUME NEW r \in Requests, NEW t \in Tokens, NEW new \in Tokens, Rotate(r, t, new)
        PROVE  Rotated(t, new)
    BY <1>4 DEF Rotate, Active, Rotated, TypeOK, SessionRow
  <1>5. ASSUME NEW r \in Requests, Revoke(r) \/ \E e \in Emails : RevokeAll(r, e)
        PROVE  OnlyRevoked
    BY <1>3, <1>5 DEF Revoke, RevokeAll
  <1>6. ASSUME NEW r \in Requests, ReadStep(r)
        PROVE  OnlyRevoked
    BY <1>1, <1>6, ReadStepMoves
  <1>7. ASSUME NEW r, NEW role, NEW e, Register(r, role, e) \/ SignIn(r, role, e)
        PROVE  OnlyRevoked
    BY <1>1, <1>7 DEF Register, SignIn
  <1>8. CASE ClockStep \/ UNCHANGED vars \/ \E e \in Emails : CreateInternalAdmin(e)
    BY <1>1, <1>8 DEF ClockStep, Expire, CacheExpires, vars, CreateInternalAdmin
  <1>9. QED
    BY <1>2, <1>4, <1>5, <1>6, <1>7, <1>8 DEF Next, ReadStep, ClockStep

LEMMA LineStep ==
  ASSUME TypeOK, Lineage, [Next]_vars
  PROVE  /\ Lineage'
         /\ \A l \in Tokens : LineKept(l)
         /\ RevokedKept
  <1>1. CASE OnlyRevoked
    <2>1. \A l \in Tokens : LiveOf(l)' \subseteq LiveOf(l)
      BY <1>1 DEF OnlyRevoked, LiveOf
    <2>2. \A t \in Tokens : /\ session'[t].login = session[t].login
                            /\ session'[t].status = "none" <=> session[t].status = "none"
                            /\ session[t].status = "revoked" => session'[t].status = "revoked"
      BY <1>1 DEF OnlyRevoked
    <2>3. QED
      BY <2>1, <2>2 DEF Lineage, LineKept, RevokedKept
  <1>2. ASSUME NEW t \in Tokens, Issued(t)
        PROVE  /\ Lineage'
               /\ \A l \in Tokens : LineKept(l)
               /\ RevokedKept
    <2>1. LiveOf(t) = {}
      <3>1. SUFFICES ASSUME NEW u \in LiveOf(t)
                     PROVE  FALSE
        OBVIOUS
      <3>2. u \in Tokens /\ session[u].status # "none" /\ session[u].login = {t}
        BY <3>1 DEF LiveOf
      <3>3. PICK m \in Tokens : session[u].login = {m} /\ session[m].status # "none"
        BY <3>2 DEF Lineage
      <3>4. m = t
        BY <3>2, <3>3
      <3>5. QED
        BY <1>2, <3>3, <3>4 DEF Issued
    <2>2. LiveOf(t)' = {t}
      BY <1>2, <2>1 DEF Issued, LiveOf
    <2>3. \A l \in Tokens \ {t} : LiveOf(l)' = LiveOf(l)
      BY <1>2 DEF Issued, LiveOf
    <2>4. \A u \in Tokens : session[u].status # "none" => session'[u] = session[u]
      BY <1>2 DEF Issued
    <2>5. ASSUME NEW u \in Tokens, session'[u].status # "none"
          PROVE  \E l \in Tokens : session'[u].login = {l} /\ session'[l].status # "none"
      <3>1. CASE u = t
        BY <1>2, <3>1 DEF Issued
      <3>2. CASE u # t
        BY <1>2, <2>4, <2>5, <3>2 DEF Issued, Lineage
      <3>3. QED
        BY <3>1, <3>2
    <2>6. QED
      BY <1>2, <2>2, <2>3, <2>4, <2>5 DEF Issued, Lineage, LineKept, RevokedKept
  <1>3. ASSUME NEW t \in Tokens, NEW new \in Tokens, Rotated(t, new)
        PROVE  /\ Lineage'
               /\ \A l \in Tokens : LineKept(l)
               /\ RevokedKept
    <2>1. PICK m \in Tokens : session[t].login = {m} /\ session[m].status # "none"
      BY <1>3 DEF Rotated, Lineage
    <2>2. LiveOf(m) = {t}
      BY <1>3, <2>1 DEF Rotated, Lineage, LiveOf
    <2>3. LiveOf(m)' = {new}
      BY <1>3, <2>1, <2>2 DEF Rotated, LiveOf
    <2>4. \A l \in Tokens \ {m} : LiveOf(l)' = LiveOf(l)
      BY <1>3, <2>1 DEF Rotated, LiveOf
    <2>5. \A u \in Tokens : session[u].status # "none" =>
                               session'[u].login = session[u].login /\ session'[u].status # "none"
      BY <1>3 DEF Rotated
    <2>6. ASSUME NEW u \in Tokens, session'[u].status # "none"
          PROVE  \E l \in Tokens : session'[u].login = {l} /\ session'[l].status # "none"
      <3>1. CASE u = new
        BY <1>3, <2>1, <2>5, <3>1 DEF Rotated
      <3>2. CASE u # new
        <4>1. session[u].status # "none"
          BY <1>3, <2>6, <3>2 DEF Rotated
        <4>2. QED
          BY <2>5, <4>1 DEF Lineage
      <3>3. QED
        BY <3>1, <3>2
    <2>7. RevokedKept
      BY <1>3 DEF Rotated, RevokedKept
    <2>8. ASSUME NEW l \in Tokens
          PROVE  /\ LiveOf(l) = {} => LiveOf(l)' = {}
                 /\ \A u, v \in LiveOf(l)' : u = v
      BY <2>2, <2>3, <2>4 DEF Lineage
    <2>9. QED
      BY <2>6, <2>7, <2>8 DEF Lineage, LineKept
  <1>4. QED
    BY <1>1, <1>2, <1>3, SessionSteps

\* One sign-in is one live session at a time, and none again after it was revoked.
THEOREM OneSessionPerSignIn == Spec => OneLiveSession
  <1>1. Init => Lineage
    BY DEF Init, Lineage, LiveOf, NoSession
  <1>2. TypeOK /\ Lineage /\ [Next]_vars => Lineage'
    BY LineStep
  <1>3. TypeOK /\ Lineage /\ [Next]_vars =>
           [\A l \in Tokens :
              session[l].status # "none" =>
                  /\ LiveOf(l) = {} => LiveOf(l)' = {}
                  /\ \A t, u \in LiveOf(l)' : t = u]_vars
    BY LineStep DEF LineKept
  <1>4. QED
    BY <1>1, <1>2, <1>3, TypeCorrect, PTL DEF Spec, OneLiveSession

-----------------------------------------------------------------------------
\* A step that ends a request, or leaves the tokens it may serve, makes no copy.
LEMMA NoCopy ==
  ASSUME NEW t \in Tokens, t \in cached' => Copied(t),
         \A q \in Requests :
            request'[q].at \in {"fill", "account"} /\ t \in request'[q].tokens => Copied(t)
  PROVE  Copied(t)' => Copied(t)
  BY DEF Copied

\* A copy of a revoked session is made only from another copy: the cache is read
\* and filled from what was there before, and the store refuses the row.
LEMMA CopyStep ==
  ASSUME TypeOK, [Next]_vars, NEW t \in Tokens, session[t].status = "revoked"
  PROVE  Copied(t)' => Copied(t)
  <1>a. ASSUME NEW q \in Requests, request[q].at \in {"fill", "account"}, t \in request[q].tokens
        PROVE  Copied(t)
    BY <1>a DEF Copied
  <1>b. ASSUME t \in cached' => t \in cached, NEW r \in Requests,
               \A q \in Requests \ {r} : request'[q] = request[q],
               request'[r].at \in {"fill", "account"} /\ t \in request'[r].tokens => Copied(t)
        PROVE  Copied(t)' => Copied(t)
    BY <1>a, <1>b, NoCopy DEF Copied
  <1>1. ASSUME NEW r \in Requests, NEW u \in Tokens, ReadCache(r, u)
        PROVE  Copied(t)' => Copied(t)
    <2>1. CASE u \in cached
      BY <1>1, <1>b, <2>1, GotoState DEF ReadCache, Step, Copied
    <2>2. CASE u \notin cached
      BY <1>1, <1>b, <2>2, GotoState DEF ReadCache, Step
    <2>3. QED
      BY <2>1, <2>2
  <1>2. ASSUME NEW r \in Requests, ReadStore(r)
        PROVE  Copied(t)' => Copied(t)
    <2>1. PICK u \in request[r].tokens : IF Active(u) THEN Goto(r, "fill", {u}) ELSE Return(r)
      BY <1>2 DEF ReadStore, FindByTokenHash, Active
    <2>2. u \in Tokens /\ cached' = cached
      BY <1>2, <2>1 DEF ReadStore, TypeOK, RequestState
    <2>3. CASE Active(u) /\ Goto(r, "fill", {u})
      BY <1>b, <2>2, <2>3, GotoState DEF Step, Active
    <2>4. CASE Return(r)
      BY <1>b, <2>2, <2>4, ReturnState DEF Idle
    <2>5. QED
      BY <2>1, <2>3, <2>4
  <1>3. ASSUME NEW r \in Requests, Fill(r)
        PROVE  Copied(t)' => Copied(t)
    <2>1. /\ request[r].at = "fill" /\ request[r].tokens \in SUBSET Tokens
          /\ Goto(r, "account", request[r].tokens)
          /\ cached' = cached \/ cached' = cached \cup request[r].tokens
      BY <1>3 DEF Fill, TypeOK, RequestState
    <2>2. /\ request'[r].tokens = request[r].tokens
          /\ \A q \in Requests \ {r} : request'[q] = request[q]
      BY <2>1, GotoState DEF Step
    <2>3. CASE t \in request[r].tokens
      BY <1>a, <2>1, <2>3
    <2>4. CASE t \notin request[r].tokens
      BY <1>b, <2>1, <2>2, <2>4
    <2>5. QED
      BY <2>3, <2>4
  <1>4. ASSUME NEW r \in Requests,
               \/ LookUpAccount(r) \/ Abandon(r)
               \/ \E u \in Tokens : IssueSession(r, u)
        PROVE  Copied(t)' => Copied(t)
    <2>1. Return(r) /\ cached' = cached
      BY <1>4 DEF LookUpAccount, Abandon, IssueSession
    <2>2. QED
      BY <1>b, <2>1, ReturnState DEF Idle
  <1>5. ASSUME NEW r \in Requests, NEW S \in SUBSET Tokens, cached' = cached,
               Goto(r, "purge", S) \/ Goto(r, "signout", S)
        PROVE  Copied(t)' => Copied(t)
    BY <1>5, <1>b, GotoState DEF Step
  <1>6. ASSUME NEW r \in Requests, NEW u \in Tokens, SignOut(r, u)
        PROVE  Copied(t)' => Copied(t)
    BY <1>5, <1>6 DEF SignOut
  <1>7. ASSUME NEW r \in Requests,
               \/ Revoke(r) \/ \E e \in Emails : RevokeAll(r, e)
               \/ \E u, new \in Tokens : Rotate(r, u, new)
        PROVE  Copied(t)' => Copied(t)
    <2>1. request[r].tokens \in SUBSET Tokens
      BY DEF TypeOK, RequestState
    <2>2. PICK S \in SUBSET Tokens : Goto(r, "purge", S)
      BY <1>7, <2>1 DEF Revoke, RevokeAll, Rotate
    <2>3. QED
      BY <1>5, <1>7, <2>2 DEF Revoke, RevokeAll, Rotate
  <1>8. ASSUME NEW r \in Requests, NEW u \in Tokens, Purge(r, u)
        PROVE  Copied(t)' => Copied(t)
    <2>1. t \in cached' => t \in cached
      BY <1>8 DEF Purge
    <2>2. request[r].tokens \ {u} \in SUBSET Tokens
      BY DEF TypeOK, RequestState
    <2>3. CASE UNCHANGED request
      BY <1>a, <2>1, <2>3, NoCopy DEF Copied
    <2>4. CASE Return(r)
      BY <1>b, <2>1, <2>4, ReturnState DEF Idle
    <2>5. CASE Goto(r, "purge", request[r].tokens \ {u})
      BY <1>b, <2>1, <2>2, <2>5, GotoState DEF Step
    <2>6. QED
      BY <1>8, <2>3, <2>4, <2>5 DEF Purge
  <1>9. ASSUME NEW r \in Requests, NEW e \in Emails,
               \/ \E role \in PublicRole : Register(r, role, e)
               \/ \E role \in Role : SignIn(r, role, e)
        PROVE  Copied(t)' => Copied(t)
    <2>1. cached' = cached
      BY <1>9 DEF Register, SignIn
    <2>2. \E role : request' = [request EXCEPT
                       ![r] = [Idle EXCEPT !.at = "issue", !.email = e, !.role = role]]
      BY <1>9 DEF Register, SignIn
    <2>3. /\ request'[r].at = "issue"
          /\ \A q \in Requests \ {r} : request'[q] = request[q]
      BY <2>2 DEF TypeOK, Idle
    <2>4. QED
      BY <1>b, <2>1, <2>3
  <1>10. CASE ClockStep \/ UNCHANGED vars \/ \E e \in Emails : CreateInternalAdmin(e)
    <2>1. request' = request /\ cached' \subseteq cached
      BY <1>10 DEF ClockStep, Expire, CacheExpires, vars, CreateInternalAdmin
    <2>2. QED
      BY <1>a, <2>1, NoCopy DEF Copied
  <1>11. QED
    BY <1>1, <1>2, <1>3, <1>4, <1>6, <1>7, <1>8, <1>9, <1>10 DEF Next, Resolve, ClockStep

\* A revoked session stays revoked, and no new copy of it is ever made from scratch.
THEOREM RevokedIsOut == Spec => RevokedStaysOut
  <1>1. Init => Lineage
    BY DEF Init, Lineage, LiveOf, NoSession
  <1>2. TypeOK /\ Lineage /\ [Next]_vars => Lineage'
    BY LineStep
  <1>3. TypeOK /\ Lineage /\ [Next]_vars =>
           [\A t \in Tokens :
              session[t].status = "revoked" =>
                  /\ session'[t].status = "revoked"
                  /\ Copied(t)' => Copied(t)]_vars
    BY LineStep, CopyStep DEF RevokedKept
  <1>4. QED
    BY <1>1, <1>2, <1>3, TypeCorrect, PTL DEF Spec, RevokedStaysOut
=============================================================================
