------------------------------ MODULE Sessions ------------------------------
(***************************************************************************)
(* The session table and the handlers that read and write it: login,       *)
(* refresh, logout and session list (src/routes/auth/auth.handlers.ts over *)
(* src/services/auth/session.service.ts), plus the revocation that ends a  *)
(* password reset.  A handler is a chain of awaited database calls; each   *)
(* call is one step here, and the steps of concurrent requests interleave. *)
(*                                                                         *)
(* A token is a JWT over (user id, email, role, expires in ms), so what    *)
(* tells two tokens of one column apart is the user and the expiry: a row  *)
(* needs no token column, and two tokens minted for one user in the same   *)
(* millisecond are the same string.                                        *)
(***************************************************************************)
EXTENDS Integers, FiniteSets

CONSTANTS
    Users,         \* user ids
    Requests,      \* slots for the requests in flight at one time
    MaxSessions,   \* MAX_SESSIONS of session.service.ts (5)
    AccessLife,    \* lifetime of an access token (2 days)
    RefreshLife,   \* lifetime of a refresh token (30 days)
    MaxTime,       \* bound on the clock
    MaxRows        \* bound on the number of rows ever inserted

ASSUME UsersAssumption       == Users # {}
ASSUME RequestsAssumption    == IsFiniteSet(Requests)
ASSUME MaxSessionsAssumption == MaxSessions \in Nat \ {0}
ASSUME LifetimeAssumption    == AccessLife \in Nat /\ RefreshLife \in Nat
ASSUME BoundsAssumption      == MaxTime \in Nat /\ MaxRows \in Nat

VARIABLES
    now,       \* new Date()
    session,   \* the Session table: a function from the ids of its rows
    nextId,    \* the next id @default(uuid()) has not produced yet
    req,       \* what each request in flight keeps in its local variables
    loggedOut, \* history: the logins that a logout has ended
    contested  \* history: the logins a request overtook a refresh on

history == <<loggedOut, contested>>
vars == <<now, session, nextId, req, history>>

(***************************************************************************)
(* Rows and requests.                                                      *)
(***************************************************************************)
\* login is history, not a column: the id of the session that the
\* credentials opened, handed on to the rows that refreshes derive from it.
Row == [user: Users, expireAt: Nat, refreshTokenExpiresAt: Nat,
        createdAt: Nat, updatedAt: Nat, login: Nat]

AccessToken(row)  == <<row.user, row.expireAt>>
RefreshToken(row) == <<row.user, row.refreshTokenExpiresAt>>

Steps == {"idle", "reread", "cleanup", "find", "evict", "lookup", "create",
          "update", "logoutFind", "delete", "listFind"}

\* mint: when the new tokens were signed; sid: the id loginUserByRefreshToken
\* returns; token: the expiry of the token presented; victims:
\* sessionsToDelete; login: history, see Row.
Request == [pc: Steps, op: {"none", "login", "refresh", "logout", "list"},
            user: Users, token: Nat, mint: Nat, sid: Nat,
            victims: SUBSET Nat, login: Nat]

\* Any user: the value of a field that a request does not use yet.
SomeUser == CHOOSE u \in Users : TRUE

Idle == [pc |-> "idle", op |-> "none", user |-> SomeUser, token |-> 0,
         mint |-> 0, sid |-> 0, victims |-> {}, login |-> 0]

Ids        == DOMAIN session
Expired(i) == session[i].expireAt < now
Active(u)  == {i \in Ids : session[i].user = u /\ ~Expired(i)}

\* The expiries generateAuthTokens signs into the tokens minted at a time.
AccessExpires(mint)  == mint + AccessLife
RefreshExpiresBackwards(mint) == mint - RefreshLife  \* mutant: the sign is wrong
RefreshExpires(mint) == mint + RefreshLife

\* The rows left by a deleteMany or a delete of the rows D.
Without(D) == [i \in Ids \ D |-> session[i]]

\* prisma.session.create and update reject a token another row has (P2002).
Unique(u, mint, self) ==
    \A i \in Ids \ self :
        session[i].user = u =>
            /\ session[i].expireAt # AccessExpires(mint)
            /\ session[i].refreshTokenExpiresAt # RefreshExpires(mint)

\* The logins that refreshes in flight have found and will give new tokens.
Renewing(r) == req[r].op = "refresh" /\ req[r].pc # "reread"
Renewed     == {req[r].login : r \in {q \in Requests : Renewing(q)}}

Goto(r, step) == req' = [req EXCEPT ![r].pc = step]
End(r)        == req' = [req EXCEPT ![r] = Idle]

Init ==
    /\ now = 0
    /\ session = << >>
    /\ nextId = 1
    /\ req = [r \in Requests |-> Idle]
    /\ loggedOut = {} /\ contested = {}

-----------------------------------------------------------------------------
(***************************************************************************)
(* POST /auth/login.  loginUser has checked the password and signed the    *)
(* two tokens; wrong credentials end the request and change nothing.       *)
(***************************************************************************)
BeginLogin(r, u) ==
    /\ req[r].pc = "idle"
    /\ req' = [req EXCEPT ![r] = [Idle EXCEPT !.pc = "cleanup", !.op = "login",
                                              !.user = u, !.mint = now]]
    /\ UNCHANGED <<now, session, nextId, history>>

(***************************************************************************)
(* POST /auth/refresh.  validateRefreshToken finds the row of the token    *)
(* and checks refreshTokenExpiresAt; loginUserByRefreshToken finds it once *)
(* more, checks again and signs two new tokens.                            *)
(***************************************************************************)
BeginRefresh(r, i) ==
    /\ req[r].pc = "idle"
    /\ session[i].refreshTokenExpiresAt >= now
    /\ req' = [req EXCEPT ![r] = [Idle EXCEPT !.pc = "reread", !.op = "refresh",
                                    !.user = session[i].user,
                                    !.token = session[i].refreshTokenExpiresAt]]
    /\ UNCHANGED <<now, session, nextId, history>>

SameExpiry(r, i) == session[i].refreshTokenExpiresAt = req[r].token  \* mutant: any user
HasRefreshToken(r, i) == RefreshToken(session[i]) = <<req[r].user, req[r].token>>

Reread(r) ==
    /\ req[r].pc = "reread"
    /\ \/ \E i \in Ids :
            /\ HasRefreshToken(r, i)
            /\ session[i].refreshTokenExpiresAt >= now
            /\ req' = [req EXCEPT ![r] = [@ EXCEPT !.pc = "cleanup", !.mint = now,
                                  !.token = 0, !.sid = i, !.login = session[i].login]]
            /\ contested' = contested \union ({session[i].login} \intersect Renewed)
       \/ /\ \A i \in Ids : HasRefreshToken(r, i)
                                => session[i].refreshTokenExpiresAt < now
          /\ End(r)
          /\ UNCHANGED contested
    /\ UNCHANGED <<now, session, nextId, loggedOut>>

(***************************************************************************)
(* manageUserSessions (and getUserSessions): delete the expired rows, read *)
(* the active ones oldest first, delete the oldest until one place is      *)
(* free.  Rows with the same createdAt come back in any order.             *)
(***************************************************************************)
ExpiringRows(u) == {i \in Ids : session[i].user = u
                               /\ session[i].expireAt <= now} \* mutant: lte
ExpiredRows(u)  == {i \in Ids : session[i].user = u /\ Expired(i)}

CleanupExpiredSessions(r) ==
    /\ req[r].pc = "cleanup"
    /\ session' = Without(ExpiredRows(req[r].user))
    /\ Goto(r, IF req[r].op = "list" THEN "listFind" ELSE "find")
    /\ UNCHANGED <<now, nextId, history>>

\* sessions.slice(0, n) of the rows A ordered by createdAt
IsNewest(V, A) ==  \* mutant: ordered by createdAt desc
    \A v \in V, w \in A \ V : session[v].createdAt >= session[w].createdAt

IsOldest(V, A) ==
    \A v \in V, w \in A \ V : session[v].createdAt <= session[w].createdAt

CapExceeded(A) == Cardinality(A) > MaxSessions   \* mutant: > for >=
CapReached(A)  == Cardinality(A) >= MaxSessions

Surplus(A) == Cardinality(A) - MaxSessions      \* mutant: no place for the new one
Excess(A)  == Cardinality(A) - MaxSessions + 1

AfterManage(r) == IF req[r].op = "login" THEN "create" ELSE "lookup"

GetActiveSessions(r) ==
    /\ req[r].pc = "find"
    /\ LET A == Active(req[r].user) IN
       \/ /\ ~CapReached(A)
          /\ Goto(r, AfterManage(r))
       \/ /\ CapReached(A)
          /\ \E V \in SUBSET A :
               /\ Cardinality(V) = Excess(A)
               /\ IsOldest(V, A)
               /\ req' = [req EXCEPT ![r] = [@ EXCEPT !.pc = "evict", !.victims = V]]
    /\ UNCHANGED <<now, session, nextId, history>>

Evict(r) ==
    /\ req[r].pc = "evict"
    /\ session' = Without(req[r].victims)
    /\ req' = [req EXCEPT ![r] = [@ EXCEPT !.pc = AfterManage(r), !.victims = {}]]
    /\ UNCHANGED <<now, nextId, history>>

(***************************************************************************)
(* The refresh handler goes on with getSessionById: the row may be gone    *)
(* (expired, evicted by this very request, logged out meanwhile), and then *)
(* the handler opens a new session.                                        *)
(***************************************************************************)
CreateAlways(r) ==  \* mutant: a refresh never looks for its session
    /\ req[r].pc = "lookup"
    /\ Goto(r, "create")
    /\ UNCHANGED <<now, session, nextId, history>>

GetSessionById(r) ==
    /\ req[r].pc = "lookup"
    /\ Goto(r, IF req[r].sid \in Ids THEN "update" ELSE "create")
    /\ UNCHANGED <<now, session, nextId, history>>

\* A token collision ends the request with a 500.
CreateSession(r) ==
    /\ req[r].pc = "create"
    /\ \/ /\ Unique(req[r].user, req[r].mint, {})
          /\ nextId <= MaxRows
          /\ session' = [i \in Ids \union {nextId} |->
                IF i # nextId THEN session[i]
                ELSE [user |-> req[r].user, expireAt |-> AccessExpires(req[r].mint),
                      refreshTokenExpiresAt |-> RefreshExpires(req[r].mint),
                      createdAt |-> now, updatedAt |-> now,
                      login |-> IF req[r].op = "login" THEN nextId ELSE req[r].login]]
          /\ nextId' = nextId + 1
       \/ /\ ~Unique(req[r].user, req[r].mint, {})
          /\ UNCHANGED <<session, nextId>>
    /\ End(r)
    /\ UNCHANGED <<now, history>>

\* A row that is gone (P2025) or a token collision ends the request with a 500.
UpdateSession(r) ==
    /\ req[r].pc = "update"
    /\ \/ /\ req[r].sid \in Ids
          /\ Unique(req[r].user, req[r].mint, {req[r].sid})
          /\ session' = [session EXCEPT
                ![req[r].sid].expireAt = AccessExpires(req[r].mint),
                ![req[r].sid].refreshTokenExpiresAt = RefreshExpires(req[r].mint),
                ![req[r].sid].updatedAt = now]
       \/ /\ \/ req[r].sid \notin Ids
             \/ ~Unique(req[r].user, req[r].mint, {req[r].sid})
          /\ UNCHANGED session
    /\ End(r)
    /\ UNCHANGED <<now, nextId, history>>

(***************************************************************************)
(* The handlers behind validateToken, which finds the row of the access    *)
(* token and rejects it once expired: logout finds the row again and then  *)
(* deletes it by its token; the list cleans up and reads.                  *)
(***************************************************************************)
BeginAuthenticated(r, i, op, step) ==
    /\ req[r].pc = "idle"
    /\ ~Expired(i)
    /\ req' = [req EXCEPT ![r] = [Idle EXCEPT !.pc = step, !.op = op,
                                    !.user = session[i].user,
                                    !.token = session[i].expireAt]]
    /\ UNCHANGED <<now, session, nextId, history>>

BeginLogout(r, i) == BeginAuthenticated(r, i, "logout", "logoutFind")
BeginList(r, i)   == BeginAuthenticated(r, i, "list", "cleanup")

Presented(r) == {i \in Ids : AccessToken(session[i]) = <<req[r].user, req[r].token>>}

FindSessionByToken(r) ==
    /\ req[r].pc = "logoutFind"
    /\ IF Presented(r) # {} THEN Goto(r, "delete") ELSE End(r)
    /\ UNCHANGED <<now, session, nextId, history>>

\* History: the logins that end here, also of refreshes in flight.
Logout(logins) ==
    /\ loggedOut' = loggedOut \union logins
    /\ contested' = contested \union (logins \intersect Renewed)

ExpireSession(r) ==  \* mutant: logout only ends the access token
    /\ req[r].pc = "delete"
    /\ session' = [i \in Ids |-> IF i \in Presented(r) /\ now > 0
                                THEN [session[i] EXCEPT !.expireAt = now - 1]
                                ELSE session[i]]
    /\ Logout({session[i].login : i \in Presented(r)})
    /\ End(r)
    /\ UNCHANGED <<now, nextId>>

\* A row that is gone (P2025) ends the request with a 500.
DeleteSession(r) ==
    /\ req[r].pc = "delete"
    /\ session' = Without(Presented(r))
    /\ Logout({session[i].login : i \in Presented(r)})
    /\ End(r)
    /\ UNCHANGED <<now, nextId>>

ListSessions(r) ==
    /\ req[r].pc = "listFind"
    /\ End(r)
    /\ UNCHANGED <<now, session, nextId, history>>

(***************************************************************************)
(* The environment: a database error, a dropped connection or a restart    *)
(* ends a request between any two of its steps; the last call of a         *)
(* password reset deletes every session of its user; time passes.          *)
(***************************************************************************)
Fail(r) ==
    /\ req[r].pc # "idle"
    /\ End(r)
    /\ UNCHANGED <<now, session, nextId, history>>

DeleteAllUserSessions(u) ==
    /\ \E i \in Ids : session[i].user = u
    /\ session' = Without({i \in Ids : session[i].user = u})
    /\ UNCHANGED <<now, nextId, req, history>>

Tick ==
    /\ now < MaxTime
    /\ now' = now + 1
    /\ UNCHANGED <<session, nextId, req, history>>

Next ==
    \/ \E r \in Requests :
        \/ \E u \in Users : BeginLogin(r, u)
        \/ \E i \in Ids : BeginRefresh(r, i)
        \/ \E i \in Ids : BeginLogout(r, i)
        \/ \E i \in Ids : BeginList(r, i)
        \/ Reread(r)
        \/ CleanupExpiredSessions(r)
        \/ GetActiveSessions(r)
        \/ Evict(r)
        \/ GetSessionById(r)
        \/ CreateSession(r)
        \/ UpdateSession(r)
        \/ FindSessionByToken(r)
        \/ DeleteSession(r)
        \/ ListSessions(r)
        \/ Fail(r)
    \/ \E u \in Users : DeleteAllUserSessions(u)
    \/ Tick

Spec == Init /\ [][Next]_vars

-----------------------------------------------------------------------------
(***************************************************************************)
(* Properties.                                                             *)
(***************************************************************************)
\* Types of the variables: every row has an id that was handed out.
TypeOK ==
    /\ now \in Nat
    /\ nextId \in Nat \ {0}
    /\ Ids \subseteq 1 .. (nextId - 1)
    /\ \A i \in Ids : session[i] \in Row
    /\ req \in [Requests -> Request]
    /\ loggedOut \subseteq Nat /\ contested \subseteq Nat

\* README: "Max Sessions: 5 active sessions per user".
SessionCap == \A u \in Users : Cardinality(Active(u)) <= MaxSessions

\* What the code guarantees: manageUserSessions and createSession are separate
\* calls, so each further concurrent request can overshoot the cap by one
\* session, and no history of requests overshoots it by more.
SessionCapUpToConcurrency ==
    \A u \in Users :
        Cardinality(Active(u)) <= MaxSessions + Cardinality(Requests) - 1

\* The requests of u that have chosen their victims and not deleted them yet,
\* and those that may add an active session in one of their next steps.
Evicting(u) == {r \in Requests : req[r].user = u /\ req[r].pc = "evict"}
Adding(u)   == {r \in Requests : req[r].user = u
                              /\ req[r].pc \in {"create", "lookup", "update"}}

\* The inductive form of SessionCapUpToConcurrency.  Whichever of the pending
\* evictions T happen first, the sessions they leave and the requests that may
\* then add one fit together under the bound.
CapInv ==
    \A u \in Users : \A T \in SUBSET Evicting(u) :
        Cardinality(Active(u) \ UNION {req[r].victims : r \in T})
          + Cardinality(Adding(u) \union T)
        <= MaxSessions - 1 + Cardinality(Requests)

\* A refresh holds on to the id of the row it found across five awaited calls.
\* Whatever happens to that row meanwhile, the id never comes to name a session
\* of another user, so updateSession rewrites only its own user's session.
RefreshTargetsOwnUser ==
    \A r \in Requests : req[r].sid # 0 =>
        /\ req[r].sid < nextId
        /\ req[r].sid \in Ids => session[req[r].sid].user = req[r].user

\* Eviction takes the oldest sessions although it acts on an earlier read:
\* what other requests insert, delete, refresh or let expire between the read
\* and the deleteMany never makes it delete a session opened after the last use
\* of one it spares: its creation, or the refresh that revived or extended it.
VictimsAreOldest ==
    \A r \in Requests : \A v \in req[r].victims \intersect Ids :
        \A w \in Active(req[r].user) \ req[r].victims :
            session[v].createdAt <= session[w].updatedAt

\* The causes for which a step may delete the session i: it is a victim of an
\* eviction of its own user, a logout presented its token, or all the sessions
\* of its user go.
Revoked(i) ==
    \/ \E r \in Requests : /\ req[r].user = session[i].user
                           /\ \/ i \in req[r].victims
                              \/ req[r].pc = "delete" /\ i \in Presented(r)
    \/ \A j \in Ids' : session'[j].user # session[i].user

\* No device is logged out without a cause: a session that validateToken still
\* accepts leaves the table only by one of them, whatever the cleanups of
\* overlapping requests read and delete at the boundary of its expiry.
LiveSessionsLeaveForCause ==
    [][\A i \in Ids : ~Expired(i) /\ i \notin Ids' => Revoked(i)]_vars

\* README: "JWT access token (2 days) + refresh token (30 days)".  A session
\* that validateRefreshToken still accepts leaves the table for the same causes
\* only.  Violated: cleanupExpiredSessions goes by the expiry of the access
\* token, so any login or session list of the user ends it after 2 days.
RefreshTokensLastTheirLife ==
    [][\A i \in Ids : session[i].refreshTokenExpiresAt >= now /\ i \notin Ids'
                        => Revoked(i)]_vars

\* One login, one session: a refresh replaces the session it came from, also
\* when that session is evicted, cleaned up or revoked in the middle of it, and
\* whatever goes on for other logins. The exception is a login that two refreshes
\* held at one time: each may have opened a session.
OneSessionPerLogin ==
    \A i, j \in Ids :
        session[i].login = session[j].login /\ session[i].login \notin contested => i = j

\* Logout is final: no refresh brings the login back. The exception is a login
\* that a refresh held at the time of the logout, and the contested ones above,
\* of whose sessions a logout ends one.
LogoutIsFinal ==
    \A i \in Ids : session[i].login \in loggedOut => session[i].login \in contested
=============================================================================
