---------------------------- MODULE PasswordReset ----------------------------
(***************************************************************************)
(* Forgotten passwords: forgotPasswordHandler and resetPasswordHandler of  *)
(* src/routes/auth/auth.handlers.ts over services/auth/                    *)
(* password-reset.service.ts, for one user, interleaved with the two       *)
(* handlers that open sessions, loginHandler and refreshTokenHandler.      *)
(* Every awaited database call that matters is a step; requests overlap.   *)
(*                                                                         *)
(* A reset token is a JWT over the user and the expiry in ms, which is also*)
(* stored as expiresAt: the expiry stands for the token.  Sessions are     *)
(* known by the password that opened them.  One of them may go by a logout,*)
(* an eviction or a cleanup, which Sessions.tla has, at any time; here only*)
(* a revocation takes them all, and a refresh may find its own gone.       *)
(***************************************************************************)
EXTENDS Integers, FiniteSets

CONSTANTS
    Requests,      \* slots for the requests in flight at one time
    ResetLife,     \* lifetime of a reset token (5 minutes)
    MaxTime,       \* bound on the clock
    MaxPasswords   \* bound on the number of password changes

ASSUME RequestsAssumption == IsFiniteSet(Requests)
ASSUME LifeAssumption     == ResetLife \in Nat
ASSUME BoundsAssumption   == MaxTime \in Nat /\ MaxPasswords \in Nat

VARIABLES
    now,
    reset,         \* the PasswordReset table: a function from 1 .. number of rows
    password,      \* which password the account has: 0 is the first one
    passwords,     \* the number of passwords set so far
    sessions,      \* the passwords whose sessions may be in the table
    mailed,        \* the tokens that reached the user
    req,           \* the local variables of each request in flight
    signed, signedTwice,  \* history: tokens signed, and signed more than once
    raced,         \* history: tokens stored while another request held the row
    spent,         \* history: tokens that a reset has marked used
    excused        \* history: old passwords whose sessions a reset may miss

table   == <<reset, password, passwords, sessions, mailed>>
history == <<signed, signedTwice, raced, spent, excused>>
vars    == <<now, table, req, history>>

Row == [expiresAt: Nat, isUsed: BOOLEAN]

\* row: the id of the row to update, 0 to create one; pw: the password that a
\* login checked, or that opened the session a refresh is for.
Request == [pc: {"idle", "sign", "store", "mail", "change", "mark", "revoke",
                 "renew", "open"},
            row: Nat, token: Nat, pw: Nat]

Idle == [pc |-> "idle", row |-> 0, token |-> 0, pw |-> 0]

Rows == DOMAIN reset
End(r) == req' = [req EXCEPT ![r] = Idle]

Init ==
    /\ now = 0
    /\ reset = << >>
    /\ password = 0 /\ passwords = 0
    /\ sessions = {} /\ mailed = {}
    /\ req = [r \in Requests |-> Idle]
    /\ signed = {} /\ signedTwice = {} /\ raced = {} /\ spent = {} /\ excused = {}

-----------------------------------------------------------------------------
(***************************************************************************)
(* POST /auth/forgot-password: requestPasswordReset finds one row of the   *)
(* user, any one.  None: create one.  An expired one: give it a new token. *)
(* One that has not expired: the user must wait, and nothing changes.      *)
(***************************************************************************)
AlwaysUpdate(i) == TRUE   \* mutant: the expiry of the row is not looked at
MayUpdate(i)    == reset[i].expiresAt < now

AlwaysCreate == TRUE   \* mutant: an earlier row is not looked for
MayCreate    == Rows = {}

FindExisting(r) ==
    /\ req[r].pc = "idle"
    /\ \E i \in Rows \union {0} :
          /\ IF i = 0 THEN MayCreate ELSE MayUpdate(i)
          /\ req' = [req EXCEPT ![r] = [Idle EXCEPT !.pc = "sign", !.row = i]]
    /\ UNCHANGED <<now, table, history>>

\* generatePasswordResetToken
Sign(r) ==
    /\ req[r].pc = "sign"
    /\ LET t == now + ResetLife IN
         /\ req' = [req EXCEPT ![r] = [@ EXCEPT !.pc = "store", !.token = t]]
         /\ signed' = signed \union {t}
         /\ signedTwice' = signedTwice \union ({t} \intersect signed)
    /\ UNCHANGED <<now, table, raced, spent, excused>>

\* passwordReset.create and passwordReset.update; token is unique (P2002).
Taken(t, self) == \E i \in Rows \ {self} : reset[i].expiresAt = t

\* The other requests that are about to give the row a new token.
Rivals(row, self) ==
    {q \in Requests \ {self} : req[q].pc \in {"sign", "store"} /\ req[q].row = row}

Store(r) ==
    /\ req[r].pc = "store"
    /\ LET t   == req[r].token
           row == IF req[r].row = 0 THEN Cardinality(Rows) + 1 ELSE req[r].row
       IN \/ /\ ~Taken(t, row)
             /\ reset' = [i \in Rows \union {row} |->
                            IF i = row THEN [expiresAt |-> t, isUsed |-> FALSE]
                            ELSE reset[i]]
             /\ raced' = IF Rivals(row, r) = {} THEN raced ELSE raced \union {t}
             /\ req' = [req EXCEPT ![r].pc = "mail"]
          \/ /\ Taken(t, row)
             /\ End(r)
             /\ UNCHANGED <<reset, raced>>
    /\ UNCHANGED <<now, password, passwords, sessions, mailed>>
    /\ UNCHANGED <<signed, signedTwice, spent, excused>>

\* The token is queued for the e-mail and returned in the response.
Mail(r) ==
    /\ req[r].pc = "mail"
    /\ mailed' = mailed \union {req[r].token}
    /\ End(r)
    /\ UNCHANGED <<now, reset, password, passwords, sessions, history>>

(***************************************************************************)
(* POST /auth/reset-password: find the row by the token, refuse a used one,*)
(* check the expiry, set the password, mark the row used, delete every     *)
(* session.  A refusal changes nothing.                                    *)
(***************************************************************************)
\* The check reads a claim "exp" that createTokenPayload does not write: the
\* date is invalid, and no comparison with an invalid date holds.
TokenExpired(t) == FALSE

Usable(t) == \E i \in Rows : reset[i].expiresAt = t /\ ~reset[i].isUsed

FindUsable(r, t) ==
    /\ req[r].pc = "idle"
    /\ Usable(t)
    /\ ~TokenExpired(t)
    /\ req' = [req EXCEPT ![r] = [Idle EXCEPT !.pc = "change", !.token = t]]
    /\ UNCHANGED <<now, table, history>>

UnawaitedHash == -1   \* mutant: a pending promise is stored as the password
NewPassword   == passwords + 1

ChangePassword(r) ==
    /\ req[r].pc = "change"
    /\ passwords < MaxPasswords
    /\ passwords' = passwords + 1
    /\ password' = NewPassword
    /\ req' = [req EXCEPT ![r].pc = "mark"]
    /\ UNCHANGED <<now, reset, sessions, mailed, history>>

\* Requests that may still open a session: logins that have passed the password
\* check, refreshes that have found the session of their token.
Opening == {r \in Requests : req[r].pc \in {"renew", "open"}}

\* Old passwords of those requests, whose sessions a revocation now would miss,
\* and of the sessions in the table.
OldInFlight == {req[r].pw : r \in Opening} \ {password}
OldSessions == sessions \ {password}

LeftUnused(row) == row   \* mutant: the update writes nothing
Marked(row)     == [row EXCEPT !.isUsed = TRUE]

\* A token that a new request has replaced meanwhile is not found (P2025), and
\* the handler ends with a 500 before it deletes the sessions.
MarkUsed(r) ==
    /\ req[r].pc = "mark"
    /\ LET Found == {i \in Rows : reset[i].expiresAt = req[r].token} IN
       \/ /\ Found # {}
          /\ reset' = [i \in Rows |-> IF i \in Found THEN Marked(reset[i])
                                      ELSE reset[i]]
          /\ req' = [req EXCEPT ![r].pc = "revoke"]
          /\ spent' = spent \union {req[r].token}
          /\ UNCHANGED excused
       \/ /\ Found = {}
          /\ End(r)
          /\ excused' = excused \union OldSessions \union OldInFlight
          /\ UNCHANGED <<reset, spent>>
    /\ UNCHANGED <<now, password, passwords, sessions, mailed>>
    /\ UNCHANGED <<signed, signedTwice, raced>>

DeleteOneSession(r) ==   \* mutant: delete for deleteMany
    /\ req[r].pc = "revoke"
    /\ \E pw \in sessions \union {password} : sessions' = sessions \ {pw}
    /\ excused' = OldInFlight
    /\ End(r)
    /\ UNCHANGED <<now, reset, password, passwords, mailed>>
    /\ UNCHANGED <<signed, signedTwice, raced, spent>>

DeleteAllUserSessions(r) ==
    /\ req[r].pc = "revoke"
    /\ sessions' = {}
    /\ excused' = OldInFlight
    /\ End(r)
    /\ UNCHANGED <<now, reset, password, passwords, mailed>>
    /\ UNCHANGED <<signed, signedTwice, raced, spent>>

(***************************************************************************)
(* POST /auth/login, as far as passwords go: loginUser checks the password,*)
(* later calls open the session.  PATCH /auth/refresh checks none: it finds*)
(* the session of its token, then looks it up again by its id.             *)
(***************************************************************************)
CheckPassword(r) ==
    /\ req[r].pc = "idle"
    /\ req' = [req EXCEPT ![r] = [Idle EXCEPT !.pc = "open", !.pw = password]]
    /\ UNCHANGED <<now, table, history>>

\* loginUserByRefreshToken, the last of the lookups by token.
FindRefreshToken(r) ==
    /\ req[r].pc = "idle"
    /\ \E pw \in sessions :
          req' = [req EXCEPT ![r] = [Idle EXCEPT !.pc = "renew", !.pw = pw]]
    /\ UNCHANGED <<now, table, history>>

\* The session is still there, and updateSession keeps the password it goes by;
\* or it is gone, by a revocation or alone, and a new one opens.
GetSessionById(r) ==
    /\ req[r].pc = "renew"
    /\ \/ req[r].pw \in sessions /\ End(r)
       \/ req' = [req EXCEPT ![r].pc = "open"]
    /\ UNCHANGED <<now, table, history>>

\* createSession, for a login and for a refresh.
OpenSession(r) ==
    /\ req[r].pc = "open"
    /\ sessions' = sessions \union {req[r].pw}
    /\ End(r)
    /\ UNCHANGED <<now, reset, password, passwords, mailed, history>>

\* A database error or a restart ends a request between two of its steps.
Fail(r) ==
    /\ req[r].pc # "idle"
    /\ End(r)
    /\ excused' = IF req[r].pc \in {"mark", "revoke"}
                  THEN excused \union OldSessions \union OldInFlight ELSE excused
    /\ UNCHANGED <<now, table, signed, signedTwice, raced, spent>>

Tick ==
    /\ now < MaxTime
    /\ now' = now + 1
    /\ UNCHANGED <<table, req, history>>

Next ==
    \/ \E r \in Requests :
        \/ FindExisting(r)
        \/ Sign(r)
        \/ Store(r)
        \/ Mail(r)
        \/ \E t \in mailed : FindUsable(r, t)
        \/ ChangePassword(r)
        \/ MarkUsed(r)
        \/ DeleteAllUserSessions(r)
        \/ CheckPassword(r)
        \/ FindRefreshToken(r)
        \/ GetSessionById(r)
        \/ OpenSession(r)
        \/ Fail(r)
    \/ Tick

Spec == Init /\ [][Next]_vars

-----------------------------------------------------------------------------
(***************************************************************************)
(* Properties.                                                             *)
(***************************************************************************)
TypeOK ==
    /\ now \in Nat /\ password \in Nat /\ passwords \in Nat
    /\ Rows = 1 .. Cardinality(Rows)
    /\ \A i \in Rows : reset[i] \in Row
    /\ sessions \subseteq Nat /\ mailed \subseteq Nat
    /\ req \in [Requests -> Request]
    /\ \A h \in {signed, signedTwice, raced, spent, excused} : h \subseteq Nat

\* The requests that found no row and are about to create one.
Creating == {r \in Requests : req[r].pc \in {"sign", "store"} /\ req[r].row = 0}

\* requestPasswordReset means a user to have one row, but finds before it
\* creates, and no column is unique per user.  Concurrent requests can create
\* one row each, and no later request adds one: at most as many reset tokens
\* are usable at a time as requests overlapped.
RowsBoundedByConcurrency ==
    Cardinality(Rows) + Cardinality(Creating) <= Cardinality(Requests)

\* Once a reset has used a token, the token opens no other reset, although the
\* row is reused for later tokens.  The one exception is a token that two
\* overlapping forgot-password requests signed in the same millisecond: the
\* slower one stores it again as unused.
SpentTokensStaySpent ==
    \A t \in spent : Usable(t) => t \in signedTwice

\* A user who waits for the mail is never overtaken by a later request: a token
\* that was mailed works until it has been used or has expired.  The one
\* exception is a token that was stored while an overlapping forgot-password
\* request, which had found the same row expired, was about to replace it.
MailedTokensWork ==
    \A t \in mailed : Usable(t) \/ t \in spent \/ t < now \/ t \in raced

\* A reset means to end every session opened with an earlier password. The only
\* old sessions ever left when no reset is half way are those of logins that
\* had passed the password check before the latest revocation, of refreshes that
\* had found their session before it, which find it deleted and open a new one,
\* and those that a reset left when it ended with an error after it had changed
\* the password.
OldSessionsExplained ==
    \A pw \in sessions :
        \/ pw = password
        \/ pw \in excused
        \/ \E r \in Requests : req[r].pc \in {"mark", "revoke"}

\* token.service.ts: reset tokens last "5 minutes", and the handler answers
\* "Token expired".  Violated: an expired token still changes the password.
ExpiredTokensRefused ==
    [][\A r \in Requests : req[r].pc = "idle" /\ req'[r].pc = "change"
                              => req'[r].token >= now]_vars
=============================================================================
