------------------------------ MODULE Accounts ------------------------------
(***************************************************************************)
(* Registration and e-mail verification: registerHandler, the resend and   *)
(* the verify handler of src/routes/auth/auth.handlers.ts over services/   *)
(* auth/auth.service.ts and email-verification.service.ts, for one e-mail  *)
(* address in its different spellings.  Requests overlap at every await    *)
(* that can tell; two reads in a row are one step.                         *)
(*                                                                         *)
(* A verification row that has been used is refused like one that never    *)
(* was, so only unused rows are kept.  Signing the same token twice ends   *)
(* the second request like a failure (P2002).  Usernames take the same     *)
(* path as e-mail addresses.                                               *)
(***************************************************************************)
EXTENDS Integers, FiniteSets, Sequences

CONSTANTS
    Requests,      \* slots for the requests in flight at one time
    Spellings,     \* the spellings of the address, upper and lower case
    Lower,         \* the one all in lower case
    Wait,          \* time between two verification mails (5 minutes)
    Life,          \* lifetime of a verification token (2 days)
    Prompt,        \* TRUE when requests and mails take less than a unit of time
    MaxUsers       \* bound on the number of accounts

ASSUME RequestsAssumption == IsFiniteSet(Requests)
ASSUME LowerAssumption    == Lower \in Spellings
ASSUME TimesAssumption    == Wait \in Nat /\ Life \in Nat
ASSUME PromptAssumption   == Prompt \in BOOLEAN
ASSUME BoundsAssumption   == MaxUsers \in Nat

VARIABLES
    users,         \* the User table; seen: how many it had at the lookup
    unused,        \* the unused EmailVerification rows, by token: user and age
    latest,        \* the age of each user's newest row, up to Wait
    queued,        \* the unused tokens on their way to the user by mail
    mailed,        \* the unused tokens that reached the user
    req            \* the local variables of each request in flight

vars == <<users, unused, latest, queued, mailed, req>>

\* Enough tokens for what can be unused or in a request's hands.
Tokens  == 1 .. (MaxUsers + 1) * Cardinality(Requests)
Users   == 1 .. MaxUsers
User    == [email: Spellings, verified: BOOLEAN, seen: Nat]
Row     == [user: Users, age: 0 .. Life + 1]
Request == [pc: {"idle", "create", "insert", "mail", "invalidate", "renew", "remail",
                 "mark", "verify"},
            email: Spellings, seen: Nat, user: 0 .. MaxUsers, token: Tokens \union {0}]
Idle    == [pc |-> "idle", email |-> Lower, seen |-> 0, user |-> 0, token |-> 0]

At(r, pc)    == req[r].pc = pc
Go(r, pc)    == req' = [req EXCEPT ![r].pc = pc]
End(r)       == req' = [req EXCEPT ![r] = Idle]
RowsOf(u)    == {t \in DOMAIN unused : unused[t].user = u}

KeepMailed(ts) ==   \* mutant: a mailed token stays usable when its row is used
    /\ unused' = [t \in DOMAIN unused \ ts |-> unused[t]]
    /\ UNCHANGED <<queued, mailed>>

Drop(ts) ==
    /\ unused' = [t \in DOMAIN unused \ ts |-> unused[t]]
    /\ queued' = queued \ ts
    /\ mailed' = mailed \ ts

Init ==
    /\ users = << >> /\ unused = << >> /\ latest = << >>
    /\ queued = {} /\ mailed = {}
    /\ req = [r \in Requests |-> Idle]

-----------------------------------------------------------------------------
(***************************************************************************)
(* POST /auth/register: refuse an address that is taken, create the user,  *)
(* create a verification row and queue the mail.                           *)
(***************************************************************************)
SpelledAlike(email) ==   \* mutant: the spelling is looked up as it came
    \E i \in DOMAIN users : users[i].email = email

\* userExists looks for the lower-case spelling, createUser stores the address
\* as it came.
UserExists(email) == \E i \in DOMAIN users : users[i].email = Lower

StartRegister(r) ==
    /\ At(r, "idle") /\ Len(users) < MaxUsers
    /\ \E email \in Spellings :
          /\ ~UserExists(email)
          /\ req' = [req EXCEPT ![r] = [Idle EXCEPT !.pc = "create", !.email = email,
                                                    !.seen = Len(users)]]
    /\ UNCHANGED <<users, unused, latest, queued, mailed>>

\* After the hash.  The column is unique: the second user of one spelling fails.
CreateUser(r) ==
    /\ At(r, "create")
    /\ \/ /\ \A i \in DOMAIN users : users[i].email # req[r].email
          /\ Len(users) < MaxUsers
          /\ users' = Append(users, [email |-> req[r].email, verified |-> FALSE,
                                     seen |-> req[r].seen])
          /\ latest' = Append(latest, Wait)
          /\ req' = [req EXCEPT ![r] = [Idle EXCEPT !.pc = "insert", !.user = Len(users')]]
       \/ /\ \E i \in DOMAIN users : users[i].email = req[r].email
          /\ End(r)
          /\ UNCHANGED <<users, latest>>
    /\ UNCHANGED <<unused, queued, mailed>>

\* Sign a token, create the row.
Fresh == CHOOSE t \in Tokens :
            t \notin DOMAIN unused /\ \A r \in Requests : req[r].token # t

CreateEmailVerification(r) ==
    /\ At(r, "insert") \/ At(r, "renew")
    /\ unused' = [t \in DOMAIN unused \union {Fresh} |->
                    IF t = Fresh THEN [user |-> req[r].user, age |-> 0] ELSE unused[t]]
    /\ latest' = [latest EXCEPT ![req[r].user] = 0]
    /\ req' = [req EXCEPT ![r] = [@ EXCEPT !.token = Fresh,
                                 !.pc = IF At(r, "insert") THEN "mail" ELSE "remail"]]
    /\ UNCHANGED <<users, queued, mailed>>

\* The mail is queued.  A resend answers with the token too; when that answer
\* reaches the user the mail brings nothing new.
SendVerificationEmail(r) ==
    LET live == {req[r].token} \intersect DOMAIN unused IN
    /\ At(r, "mail") \/ At(r, "remail")
    /\ \/ queued' = queued \union live /\ UNCHANGED mailed
       \/ At(r, "remail") /\ mailed' = mailed \union live /\ UNCHANGED queued
    /\ End(r)
    /\ UNCHANGED <<users, unused, latest>>

\* The worker sends the mail, at any later time (MailQueue.tla) ...
SendEmailVerificationJob(t) ==
    /\ t \in queued
    /\ queued' = queued \ {t} /\ mailed' = mailed \union {t}
    /\ UNCHANGED <<users, unused, latest, req>>

\* ... or its job fails, and is not tried again.
FailedJob(t) ==
    /\ t \in queued
    /\ queued' = queued \ {t}
    /\ UNCHANGED <<users, unused, latest, mailed, req>>

(***************************************************************************)
(* Resend: an unverified user who has no row of the last five minutes gets *)
(* a new row, and the earlier ones are marked used.                        *)
(***************************************************************************)
StartResendAfterMail(r, u) ==   \* mutant: there must be an earlier row
    /\ At(r, "idle") /\ u \in DOMAIN users
    /\ ~users[u].verified
    /\ latest[u] = Wait /\ RowsOf(u) # {}
    /\ req' = [req EXCEPT ![r] = [Idle EXCEPT !.pc = "invalidate", !.user = u]]
    /\ UNCHANGED <<users, unused, latest, queued, mailed>>

StartResend(r, u) ==
    /\ At(r, "idle") /\ u \in DOMAIN users
    /\ ~users[u].verified
    /\ latest[u] = Wait
    /\ req' = [req EXCEPT ![r] = [Idle EXCEPT !.pc = "invalidate", !.user = u]]
    /\ UNCHANGED <<users, unused, latest, queued, mailed>>

InvalidateMailed(r) ==   \* mutant: the rows whose mail is pending are spared
    /\ At(r, "invalidate")
    /\ Drop(RowsOf(req[r].user) \intersect mailed)
    /\ Go(r, "renew")
    /\ UNCHANGED <<users, latest>>

InvalidateAll(r) ==
    /\ At(r, "invalidate")
    /\ Drop(RowsOf(req[r].user))
    /\ Go(r, "renew")
    /\ UNCHANGED <<users, latest>>

(***************************************************************************)
(* Verify: an unused row, a token that has not expired, a user who is not  *)
(* verified yet; mark the row used, then the user verified.                *)
(***************************************************************************)
FindToken(r, t) ==
    /\ At(r, "idle") /\ t \in mailed
    /\ unused[t].age <= Life
    /\ ~users[unused[t].user].verified
    /\ req' = [req EXCEPT ![r] = [Idle EXCEPT !.pc = "mark", !.user = unused[t].user,
                                              !.token = t]]
    /\ UNCHANGED <<users, unused, latest, queued, mailed>>

MarkUsed(r) ==
    /\ At(r, "mark")
    /\ Drop({req[r].token})
    /\ Go(r, "verify")
    /\ UNCHANGED <<users, latest>>

VerifyUser(r) ==
    /\ At(r, "verify")
    /\ users' = [users EXCEPT ![req[r].user].verified = TRUE]
    /\ End(r)
    /\ UNCHANGED <<unused, latest, queued, mailed>>

\* A database error, a queue that does not take the mail, or a restart.
Fail(r) ==
    /\ ~At(r, "idle")
    /\ End(r)
    /\ UNCHANGED <<users, unused, latest, queued, mailed>>

Older(age, top) == IF age < top THEN age + 1 ELSE age

Tick ==
    /\ Prompt => queued = {} /\ \A r \in Requests : At(r, "idle")
    /\ latest' = [u \in DOMAIN latest |-> Older(latest[u], Wait)]
    /\ unused' = [t \in DOMAIN unused |->
                    [unused[t] EXCEPT !.age = Older(@, Life + 1)]]
    /\ UNCHANGED <<users, queued, mailed, req>>

Next ==
    \/ \E r \in Requests :
        \/ StartRegister(r)
        \/ CreateUser(r)
        \/ CreateEmailVerification(r)
        \/ SendVerificationEmail(r)
        \/ \E u \in Users : StartResend(r, u)
        \/ InvalidateAll(r)
        \/ \E t \in mailed : FindToken(r, t)
        \/ MarkUsed(r)
        \/ VerifyUser(r)
        \/ Fail(r)
    \/ \E t \in queued : SendEmailVerificationJob(t) \/ FailedJob(t)
    \/ Tick

Spec == Init /\ [][Next]_vars

\* A user who wants the account keeps asking and keeps following the mails, the
\* clock runs, and no step fails each time it is tried.
Of(r, u) == req[r].user = u
Fairness ==
    /\ WF_vars(Tick)
    /\ \A r \in Requests : WF_vars(CreateUser(r))
    /\ \A u \in Users :
        /\ SF_vars(\E r \in Requests : StartResend(r, u))
        /\ SF_vars(\E r \in Requests : Of(r, u) /\ InvalidateAll(r))
        /\ SF_vars(\E r \in Requests : Of(r, u) /\ CreateEmailVerification(r))
        /\ SF_vars(\E r \in Requests : Of(r, u) /\ SendVerificationEmail(r))
        /\ SF_vars(\E t \in RowsOf(u) : SendEmailVerificationJob(t))
        /\ SF_vars(\E r \in Requests, t \in RowsOf(u) : FindToken(r, t))
        /\ SF_vars(\E r \in Requests : Of(r, u) /\ MarkUsed(r))
        /\ SF_vars(\E r \in Requests : Of(r, u) /\ VerifyUser(r))

FairSpec == Spec /\ Fairness

-----------------------------------------------------------------------------
(***************************************************************************)
(* Properties.                                                             *)
(***************************************************************************)
TypeOK ==
    /\ Len(users) <= MaxUsers /\ users \in Seq(User)
    /\ DOMAIN unused \subseteq Tokens
    /\ \A t \in DOMAIN unused : unused[t] \in Row
    /\ latest \in [DOMAIN users -> 0 .. Wait]
    /\ queued \union mailed \subseteq DOMAIN unused
    /\ req \in [Requests -> Request]

\* userExists lower-cases what it looks for, so an address is meant to have one
\* account.  A second one in another spelling comes about only when the earlier
\* account was stored with upper-case letters, or was created after the lookup.
TwinsExplained ==
    \A i, j \in DOMAIN users :
        i < j => users[i].email # Lower \/ users[j].seen < i

\* The requests about to create a verification row of user u.
Creating(u) == {r \in Requests : req[r].pc \in {"insert", "renew"} /\ req[r].user = u}

\* A resend invalidates all earlier rows before it creates its own, so a user
\* has at most as many unused tokens as requests overlap.
UnusedBounded ==
    \A u \in DOMAIN users : Cardinality(RowsOf(u)) + Cardinality(Creating(u))
                                <= Cardinality(Requests)

\* Whatever fails half way - the row that was never created, the mail that was
\* never queued, the token marked used for a user left unverified, a token that
\* expired or was invalidated - a user who keeps trying is verified in the end,
\* if the requests about the account come one at a time and take no five minutes.
EventuallyVerified ==
    \A u \in Users : u \in DOMAIN users ~> u \in DOMAIN users /\ users[u].verified
=============================================================================
