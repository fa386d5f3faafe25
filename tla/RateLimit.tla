------------------------------ MODULE RateLimit ------------------------------
(***************************************************************************)
(* The rate limiters of src/middlewares/rate-limit.middleware.ts over the  *)
(* Redis store of src/lib/rate-limit-redis-store.ts, for one limiter and   *)
(* one client key: a counter with a time to live, which the commands of    *)
(* the requests reach one at a time.  A request counts itself, reads the   *)
(* time to live and, when there is none, sets it; it may stop after any of *)
(* the three.  The library hono-rate-limiter compares the count with the   *)
(* limit.                                                                  *)
(***************************************************************************)
EXTENDS Integers, FiniteSets

CONSTANTS
    Requests,      \* slots for the client's requests in flight at one time
    Limit,         \* requests let in per window (5; 3 for password resets)
    Window         \* length of the window (15 minutes; 60)

ASSUME LimitAssumption  == Limit \in Nat \ {0}
ASSUME WindowAssumption == Window \in Nat \ {0}

VARIABLES
    hits,          \* the counter; 0: the key does not exist
    left,          \* its time to live; 0: none is set
    req,           \* the local variables of each request in flight
    lost,          \* history: a request of this counter stopped before its pexpire
    admitted       \* history: the requests let in within the last Window units

vars == <<hits, left, req, lost, admitted>>

\* Counts above the limit are all alike, so the counter stops there.
Counts  == 0 .. Limit + 1
Request == [pc: {"idle", "ttl", "expire", "answer"}, hits: Counts]
Idle    == [pc |-> "idle", hits |-> 0]

\* A request let in: by the counter that many counters ago (0: the present one),
\* as which hit of it, and how long ago.
Admission == [life: Nat, hit: 1 .. Limit, age: 0 .. Window]

At(r, pc)   == req[r].pc = pc
End(r)      == req' = [req EXCEPT ![r] = Idle]
Admits(n)   == n <= Limit

Init ==
    /\ hits = 0 /\ left = 0
    /\ req = [r \in Requests |-> Idle]
    /\ lost = FALSE
    /\ admitted = {}

-----------------------------------------------------------------------------
(***************************************************************************)
(* increment: incr and pttl in one pipeline, which other clients' commands *)
(* and the expiry of the key may come between, then pexpire.               *)
(***************************************************************************)
Increment(r) ==
    /\ At(r, "idle")
    /\ hits' = IF Admits(hits) THEN hits + 1 ELSE hits
    /\ req' = [req EXCEPT ![r] = [pc |-> "ttl", hits |-> hits']]
    /\ admitted' = IF Admits(hits')
                    THEN admitted \union {[life |-> 0, hit |-> hits', age |-> 0]}
                    ELSE admitted
    /\ UNCHANGED <<left, lost>>

FirstSetsExpiry(r) ==   \* mutant: only the first hit sets a time to live
    /\ At(r, "ttl")
    /\ req' = [req EXCEPT ![r].pc = IF req[r].hits = 1 THEN "expire" ELSE "answer"]
    /\ UNCHANGED <<hits, left, lost, admitted>>

GoneSetsExpiry(r) ==   \* mutant: -2 sets a time to live, -1 does not
    /\ At(r, "ttl")
    /\ req' = [req EXCEPT ![r].pc = IF hits = 0 THEN "expire" ELSE "answer"]
    /\ UNCHANGED <<hits, left, lost, admitted>>

\* -1: the key has no time to live; -2: it has expired since the incr.
ReadTtl(r) ==
    /\ At(r, "ttl")
    /\ req' = [req EXCEPT ![r].pc = IF left = 0 THEN "expire" ELSE "answer"]
    /\ UNCHANGED <<hits, left, lost, admitted>>

ExpireLate(r) ==   \* mutant: the window is a unit long
    /\ At(r, "expire")
    /\ left' = IF hits > 0 THEN Window + 1 ELSE left
    /\ lost' = FALSE
    /\ req' = [req EXCEPT ![r].pc = "answer"]
    /\ UNCHANGED <<hits, admitted>>

ExpireEarly(r) ==   \* mutant: the window is a unit short
    /\ At(r, "expire")
    /\ left' = IF hits > 0 THEN Window - 1 ELSE left
    /\ hits' = IF left' = 0 THEN 0 ELSE hits
    /\ lost' = FALSE
    /\ req' = [req EXCEPT ![r].pc = "answer"]
    /\ UNCHANGED admitted

\* No effect on a key that is gone; a key set meanwhile gets a new window.
SetExpiry(r) ==
    /\ At(r, "expire")
    /\ left' = IF hits > 0 THEN Window ELSE left
    /\ lost' = FALSE
    /\ req' = [req EXCEPT ![r].pc = "answer"]
    /\ UNCHANGED <<hits, admitted>>

\* The limiter lets the request in, or answers 429.
Answer(r) ==
    /\ At(r, "answer")
    /\ End(r)
    /\ UNCHANGED <<hits, left, lost, admitted>>

\* Redis answers an error, or the process stops.
Fail(r) ==
    /\ ~At(r, "idle")
    /\ End(r)
    /\ lost' = (lost \/ (hits > 0 /\ left = 0 /\ ~At(r, "answer")))
    /\ UNCHANGED <<hits, left, admitted>>

\* Time passes; a key whose time has run out is gone.
Tick ==
    /\ left' = IF left > 0 THEN left - 1 ELSE 0
    /\ hits' = IF left = 1 THEN 0 ELSE hits
    /\ admitted' = {[life |-> IF left = 1 THEN a.life + 1 ELSE a.life,
                     hit |-> a.hit, age |-> a.age + 1] :
                        a \in {b \in admitted : b.age < Window}}
    /\ UNCHANGED <<req, lost>>

Next ==
    \/ \E r \in Requests :
        \/ Increment(r)
        \/ ReadTtl(r)
        \/ SetExpiry(r)
        \/ Answer(r)
        \/ Fail(r)
    \/ Tick

Spec == Init /\ [][Next]_vars

\* The client keeps asking, the clock runs, and no command fails each time.
Fairness ==
    /\ WF_vars(Tick)
    /\ \A r \in Requests :
        /\ WF_vars(Increment(r)) /\ WF_vars(Answer(r))
        /\ SF_vars(ReadTtl(r)) /\ SF_vars(SetExpiry(r))

FairSpec == Spec /\ Fairness

-----------------------------------------------------------------------------
(***************************************************************************)
(* Properties.                                                             *)
(***************************************************************************)
TypeOK ==
    /\ hits \in Counts
    /\ left \in 0 .. Window
    /\ hits = 0 => left = 0
    /\ req \in [Requests -> Request]
    /\ lost \in BOOLEAN
    /\ admitted \subseteq Admission

\* "5 per 15 minutes": a window starts with its first request, so the end of one
\* and the start of the next may let in twice the limit within a window's length,
\* and never more - whatever pexpire is late, lost, or meets the
\* counter of a later window.
AdmittedBounded == Cardinality(admitted) <= 2 * Limit

\* incr and pexpire are separate commands.  A counter without a time to live is
\* one whose time some request is about to set, or a request was lost on the
\* way to it.
ImmortalExplained ==
    hits > 0 /\ left = 0 =>
        lost \/ \E r \in Requests : At(r, "ttl") \/ At(r, "expire")

\* Nobody is locked out for good: a client who keeps asking is let in again,
\* though each rejected request counts too and though pexpire calls are lost.
AdmittedAgain == []<>(\E r \in Requests : ~At(r, "idle") /\ Admits(req[r].hits))
=============================================================================
