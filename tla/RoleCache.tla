------------------------------ MODULE RoleCache ------------------------------
(***************************************************************************)
(* Which role a request is authorised with: casbinMiddleware of            *)
(* src/middlewares/casbin.middleware.ts reads the user through the cache   *)
(* (lib/cache.ts, lib/cache-redis.ts), updateUserRoleHandler of            *)
(* routes/admin/users/users.handlers.ts changes the role and drops the     *)
(* cached user.  One user; requests overlap at every await.                *)
(*                                                                         *)
(* A role stands for the change that set it: 0 is the first one, a greater *)
(* one is newer.  What a role may do is the subject of PolicyStore.tla.    *)
(***************************************************************************)
EXTENDS Integers

CONSTANTS
    Requests,      \* slots for the requests in flight at one time
    TTL,           \* lifetime of a cached user (300 seconds)
    MayFail,       \* TRUE for RedisCache, whose calls may fail and say nothing
    MaxChanges     \* bound on the number of role changes

ASSUME TTLAssumption     == TTL \in Nat \ {0}
ASSUME MayFailAssumption == MayFail \in BOOLEAN
ASSUME ChangesAssumption == MaxChanges \in Nat

VARIABLES
    role,          \* User.role in the database
    cached,        \* the cached user: role and time left; time left 0: no entry
    done,          \* the newest role whose update has dropped the cached user
    req,           \* the local variables of each request in flight
    excused        \* history: roles that outlived a drop of the cached user

vars == <<role, cached, done, req, excused>>

Entry == [role: Nat, left: 0 .. TTL]
Empty == [role |-> 0, left |-> 0]

\* floor: the newest role whose update was complete when the request arrived.
Request == [pc: {"idle", "find", "fill", "decide", "drop"}, role: Nat, floor: Nat]
Idle    == [pc |-> "idle", role |-> 0, floor |-> 0]

IsCached == cached.left > 0
End(r)   == req' = [req EXCEPT ![r] = Idle]

Init ==
    /\ role = 0 /\ done = 0
    /\ cached = Empty
    /\ req = [r \in Requests |-> Idle]
    /\ excused = {}

-----------------------------------------------------------------------------
(***************************************************************************)
(* casbinMiddleware: take the user from the cache, else from the database, *)
(* and put it into the cache; then enforce.                                *)
(***************************************************************************)
HitRenews(r) ==    \* mutant: a hit extends the life of the entry
    /\ req[r].pc = "idle"
    /\ IsCached
    /\ req' = [req EXCEPT ![r] = [pc |-> "decide", role |-> cached.role, floor |-> done]]
    /\ cached' = [cached EXCEPT !.left = TTL]
    /\ UNCHANGED <<role, done, excused>>

Hit(r) ==
    /\ req[r].pc = "idle"
    /\ IsCached
    /\ req' = [req EXCEPT ![r] = [pc |-> "decide", role |-> cached.role, floor |-> done]]
    /\ UNCHANGED <<role, cached, done, excused>>

\* RedisCache.get answers null on an error too.
Miss(r) ==
    /\ req[r].pc = "idle"
    /\ IsCached => MayFail
    /\ req' = [req EXCEPT ![r] = [Idle EXCEPT !.pc = "find", !.floor = done]]
    /\ UNCHANGED <<role, cached, done, excused>>

RoleFromToken(r) ==   \* mutant: the role the access token was signed with
    /\ req[r].pc = "find"
    /\ req' = [req EXCEPT ![r] = [@ EXCEPT !.pc = "fill", !.role = 0]]
    /\ UNCHANGED <<role, cached, done, excused>>

FindUserById(r) ==
    /\ req[r].pc = "find"
    /\ req' = [req EXCEPT ![r] = [@ EXCEPT !.pc = "fill", !.role = role]]
    /\ UNCHANGED <<role, cached, done, excused>>

SetCacheLonger(r) ==   \* mutant: the entry outlives its expiry by one
    /\ req[r].pc = "fill"
    /\ cached' = [role |-> req[r].role, left |-> TTL + 1]
    /\ req' = [req EXCEPT ![r] = [@ EXCEPT !.pc = "decide"]]
    /\ UNCHANGED <<role, done, excused>>

\* When RedisCache.set fails, the entry stays as it was.
SetCache(r) ==
    /\ req[r].pc = "fill"
    /\ \/ cached' = [role |-> req[r].role, left |-> TTL]
       \/ MayFail /\ UNCHANGED cached
    /\ req' = [req EXCEPT ![r] = [@ EXCEPT !.pc = "decide"]]
    /\ UNCHANGED <<role, done, excused>>

Enforce(r) ==
    /\ req[r].pc = "decide"
    /\ End(r)
    /\ UNCHANGED <<role, cached, done, excused>>

(***************************************************************************)
(* PUT /admin/users/{userId}/role: update the role, then drop the cached   *)
(* user.  RedisCache.delete swallows an error, and the answer is the same; *)
(* the fills in flight at a drop bring back what it cannot reach.          *)
(***************************************************************************)
Fillers == {r \in Requests : req[r].pc = "fill"}
Newer(a, b) == IF a < b THEN b ELSE a

NoDrop   == UNCHANGED <<cached, excused>>   \* mutant: the entry is left alone
DropUser ==
    \/ /\ cached' = Empty
       /\ excused' = excused \union {req[q].role : q \in Fillers}
    \/ /\ MayFail /\ IsCached
       /\ UNCHANGED cached
       /\ excused' = excused \union {req[q].role : q \in Fillers} \union {cached.role}

UpdateUserRole(r) ==
    /\ req[r].pc = "idle"
    /\ role < MaxChanges
    /\ role' = role + 1
    /\ req' = [req EXCEPT ![r] = [Idle EXCEPT !.pc = "drop", !.role = role + 1]]
    /\ UNCHANGED <<cached, done, excused>>

DeleteUserCache(r) ==
    /\ req[r].pc = "drop"
    /\ DropUser
    /\ done' = Newer(done, req[r].role)
    /\ End(r)
    /\ UNCHANGED role

\* DELETE /admin/cache/users/{userId}, POST /admin/cache/clear, and a restart
\* with the in-memory cache, seen from this user's entry.
ClearCache ==
    /\ IsCached
    /\ cached' = Empty
    /\ UNCHANGED <<role, done, req, excused>>

\* A database error or a restart ends a request between two of its steps.
Fail(r) ==
    /\ req[r].pc # "idle"
    /\ End(r)
    /\ UNCHANGED <<role, cached, done, excused>>

\* Time passes for the entry; at 0 it is gone.
Expire ==
    /\ IsCached
    /\ cached' = IF cached.left = 1 THEN Empty ELSE [cached EXCEPT !.left = @ - 1]
    /\ UNCHANGED <<role, done, req, excused>>

Progress(r) == FindUserById(r) \/ SetCache(r) \/ Enforce(r) \/ DeleteUserCache(r)

Next ==
    \/ \E r \in Requests :
        \/ Hit(r)
        \/ Miss(r)
        \/ UpdateUserRole(r)
        \/ Progress(r)
        \/ Fail(r)
    \/ ClearCache
    \/ Expire

Spec == Init /\ [][Next]_vars

\* Every awaited call settles, so a request in flight goes on; the clock runs.
Fairness == WF_vars(Expire) /\ \A r \in Requests : WF_vars(Progress(r))
FairSpec == Spec /\ Fairness

-----------------------------------------------------------------------------
(***************************************************************************)
(* Properties.                                                             *)
(***************************************************************************)
TypeOK ==
    /\ role \in Nat /\ done \in Nat
    /\ cached \in Entry
    /\ req \in [Requests -> Request]
    /\ excused \subseteq Nat

\* No role is from the future, and whatever is older than the last completed
\* update, in the cache or about to be put there, is a role that some drop of
\* the cached user could not reach: a fill was in flight, or the drop failed.
CoherenceInv ==
    /\ done <= role
    /\ \A r \in Requests : req[r].pc = "drop" => req[r].role <= role
    /\ IsCached /\ cached.role < done => cached.role \in excused
    /\ \A r \in Requests : req[r].pc = "fill" /\ req[r].role < done
                              => req[r].role \in excused

\* A request that arrives after a role update was answered is authorised with
\* that role or a newer one, except with a role that a fill in flight brought
\* back or that a failed delete left in the cache.
StaleDecisionsExplained ==
    \A r \in Requests :
        req[r].pc = "decide" /\ req[r].role < req[r].floor => req[r].role \in excused

\* When the role stops changing, decisions end up using it, however the fills
\* and drops have raced: an entry lives for at most TTL and a hit does not
\* extend it.
RolesConverge ==
    <>[](\A r \in Requests : req[r].pc = "decide" => req[r].role = role)

\* The roles a request in flight or to come may be authorised with.
Usable ==
    {role} \union {c.role : c \in {x \in {cached} : IsCached}}
           \union {req[r].role : r \in {q \in Requests : req[q].pc \in {"fill", "decide"}}}

\* The cache keeps the promise of RoleInForce.tla.  An update is announced as
\* "invalidate cache automatically" (users.routes.ts:72): fills and drops may race
\* and calls may fail, but a role that is out of the cache and of every request's
\* hands never comes back, and the current one prevails.
Promise == INSTANCE RoleInForce WITH current <- role, usable <- Usable
KeepsPromise == Promise!Spec
=============================================================================
