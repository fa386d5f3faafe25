--------------------------- MODULE RoleCacheProofs ---------------------------
(***************************************************************************)
(* Proofs about RoleCache, for any requests, any lifetime and any number of*)
(* role changes.                                                           *)
(***************************************************************************)
EXTENDS RoleCache, TLAPS

\* The first step of the machine: what is idle has the right type.
LEMMA IdleType == Idle \in Request
  BY DEF Idle, Request

\* Empty is an entry, whatever the lifetime.
LEMMA EmptyType == Empty \in Entry
  BY TTLAssumption DEF Empty, Entry

\* A step that gives one request a well-typed record keeps req well-typed.
LEMMA ReqType ==
  ASSUME TypeOK, NEW r \in Requests, NEW x \in Request,
         req' = [req EXCEPT ![r] = x]
  PROVE  /\ req' \in [Requests -> Request]
         /\ req'[r] = x
         /\ \A q \in Requests : q # r => req'[q] = req[q]
  BY DEF TypeOK

\* The type invariant is kept by every step.
LEMMA TypeStep ==
  ASSUME TypeOK, [Next]_vars PROVE TypeOK'
<1> USE DEF TypeOK
<1>1. ASSUME NEW r \in Requests, Hit(r) PROVE TypeOK'
  <2>1. [pc |-> "decide", role |-> cached.role, floor |-> done] \in Request
    BY DEF Request, Entry
  <2> QED BY <1>1, <2>1 DEF Hit
<1>2. ASSUME NEW r \in Requests, Miss(r) PROVE TypeOK'
  <2>1. [Idle EXCEPT !.pc = "find", !.floor = done] \in Request
    BY DEF Request, Idle
  <2> QED BY <1>2, <2>1 DEF Miss
<1>3. ASSUME NEW r \in Requests, UpdateUserRole(r) PROVE TypeOK'
  <2>1. [Idle EXCEPT !.pc = "drop", !.role = role + 1] \in Request
    <3>1. role + 1 \in Nat
      OBVIOUS
    <3> QED BY <3>1 DEF Request, Idle
  <2> QED BY <1>3, <2>1 DEF UpdateUserRole
<1>4. ASSUME NEW r \in Requests, FindUserById(r) PROVE TypeOK'
  <2>1. [req[r] EXCEPT !.pc = "fill", !.role = role] \in Request
    BY DEF Request
  <2> QED BY <1>4, <2>1 DEF FindUserById
<1>5. ASSUME NEW r \in Requests, SetCache(r) PROVE TypeOK'
  <2>1. [req[r] EXCEPT !.pc = "decide"] \in Request
    BY DEF Request
  <2>2. cached' \in Entry
    BY <1>5, TTLAssumption DEF SetCache, Entry, Request
  <2> QED BY <1>5, <2>1, <2>2 DEF SetCache
<1>6. ASSUME NEW r \in Requests, Enforce(r) PROVE TypeOK'
  BY <1>6, IdleType DEF Enforce, End
<1>7. ASSUME NEW r \in Requests, DeleteUserCache(r) PROVE TypeOK'
  <2>1. cached' \in Entry
    BY <1>7, EmptyType DEF DeleteUserCache, DropUser
  <2>2. \A q \in Requests : req[q].role \in Nat
    BY DEF Request
  <2>3. excused' \subseteq Nat
    <3> DEFINE Late == {req[q].role : q \in Fillers}
    <3>1. Late \subseteq Nat
      BY <2>2 DEF Fillers
    <3>2. cached.role \in Nat
      BY DEF Entry
    <3>3. \/ excused' = excused \union Late
          \/ excused' = excused \union Late \union {cached.role}
      BY <1>7 DEF DeleteUserCache, DropUser
    <3> HIDE DEF Late
    <3> QED BY <3>1, <3>2, <3>3
  <2>4. done' \in Nat
    BY <1>7, <2>2 DEF DeleteUserCache, Newer
  <2> QED BY <1>7, <2>1, <2>3, <2>4, IdleType DEF DeleteUserCache, End
<1>8. ASSUME NEW r \in Requests, Fail(r) PROVE TypeOK'
  BY <1>8, IdleType DEF Fail, End
<1>9. CASE ClearCache
  BY <1>9, EmptyType DEF ClearCache
<1>10. CASE Expire
  <2>1. cached' \in Entry
    BY <1>10, EmptyType, TTLAssumption DEF Expire, Entry, IsCached
  <2> QED BY <1>10, <2>1 DEF Expire
<1>11. CASE UNCHANGED vars
  BY <1>11 DEF vars
<1> QED BY <1>1, <1>2, <1>3, <1>4, <1>5, <1>6, <1>7, <1>8, <1>9, <1>10, <1>11
           DEF Next, Progress

\* Type correctness of the role, the cached user and every request.
THEOREM TypeCorrect == Spec => []TypeOK
<1>1. Init => TypeOK
  BY IdleType, EmptyType DEF Init, TypeOK
<1> QED BY <1>1, TypeStep, PTL DEF Spec

-----------------------------------------------------------------------------
\* A request remembers no completed update that is yet to complete.
FloorInv == \A r \in Requests : req[r].floor <= done

IInv == CoherenceInv /\ FloorInv /\ StaleDecisionsExplained

\* The strengthened invariant is kept by every step: a fill is either of the
\* current role or was in flight at each drop since it read the user.
LEMMA InvStep ==
  ASSUME TypeOK, IInv, [Next]_vars PROVE IInv'
<1> USE DEF IInv, CoherenceInv, FloorInv, StaleDecisionsExplained
<1>0. /\ role \in Nat /\ done \in Nat /\ cached.role \in Nat /\ cached.left \in Nat
      /\ \A q \in Requests : req[q] \in Request
      /\ \A q \in Requests : req[q].role \in Nat /\ req[q].floor \in Nat
  BY DEF TypeOK, Request, Entry
<1>1. ASSUME NEW r \in Requests, Hit(r) PROVE IInv'
  <2>1. [pc |-> "decide", role |-> cached.role, floor |-> done] \in Request
    BY <1>0 DEF Request
  <2>2. /\ req'[r].pc = "decide" /\ req'[r].role = cached.role /\ req'[r].floor = done
        /\ \A q \in Requests : q # r => req'[q] = req[q]
    BY <1>1, <2>1, ReqType DEF Hit
  <2>3. UNCHANGED <<role, cached, done, excused>> /\ IsCached
    BY <1>1 DEF Hit
  <2> QED BY <1>0, <2>2, <2>3 DEF IsCached
<1>2. ASSUME NEW r \in Requests, Miss(r) PROVE IInv'
  <2>1. [Idle EXCEPT !.pc = "find", !.floor = done] \in Request
    BY <1>0 DEF Request, Idle
  <2>2. /\ req'[r].pc = "find" /\ req'[r].floor = done
        /\ \A q \in Requests : q # r => req'[q] = req[q]
    BY <1>2, <2>1, ReqType DEF Miss, Idle
  <2>3. UNCHANGED <<role, cached, done, excused>>
    BY <1>2 DEF Miss
  <2> QED BY <1>0, <2>2, <2>3 DEF IsCached
<1>3. ASSUME NEW r \in Requests, UpdateUserRole(r) PROVE IInv'
  <2>1. [Idle EXCEPT !.pc = "drop", !.role = role + 1] \in Request
    <3>1. role + 1 \in Nat
      BY <1>0
    <3> QED BY <3>1 DEF Request, Idle
  <2>2. /\ req'[r].pc = "drop" /\ req'[r].role = role + 1 /\ req'[r].floor = 0
        /\ \A q \in Requests : q # r => req'[q] = req[q]
    BY <1>3, <2>1, ReqType DEF UpdateUserRole, Idle
  <2>3. UNCHANGED <<cached, done, excused>> /\ role' = role + 1
    BY <1>3 DEF UpdateUserRole
  <2> QED BY <1>0, <2>2, <2>3 DEF IsCached
<1>4. ASSUME NEW r \in Requests, FindUserById(r) PROVE IInv'
  <2>1. [req[r] EXCEPT !.pc = "fill", !.role = role] \in Request
    BY <1>0 DEF Request
  <2>2. /\ req'[r].pc = "fill" /\ req'[r].role = role /\ req'[r].floor = req[r].floor
        /\ \A q \in Requests : q # r => req'[q] = req[q]
    BY <1>0, <1>4, <2>1, ReqType DEF FindUserById, Request
  <2>3. UNCHANGED <<role, cached, done, excused>>
    BY <1>4 DEF FindUserById
  <2> QED BY <1>0, <2>2, <2>3 DEF IsCached
<1>5. ASSUME NEW r \in Requests, SetCache(r) PROVE IInv'
  <2>1. [req[r] EXCEPT !.pc = "decide"] \in Request
    BY <1>0 DEF Request
  <2>2. /\ req'[r].pc = "decide" /\ req'[r].role = req[r].role
        /\ req'[r].floor = req[r].floor
        /\ \A q \in Requests : q # r => req'[q] = req[q]
    BY <1>0, <1>5, <2>1, ReqType DEF SetCache, Request
  <2>3. /\ UNCHANGED <<role, done, excused>> /\ req[r].pc = "fill"
        /\ cached' = cached \/ cached'.role = req[r].role
    BY <1>5 DEF SetCache
  <2> QED BY <1>0, <2>2, <2>3 DEF IsCached
<1>6. ASSUME NEW r \in Requests, End(r), UNCHANGED <<role, cached, done, excused>>
      PROVE  IInv'
  <2>1. /\ req'[r].pc = "idle" /\ req'[r].floor = 0
        /\ \A q \in Requests : q # r => req'[q] = req[q]
    BY <1>6, IdleType, ReqType DEF End, Idle
  <2> QED BY <1>0, <1>6, <2>1 DEF IsCached
<1>7. ASSUME NEW r \in Requests, DeleteUserCache(r) PROVE IInv'
  <2>1. /\ req'[r].pc = "idle" /\ req'[r].floor = 0
        /\ \A q \in Requests : q # r => req'[q] = req[q]
    BY <1>7, IdleType, ReqType DEF DeleteUserCache, End, Idle
  <2>2. role' = role /\ done' \in Nat /\ done <= done' /\ done' <= role
    BY <1>0, <1>7 DEF DeleteUserCache, Newer
  <2>3. /\ excused \subseteq excused'
        /\ \A q \in Requests : req[q].pc = "fill" => req[q].role \in excused'
        /\ IsCached' => cached'.role \in excused'
    BY <1>7 DEF DeleteUserCache, DropUser, Fillers, IsCached, Empty
  <2>4. CoherenceInv'
    BY <1>0, <2>1, <2>2, <2>3
  <2>5. FloorInv'
    BY <1>0, <2>1, <2>2
  <2>6. StaleDecisionsExplained'
    BY <1>0, <2>1, <2>2, <2>3
  <2> QED BY <2>4, <2>5, <2>6
<1>8. ASSUME UNCHANGED <<role, done, req, excused>>,
             IsCached' => IsCached /\ cached'.role = cached.role
      PROVE  IInv'
  BY <1>0, <1>8
<1>9. CASE ClearCache
  BY <1>8, <1>9 DEF ClearCache, IsCached, Empty
<1>10. CASE Expire
  <2>1. IsCached' => IsCached /\ cached'.role = cached.role
    BY <1>10 DEF Expire, IsCached, Empty, TypeOK, Entry
  <2> QED BY <1>8, <1>10, <2>1 DEF Expire
<1>11. CASE UNCHANGED vars
  BY <1>11 DEF vars, IsCached
<1> QED BY <1>1, <1>2, <1>3, <1>4, <1>5, <1>6, <1>7, <1>9, <1>10, <1>11
           DEF Next, Progress, Enforce, Fail

\* Both the cache's coherence and the property of the decisions follow.
LEMMA Invariant == Spec => []IInv
<1>1. Init => IInv
  BY DEF Init, IInv, CoherenceInv, FloorInv, StaleDecisionsExplained, Idle, Empty,
         IsCached
<1> QED BY <1>1, TypeCorrect, InvStep, PTL DEF Spec

\* What the cache holds, or a fill brings to it, is current as of the last
\* completed update, or outlived a drop.
THEOREM Coherence == Spec => []CoherenceInv
<1>1. IInv => CoherenceInv BY DEF IInv
<1> QED BY <1>1, Invariant, PTL

\* A decision with a role older than the last update that was complete when the
\* request arrived has a role that outlived a drop.
THEOREM StaleDecisions == Spec => []StaleDecisionsExplained
<1>1. IInv => StaleDecisionsExplained BY DEF IInv
<1> QED BY <1>1, Invariant, PTL

(***************************************************************************)
(* The refinement, as far as it is safety.                                 *)
(***************************************************************************)
Holds(r) == req[r].pc \in {"fill", "decide"}

\* The roles that the user row, the cache and the requests hold.
LEMMA UsableMembers ==
  \A x : x \in Usable <=> \/ x = role
                          \/ IsCached /\ x = cached.role
                          \/ \E r \in Requests : Holds(r) /\ x = req[r].role
  BY DEF Usable, Holds

\* The same after a step.
LEMMA UsableMembersNext ==
  \A x : x \in Usable' <=> \/ x = role'
                           \/ IsCached' /\ x = cached'.role
                           \/ \E r \in Requests : Holds(r)' /\ x = req'[r].role
  BY DEF Usable, Holds

\* A step that brings no role back is a retirement or a stutter.
LEMMA Retires ==
  ASSUME role' = role, Usable' \subseteq Usable
  PROVE  [Promise!Next]_<<role, Usable>>
<1> DEFINE old == Usable \ Usable'
<1>1. role \in Usable'
  BY UsableMembersNext
<1>2. old \in SUBSET (Usable \ {role}) /\ Usable' = Usable \ old
  BY <1>1
<1>3. CASE old = {}
  BY <1>2, <1>3
<1>4. CASE old # {}
  BY <1>2, <1>4 DEF Promise!Next, Promise!Retire
<1> QED BY <1>3, <1>4

\* A request that changes only to a role in use, or lets go of its own, and a
\* cache that keeps its role or is emptied.
LEMMA Carried ==
  ASSUME TypeOK, role' = role,
         IsCached' => cached'.role \in Usable,
         \A q \in Requests : Holds(q)' => req'[q].role \in Usable
  PROVE  [Promise!Next]_<<role, Usable>>
<1>1. role \in Usable
  BY UsableMembers
<1>2. Usable' \subseteq Usable
  BY <1>1, UsableMembersNext
<1> QED BY <1>2, Retires

\* Every step of the cache is a step of the promise.
LEMMA PromiseStep ==
  ASSUME TypeOK, [Next]_vars PROVE [Promise!Next]_<<role, Usable>>
<1> USE DEF TypeOK
<1>1. /\ role \in Usable
      /\ IsCached => cached.role \in Usable
      /\ \A q \in Requests : Holds(q) => req[q].role \in Usable
  BY UsableMembers
<1>2. ASSUME NEW r \in Requests, NEW x, req' = [req EXCEPT ![r] = x], role' = role,
             x.pc \in {"fill", "decide"} => x.role \in Usable,
             IsCached' => cached'.role \in Usable
      PROVE  [Promise!Next]_<<role, Usable>>
  <2>1. \A q \in Requests : Holds(q)' => req'[q].role \in Usable
    BY <1>1, <1>2 DEF Holds
  <2> QED BY <1>2, <2>1, Carried
<1>3. ASSUME NEW r \in Requests, Hit(r) PROVE [Promise!Next]_<<role, Usable>>
  BY <1>1, <1>2, <1>3 DEF Hit, IsCached
<1>4. ASSUME NEW r \in Requests, Miss(r) PROVE [Promise!Next]_<<role, Usable>>
  <2>1. PICK x : x = [Idle EXCEPT !.pc = "find", !.floor = done]
    OBVIOUS
  <2>2. x.pc = "find"
    BY <2>1 DEF Idle
  <2> QED BY <1>1, <1>2, <1>4, <2>1, <2>2 DEF Miss, IsCached
<1>5. ASSUME NEW r \in Requests, UpdateUserRole(r) PROVE [Promise!Next]_<<role, Usable>>
  <2>1. /\ ~Holds(r)'
        /\ \A q \in Requests : q # r => req'[q] = req[q]
        /\ IsCached' = IsCached /\ cached' = cached
    BY <1>5 DEF UpdateUserRole, Holds, IsCached, Idle
  <2>2. \A q \in Requests : Holds(q)' => Holds(q) /\ req'[q] = req[q]
    BY <2>1 DEF Holds
  <2>3. Usable' \subseteq Usable \union {role'}
    BY <1>1, <2>1, <2>2, UsableMembersNext
  <2>4. role' \in Usable'
    BY UsableMembersNext
  <2>5. Usable' = (Usable' \intersect Usable) \union {role'}
    BY <2>3, <2>4
  <2> QED BY <1>5, <2>5 DEF UpdateUserRole, Promise!Next, Promise!Change
<1>6. ASSUME NEW r \in Requests, FindUserById(r) PROVE [Promise!Next]_<<role, Usable>>
  <2>1. PICK x : x = [req[r] EXCEPT !.pc = "fill", !.role = role]
    OBVIOUS
  <2>2. x.role = role
    BY <2>1 DEF Request
  <2> QED BY <1>1, <1>2, <1>6, <2>1, <2>2 DEF FindUserById, IsCached
<1>7. ASSUME NEW r \in Requests, SetCache(r) PROVE [Promise!Next]_<<role, Usable>>
  <2>1. PICK x : x = [req[r] EXCEPT !.pc = "decide"]
    OBVIOUS
  <2>2. x.role = req[r].role /\ req[r].role \in Usable
    BY <1>1, <1>7, <2>1 DEF SetCache, Holds, Request
  <2>3. IsCached' => cached'.role \in Usable
    BY <1>1, <1>7, <2>2 DEF SetCache, IsCached
  <2> QED BY <1>2, <1>7, <2>1, <2>2, <2>3 DEF SetCache
<1>8. ASSUME NEW r \in Requests, req' = [req EXCEPT ![r] = Idle], role' = role,
             cached' = cached \/ cached' = Empty
      PROVE  [Promise!Next]_<<role, Usable>>
  <2>1. Idle.pc = "idle"
    BY DEF Idle
  <2>2. IsCached' => cached'.role \in Usable
    BY <1>1, <1>8 DEF Empty, IsCached
  <2> QED BY <1>2, <1>8, <2>1, <2>2
<1>9. ASSUME NEW r \in Requests, Enforce(r) \/ Fail(r) \/ DeleteUserCache(r)
      PROVE  [Promise!Next]_<<role, Usable>>
  BY <1>8, <1>9 DEF Enforce, Fail, DeleteUserCache, DropUser, End
<1>10. ASSUME role' = role, req' = req, IsCached' => IsCached /\ cached'.role = cached.role
       PROVE  [Promise!Next]_<<role, Usable>>
  <2>1. \A q \in Requests : Holds(q)' => req'[q].role \in Usable
    BY <1>1, <1>10 DEF Holds
  <2> QED BY <1>1, <1>10, <2>1, Carried
<1>11. CASE ClearCache
  BY <1>10, <1>11 DEF ClearCache, IsCached, Empty
<1>12. CASE Expire
  BY <1>10, <1>12 DEF Expire, IsCached, Empty, Entry
<1>13. CASE UNCHANGED vars
  BY <1>10, <1>13 DEF vars, IsCached
<1> QED BY <1>3, <1>4, <1>5, <1>6, <1>7, <1>9, <1>11, <1>12, <1>13 DEF Next, Progress

\* The cache implements the promise of RoleInForce.tla, its liveness apart: a role
\* that no request and no entry holds any more is not used again.
THEOREM RolesStayRetired ==
  Spec => Promise!Init /\ [][Promise!Next]_<<role, Usable>>
<1>1. Init => Promise!Init
  <2> SUFFICES ASSUME Init PROVE Promise!Init
    OBVIOUS
  <2>1. ~IsCached /\ \A r \in Requests : ~Holds(r)
    BY DEF Init, Idle, Empty, IsCached, Holds
  <2>2. \A x : x \in Usable <=> x = role
    BY <2>1, UsableMembers
  <2>3. Usable = {role}
    BY <2>2
  <2> QED BY <2>3 DEF Init, Promise!Init
<1> QED BY <1>1, TypeCorrect, PromiseStep, PTL DEF Spec
=============================================================================
