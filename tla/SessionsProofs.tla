--------------------------- MODULE SessionsProofs ---------------------------
(***************************************************************************)
(* Theorems about Sessions, for every set of users, every finite set of    *)
(* concurrent requests and every cap, lifetime and bound.                  *)
(***************************************************************************)
EXTENDS Sessions, FiniteSetTheorems, TLAPS

\* The bound of CapInv: the cap, one place kept free, one session per request.
Bound == MaxSessions - 1 + Cardinality(Requests)

-----------------------------------------------------------------------------
(***************************************************************************)
(* Type correctness.                                                       *)
(***************************************************************************)
\* A request slot can always be cleared.
LEMMA IdleType == Idle \in Request
BY UsersAssumption DEF Idle, Request, Steps, SomeUser

\* Every delete keeps the rows it spares well typed.
LEMMA WithoutType ==
    ASSUME NEW D, \A i \in Ids : session[i] \in Row, Ids \subseteq 1 .. (nextId - 1),
           session' = Without(D)
    PROVE  /\ Ids' \subseteq 1 .. (nextId - 1)
           /\ \A i \in Ids' : session'[i] \in Row /\ session'[i] = session[i] /\ i \in Ids
BY DEF Without, Ids

\* What every variable ranges over, at all times.
THEOREM TypeCorrect == Spec => []TypeOK
<1>1. Init => TypeOK
  BY IdleType DEF Init, TypeOK, Ids
<1>2. TypeOK /\ [Next]_vars => TypeOK'
  <2> SUFFICES ASSUME TypeOK, [Next]_vars PROVE TypeOK'
    OBVIOUS
  <2> USE LifetimeAssumption, MaxSessionsAssumption, BoundsAssumption, IdleType
  <2> USE DEF TypeOK, Ids, history
  <2>1. ASSUME NEW r \in Requests, NEW u \in Users, BeginLogin(r, u) PROVE TypeOK'
    BY <2>1 DEF BeginLogin, Idle, Request, Steps
  <2>2. ASSUME NEW r \in Requests, NEW i \in Ids, BeginRefresh(r, i) PROVE TypeOK'
    BY <2>2 DEF BeginRefresh, Idle, Request, Steps, Row
  <2>3. ASSUME NEW r \in Requests, NEW i \in Ids,
               BeginLogout(r, i) \/ BeginList(r, i) PROVE TypeOK'
    <3>1. session[i].user \in Users /\ session[i].expireAt \in Nat
      BY DEF Row
    <3>2. CASE BeginLogout(r, i)
      BY <3>1, <3>2 DEF BeginLogout, BeginAuthenticated, Idle, Request, Steps
    <3>3. CASE BeginList(r, i)
      BY <3>1, <3>3 DEF BeginList, BeginAuthenticated, Idle, Request, Steps
    <3> QED BY <2>3, <3>2, <3>3
  <2>4. ASSUME NEW r \in Requests, Reread(r) PROVE TypeOK'
    <3>1. ASSUME NEW i \in Ids,
                 req' = [req EXCEPT ![r] = [@ EXCEPT !.pc = "cleanup", !.mint = now,
                                    !.token = 0, !.sid = i, !.login = session[i].login]]
          PROVE  req' \in [Requests -> Request]
      <4>1. i \in Nat /\ session[i].login \in Nat
        BY DEF Row
      <4> QED BY <3>1, <4>1 DEF Request, Steps
    <3>2. req' \in [Requests -> Request]
      BY <2>4, <3>1 DEF Reread, End
    <3>3. contested' \subseteq Nat
      <4>1. \A i \in Ids : session[i].login \in Nat
        BY DEF Row
      <4> QED BY <2>4, <4>1 DEF Reread
    <3> QED BY <2>4, <3>2, <3>3 DEF Reread
  <2>5. ASSUME NEW r \in Requests, CleanupExpiredSessions(r) PROVE TypeOK'
    BY <2>5, WithoutType DEF CleanupExpiredSessions, Goto, Request, Steps
  <2>6. ASSUME NEW r \in Requests, GetActiveSessions(r) PROVE TypeOK'
    <3>1. ASSUME Goto(r, AfterManage(r)) PROVE req' \in [Requests -> Request]
      BY <3>1 DEF Goto, AfterManage, Request, Steps
    <3>2. ASSUME NEW V \in SUBSET Active(req[r].user),
                 req' = [req EXCEPT ![r] = [@ EXCEPT !.pc = "evict", !.victims = V]]
          PROVE  req' \in [Requests -> Request]
      <4>1. V \in SUBSET Nat
        BY DEF Active
      <4> QED BY <3>2, <4>1 DEF Request, Steps
    <3>3. req' \in [Requests -> Request]
      BY <2>6, <3>1, <3>2 DEF GetActiveSessions
    <3> QED BY <2>6, <3>3 DEF GetActiveSessions
  <2>7. ASSUME NEW r \in Requests, Evict(r) PROVE TypeOK'
    <3>1. AfterManage(r) \in Steps
      BY DEF AfterManage, Steps
    <3>2. req' \in [Requests -> Request]
      BY <2>7, <3>1 DEF Evict, Request
    <3> QED BY <2>7, <3>2, WithoutType DEF Evict
  <2>8. ASSUME NEW r \in Requests, GetSessionById(r) PROVE TypeOK'
    BY <2>8 DEF GetSessionById, Goto, Request, Steps
  <2>9. ASSUME NEW r \in Requests, CreateSession(r) PROVE TypeOK'
    BY <2>9 DEF CreateSession, End, Request, Row, AccessExpires, RefreshExpires
  <2>10. ASSUME NEW r \in Requests, UpdateSession(r) PROVE TypeOK'
    BY <2>10 DEF UpdateSession, End, Request, Row, AccessExpires, RefreshExpires
  <2>11. ASSUME NEW r \in Requests,
                FindSessionByToken(r) \/ ListSessions(r) \/ Fail(r) PROVE TypeOK'
    BY <2>11 DEF FindSessionByToken, ListSessions, Fail, Goto, End, Request, Steps
  <2>12. ASSUME NEW r \in Requests, DeleteSession(r) PROVE TypeOK'
    <3>1. {session[i].login : i \in Presented(r)} \subseteq Nat
      BY DEF Presented, Row
    <3> QED BY <2>12, <3>1, WithoutType DEF DeleteSession, Logout, End
  <2>13. ASSUME NEW u \in Users, DeleteAllUserSessions(u) PROVE TypeOK'
    BY <2>13, WithoutType DEF DeleteAllUserSessions
  <2>14. CASE Tick
    BY <2>14 DEF Tick
  <2>15. CASE UNCHANGED vars
    BY <2>15 DEF vars
  <2> QED
    BY <2>1, <2>2, <2>3, <2>4, <2>5, <2>6, <2>7, <2>8, <2>9, <2>10, <2>11,
       <2>12, <2>13, <2>14, <2>15 DEF Next
<1> QED
  BY <1>1, <1>2, PTL DEF Spec

-----------------------------------------------------------------------------
(***************************************************************************)
(* The session cap.  CapFor(u) is CapInv for one user.                     *)
(***************************************************************************)
Victims(T) == UNION {req[r].victims : r \in T}

CapFor(u) ==
    \A T \in SUBSET Evicting(u) :
        Cardinality(Active(u) \ Victims(T)) + Cardinality(Adding(u) \union T) <= Bound

\* The sets that CapInv counts are finite.
LEMMA Finite ==
    ASSUME TypeOK, NEW u
    PROVE  /\ IsFiniteSet(Active(u))
           /\ \A T \in SUBSET Requests : /\ IsFiniteSet(T)
                                        /\ Cardinality(T) \in Nat
                                        /\ Cardinality(T) <= Cardinality(Requests)
           /\ Evicting(u) \subseteq Requests /\ Adding(u) \subseteq Requests
           /\ Cardinality(Requests) \in Nat /\ Bound \in Int
<1>1. IsFiniteSet(1 .. (nextId - 1))
  BY FS_Interval DEF TypeOK
<1>2. Active(u) \subseteq 1 .. (nextId - 1)
  BY DEF TypeOK, Active
<1>3. IsFiniteSet(Active(u))
  BY <1>1, <1>2, FS_Subset
<1>4. ASSUME NEW T \in SUBSET Requests
      PROVE  /\ IsFiniteSet(T)
             /\ Cardinality(T) \in Nat
             /\ Cardinality(T) <= Cardinality(Requests)
  BY RequestsAssumption, FS_Subset, FS_CardinalityType
<1>5. Cardinality(Requests) \in Nat
  BY RequestsAssumption, FS_CardinalityType
<1> QED
  BY <1>3, <1>4, <1>5, MaxSessionsAssumption DEF Evicting, Adding, Bound

\* A part of a finite set is no larger than the set.
LEMMA Part ==
    ASSUME NEW S, IsFiniteSet(S), NEW T, T \subseteq S
    PROVE  /\ IsFiniteSet(T)
           /\ Cardinality(T) \in Nat /\ Cardinality(S) \in Nat
           /\ Cardinality(T) <= Cardinality(S)
BY FS_Subset, FS_CardinalityType

\* A set is what a part of it holds and what is left.
LEMMA Rest ==
    ASSUME NEW S, IsFiniteSet(S), NEW T, T \subseteq S
    PROVE  Cardinality(S) = Cardinality(T) + Cardinality(S \ T)
<1> DEFINE R == S \ T
<1>1. IsFiniteSet(T) /\ IsFiniteSet(R)
  BY FS_Subset
<1>2. T \union R = S /\ T \intersect R = {}
  OBVIOUS
<1>3. Cardinality(T \union R) = Cardinality(T) + Cardinality(R) - Cardinality(T \intersect R)
  BY <1>1, FS_Union
<1>4. Cardinality(T) \in Nat /\ Cardinality(R) \in Nat /\ Cardinality({}) = 0
  BY <1>1, FS_CardinalityType, FS_EmptySet
<1>5. Cardinality(S) = Cardinality(T) + Cardinality(R) - Cardinality({})
  BY <1>2, <1>3, Zenon
<1> QED
  BY <1>4, <1>5

\* An element added to a finite set makes it larger by one at most.
LEMMA OneMore ==
    ASSUME NEW S, IsFiniteSet(S), NEW x
    PROVE  /\ IsFiniteSet(S \union {x})
           /\ Cardinality(S \union {x}) \in Nat
           /\ Cardinality(S \union {x}) <= Cardinality(S) + 1
<1>1. /\ IsFiniteSet(S \union {x})
      /\ Cardinality(S \union {x}) = IF x \in S THEN Cardinality(S) ELSE Cardinality(S) + 1
  BY FS_AddElement
<1>2. Cardinality(S) \in Nat
  BY FS_CardinalityType
<1> QED
  BY <1>1, <1>2

\* One pending eviction T is under the bound after a step if, before it,
\* an eviction by the requests S bounded more sessions and more requests.
LEMMA Dominated ==
    ASSUME TypeOK, NEW u, CapFor(u), NEW S \in SUBSET Evicting(u),
           NEW A, A \subseteq Active(u) \ Victims(S),
           NEW R, R \subseteq Adding(u) \union S
    PROVE  Cardinality(A) + Cardinality(R) <= Bound
<1>1. IsFiniteSet(Active(u) \ Victims(S))
  BY Finite, Part
<1>2. IsFiniteSet(Adding(u) \union S)
  BY Finite
<1>3. Cardinality(Active(u) \ Victims(S)) + Cardinality(Adding(u) \union S) <= Bound
  BY DEF CapFor
<1> QED
  BY <1>1, <1>2, <1>3, Part, Finite

\* A step that opens, revives or reads no session and starts no new addition
\* keeps the bound: this is every step but find, evict, create and update.
LEMMA Quiet ==
    ASSUME TypeOK, NEW u, CapFor(u),
           Active(u)' \subseteq Active(u), Adding(u)' \subseteq Adding(u),
           Evicting(u)' \subseteq Evicting(u),
           \A r \in Evicting(u)' : req'[r].victims = req[r].victims
    PROVE  CapFor(u)'
<1> SUFFICES ASSUME NEW T \in SUBSET Evicting(u)'
             PROVE  Cardinality(Active(u)' \ Victims(T)')
                      + Cardinality(Adding(u)' \union T) <= Bound
  BY DEF CapFor, Bound
<1>1. Victims(T)' = Victims(T)
  BY DEF Victims
<1> QED
  BY <1>1, Dominated

\* Reading the active sessions leaves room for one.
LEMMA FindKeepsCap ==
    ASSUME TypeOK, NEW r \in Requests, GetActiveSessions(r), NEW u, CapFor(u)
    PROVE  CapFor(u)'
<1>0. Active(u)' = Active(u)
  BY DEF GetActiveSessions, Active, Ids, Expired
<1>1. CASE req[r].user # u
  <2>1. \A q \in Requests \ {r} : req'[q] = req[q]
    BY DEF GetActiveSessions, Goto, TypeOK
  <2>2. req'[r].user = req[r].user
    BY DEF GetActiveSessions, Goto, TypeOK, Request
  <2>3. Adding(u)' = Adding(u) /\ Evicting(u)' = Evicting(u) /\ r \notin Evicting(u)
    BY <1>1, <2>1, <2>2 DEF Adding, Evicting
  <2>4. \A q \in Evicting(u)' : req'[q].victims = req[q].victims
    BY <2>1, <2>3 DEF Evicting
  <2> QED BY <1>0, <2>3, <2>4, Quiet
<1>2. CASE req[r].user = u /\ ~CapReached(Active(u))
  <2>1. Cardinality(Active(u)) <= MaxSessions - 1 /\ Cardinality(Active(u)) \in Nat
    BY <1>2, Finite, FS_CardinalityType, MaxSessionsAssumption DEF CapReached
  <2> SUFFICES ASSUME NEW T \in SUBSET Evicting(u)'
               PROVE  Cardinality(Active(u)' \ Victims(T)')
                        + Cardinality(Adding(u)' \union T) <= Bound
    BY DEF CapFor, Bound
  <2>2. Adding(u)' \union T \in SUBSET Requests
    BY DEF Adding, Evicting
  <2>3. Cardinality(Active(u)' \ Victims(T)') <= MaxSessions - 1
        /\ Cardinality(Active(u)' \ Victims(T)') \in Nat
    BY <1>0, <2>1, Finite, Part, MaxSessionsAssumption
  <2> QED
    BY <2>2, <2>3, Finite, MaxSessionsAssumption DEF Bound
<1>3. CASE req[r].user = u /\ CapReached(Active(u))
  <2>1. PICK V \in SUBSET Active(u) :
          /\ Cardinality(V) = Excess(Active(u))
          /\ req' = [req EXCEPT ![r] = [@ EXCEPT !.pc = "evict", !.victims = V]]
    BY <1>3 DEF GetActiveSessions
  <2>2. Cardinality(Active(u) \ V) = MaxSessions - 1
    <3>1. IsFiniteSet(Active(u)) /\ IsFiniteSet(V) /\ IsFiniteSet(Active(u) \ V)
      BY Finite, Part
    <3>3. Cardinality(Active(u)) = Cardinality(V) + Cardinality(Active(u) \ V)
      BY Finite, Rest
    <3> QED
      BY <2>1, <3>1, <3>3, FS_CardinalityType, MaxSessionsAssumption DEF Excess
  <2>3. /\ Adding(u)' \subseteq Adding(u)
        /\ Evicting(u)' \subseteq Evicting(u) \union {r}
        /\ \A q \in Requests \ {r} : req'[q] = req[q]
        /\ req'[r].victims = V
    <3>1. \A q \in Requests \ {r} : req'[q] = req[q]
      BY <2>1 DEF TypeOK
    <3>2. req'[r].victims = V /\ req'[r].pc = "evict"
      BY <2>1 DEF TypeOK, Request
    <3> QED
      BY <3>1, <3>2 DEF Adding, Evicting
  <2> SUFFICES ASSUME NEW T \in SUBSET Evicting(u)'
               PROVE  Cardinality(Active(u)' \ Victims(T)')
                        + Cardinality(Adding(u)' \union T) <= Bound
    BY DEF CapFor, Bound
  <2>4. CASE r \in T
    <3>1. Active(u)' \ Victims(T)' \subseteq Active(u) \ V
      BY <1>0, <2>3, <2>4 DEF Victims
    <3>2. Adding(u)' \union T \in SUBSET Requests
      BY DEF Adding, Evicting
    <3>3. IsFiniteSet(Active(u) \ V)
      BY Finite, Part
    <3> QED
      BY <3>1, <3>2, <3>3, <2>2, Part, Finite, MaxSessionsAssumption DEF Bound
  <2>5. CASE r \notin T
    <3>1. T \in SUBSET Evicting(u) /\ Victims(T)' = Victims(T)
      BY <2>3, <2>5 DEF Victims, Evicting
    <3> QED
      BY <1>0, <2>3, <3>1, Dominated
  <2> QED BY <2>4, <2>5
<1> QED BY <1>1, <1>2, <1>3

\* An eviction carries out what CapInv already accounts for.
LEMMA EvictKeepsCap ==
    ASSUME TypeOK, NEW r \in Requests, Evict(r), NEW u, CapFor(u)
    PROVE  CapFor(u)'
<1>1. \A q \in Requests \ {r} : req'[q] = req[q]
  BY DEF Evict, TypeOK
<1>2. req'[r].user = req[r].user /\ req'[r].pc # "evict"
  BY DEF Evict, TypeOK, Request, AfterManage
<1>3. Active(u)' \subseteq Active(u) \ req[r].victims
  BY DEF Evict, Without, Active, Ids, Expired
<1>4. CASE req[r].user # u
  <2>1. Adding(u)' \subseteq Adding(u) /\ Evicting(u)' \subseteq Evicting(u)
        /\ r \notin Evicting(u)'
    BY <1>1, <1>2, <1>4 DEF Adding, Evicting
  <2>2. \A q \in Evicting(u)' : req'[q].victims = req[q].victims
    BY <1>1, <2>1 DEF Evicting
  <2> QED BY <1>3, <2>1, <2>2, Quiet
<1>5. CASE req[r].user = u
  <2> SUFFICES ASSUME NEW T \in SUBSET Evicting(u)'
               PROVE  Cardinality(Active(u)' \ Victims(T)')
                        + Cardinality(Adding(u)' \union T) <= Bound
    BY DEF CapFor, Bound
  <2>1. r \notin T /\ T \union {r} \in SUBSET Evicting(u)
    BY <1>1, <1>2, <1>5 DEF Evicting, Evict
  <2>2. Adding(u)' \union T \subseteq Adding(u) \union (T \union {r})
    BY <1>1 DEF Adding
  <2>3. Victims(T)' = Victims(T)
    BY <1>1, <2>1 DEF Victims, Evicting
  <2>4. Active(u)' \ Victims(T)' \subseteq Active(u) \ Victims(T \union {r})
    BY <1>3, <2>3 DEF Victims
  <2> QED
    BY <2>1, <2>2, <2>4, Dominated
<1> QED BY <1>4, <1>5

\* A step that ends an addition and makes at most one more session active.
LEMMA AddKeepsCap ==
    ASSUME TypeOK, NEW r \in Requests, req[r].pc \in {"create", "update"}, End(r),
           NEW u, CapFor(u), NEW x,
           Active(u)' \subseteq Active(u) \union (IF req[r].user = u THEN {x} ELSE {})
    PROVE  CapFor(u)'
<1>1. \A q \in Requests \ {r} : req'[q] = req[q]
  BY DEF End, TypeOK
<1>2. req'[r].pc = "idle"
  BY DEF End, TypeOK, Idle
<1>3. Adding(u)' = Adding(u) \ {r} /\ Evicting(u)' = Evicting(u) /\ r \notin Evicting(u)
  BY <1>1, <1>2 DEF Adding, Evicting
<1>4. CASE req[r].user # u
  <2>1. \A q \in Evicting(u)' : req'[q].victims = req[q].victims
    BY <1>1, <1>3 DEF Evicting
  <2> QED BY <1>3, <1>4, <2>1, Quiet
<1>5. CASE req[r].user = u
  <2> SUFFICES ASSUME NEW T \in SUBSET Evicting(u)'
               PROVE  Cardinality(Active(u)' \ Victims(T)')
                        + Cardinality(Adding(u)' \union T) <= Bound
    BY DEF CapFor, Bound
  <2> DEFINE A == Active(u) \ Victims(T)
             R == Adding(u) \union T
  <2>1. T \in SUBSET Evicting(u) /\ Victims(T)' = Victims(T)
    BY <1>1, <1>3 DEF Victims, Evicting
  <2>2. Active(u)' \ Victims(T)' \subseteq A \union {x}
    BY <1>5, <2>1
  <2>3. Adding(u)' \union T = R \ {r} /\ r \in R
    BY <1>3, <1>5, <2>1 DEF Adding
  <2>4. IsFiniteSet(A) /\ IsFiniteSet(R) /\ IsFiniteSet(A \union {x})
    <3>1. IsFiniteSet(A)
      BY Finite, Part
    <3>2. IsFiniteSet(R)
      BY <2>1, Finite
    <3> QED BY <3>1, <3>2, OneMore
  <2>5. Cardinality(Active(u)' \ Victims(T)') <= Cardinality(A) + 1
    <3>1. /\ Cardinality(A \union {x}) <= Cardinality(A) + 1
          /\ Cardinality(A \union {x}) \in Nat
      BY <2>4, OneMore
    <3>2. Cardinality(Active(u)' \ Victims(T)') <= Cardinality(A \union {x})
          /\ Cardinality(Active(u)' \ Victims(T)') \in Nat
      BY <2>2, <2>4, Part
    <3>3. Cardinality(A) \in Nat
      BY <2>4, FS_CardinalityType
    <3> QED BY <3>1, <3>2, <3>3
  <2>6. Cardinality(Adding(u)' \union T) = Cardinality(R) - 1
    <3>1. Cardinality(R \ {r}) = Cardinality(R) - 1
      BY <2>3, <2>4, FS_RemoveElement
    <3> QED BY <2>3, <3>1, Zenon
  <2>7. Cardinality(A) + Cardinality(R) <= Bound
    BY <2>1 DEF CapFor
  <2>8. /\ Cardinality(A) \in Nat /\ Cardinality(R) \in Nat
        /\ Cardinality(Active(u)' \ Victims(T)') \in Nat
    BY <2>2, <2>4, Part, FS_CardinalityType
  <2> QED
    BY <2>5, <2>6, <2>7, <2>8, Finite
<1> QED BY <1>4, <1>5

\* The row that createSession inserts and the one that updateSession extends
\* are the only ones that become active.
LEMMA CreateKeepsCap ==
    ASSUME TypeOK, NEW r \in Requests, CreateSession(r), NEW u, CapFor(u)
    PROVE  CapFor(u)'
<1>1. Active(u)' \subseteq Active(u) \union (IF req[r].user = u THEN {nextId} ELSE {})
  BY DEF CreateSession, Active, Ids, Expired
<1> QED
  BY <1>1, AddKeepsCap DEF CreateSession

\* A refresh makes no other session active than the one it came from.
LEMMA UpdateKeepsCap ==
    ASSUME TypeOK, NEW r \in Requests, UpdateSession(r), NEW u, CapFor(u),
           req[r].sid \in Ids => session[req[r].sid].user = req[r].user
    PROVE  CapFor(u)'
<1>1. CASE req[r].sid \in Ids /\ session' = [session EXCEPT
                ![req[r].sid].expireAt = AccessExpires(req[r].mint),
                ![req[r].sid].refreshTokenExpiresAt = RefreshExpires(req[r].mint)]
  <2>1. Ids' = Ids /\ now' = now
    BY <1>1 DEF UpdateSession, Ids
  <2>2. \A i \in Ids \ {req[r].sid} : session'[i] = session[i]
    BY <1>1 DEF Ids
  <2>3. session'[req[r].sid].user = req[r].user
    BY <1>1 DEF Ids, TypeOK, Row
  <2>4. Active(u)' \subseteq Active(u) \union (IF req[r].user = u THEN {req[r].sid} ELSE {})
    BY <2>1, <2>2, <2>3 DEF Active, Expired
  <2> QED BY <2>4, AddKeepsCap DEF UpdateSession
<1>2. CASE UNCHANGED session
  <2>1. Active(u)' = Active(u)
    BY <1>2 DEF UpdateSession, Active, Ids, Expired
  <2> QED BY <2>1, AddKeepsCap DEF UpdateSession
<1> QED
  BY <1>1, <1>2 DEF UpdateSession

-----------------------------------------------------------------------------
(***************************************************************************)
(* The invariants together.                                                *)
(***************************************************************************)
\* A row keeps its user, and an id is never handed out twice.
LEMMA RowsKeepUsers ==
    ASSUME TypeOK, [Next]_vars
    PROVE  /\ nextId' \in Nat /\ nextId <= nextId'
           /\ \A i \in Ids' : i < nextId => i \in Ids /\ session'[i].user = session[i].user
<1> USE DEF TypeOK, Ids
<1>1. ASSUME NEW r \in Requests, CleanupExpiredSessions(r) \/ Evict(r) \/ DeleteSession(r)
      PROVE  nextId' = nextId /\ \A i \in Ids' : i \in Ids /\ session'[i] = session[i]
  BY <1>1 DEF CleanupExpiredSessions, Evict, DeleteSession, Without
<1>2. ASSUME NEW u \in Users, DeleteAllUserSessions(u)
      PROVE  nextId' = nextId /\ \A i \in Ids' : i \in Ids /\ session'[i] = session[i]
  BY <1>2 DEF DeleteAllUserSessions, Without
<1>3. ASSUME NEW r \in Requests, CreateSession(r)
      PROVE  /\ nextId' \in Nat /\ nextId <= nextId'
             /\ \A i \in Ids' : i < nextId => i \in Ids /\ session'[i] = session[i]
  BY <1>3 DEF CreateSession
<1>4. ASSUME NEW r \in Requests, UpdateSession(r)
      PROVE  nextId' = nextId /\ Ids' = Ids /\ \A i \in Ids : session'[i].user = session[i].user
  BY <1>4 DEF UpdateSession, Row
<1>5. \/ UNCHANGED <<session, nextId>>
      \/ \E r \in Requests : \/ CleanupExpiredSessions(r) \/ Evict(r) \/ DeleteSession(r)
                             \/ CreateSession(r) \/ UpdateSession(r)
      \/ \E u \in Users : DeleteAllUserSessions(u)
  BY DEF Next, vars, BeginLogin, BeginRefresh, BeginLogout, BeginList, BeginAuthenticated,
         Reread, GetActiveSessions, GetSessionById, FindSessionByToken, ListSessions,
         Fail, Tick
<1> QED
  BY <1>1, <1>2, <1>3, <1>4, <1>5

\* A request keeps the user and the row id it has, takes the id of a row of its
\* user, or holds none.
LEMMA RequestsKeepTargets ==
    ASSUME TypeOK, [Next]_vars, NEW r \in Requests
    PROVE  \/ req'[r].sid = 0
           \/ req'[r].sid = req[r].sid /\ req'[r].user = req[r].user
           \/ /\ req'[r].sid \in Ids /\ req'[r].user = req[r].user
              /\ session[req'[r].sid].user = req[r].user
<1> USE DEF TypeOK
<1>1. ASSUME NEW q \in Requests, NEW step, Goto(q, step)
      PROVE  req'[r].sid = req[r].sid /\ req'[r].user = req[r].user
  BY <1>1 DEF Goto, Request
<1>2. ASSUME NEW q \in Requests, End(q)
      PROVE  req'[r].sid = 0 \/ req'[r] = req[r]
  BY <1>2 DEF End, Idle
<1>3. ASSUME NEW q \in Requests, NEW u \in Users, BeginLogin(q, u)
      PROVE  req'[r].sid = 0 \/ req'[r] = req[r]
  BY <1>3 DEF BeginLogin, Idle
<1>4. ASSUME NEW q \in Requests, NEW i \in Ids, BeginRefresh(q, i)
      PROVE  req'[r].sid = 0 \/ req'[r] = req[r]
  BY <1>4 DEF BeginRefresh, Idle
<1>5. ASSUME NEW q \in Requests, NEW i \in Ids, BeginLogout(q, i) \/ BeginList(q, i)
      PROVE  req'[r].sid = 0 \/ req'[r] = req[r]
  BY <1>5 DEF BeginLogout, BeginList, BeginAuthenticated, Idle
<1>6. ASSUME NEW q \in Requests, Reread(q)
      PROVE  \/ req'[r].sid = 0 \/ req'[r] = req[r]
             \/ /\ req'[r].sid \in Ids /\ req'[r].user = req[r].user
                /\ session[req'[r].sid].user = req[r].user
  <2>1. ASSUME NEW i \in Ids, HasRefreshToken(q, i),
               req' = [req EXCEPT ![q] = [@ EXCEPT !.pc = "cleanup", !.mint = now,
                            !.token = 0, !.sid = i, !.login = session[i].login]]
        PROVE  \/ req'[r] = req[r]
               \/ /\ req'[r].sid \in Ids /\ req'[r].user = req[r].user
                  /\ session[req'[r].sid].user = req[r].user
    <3>1. session[i].user = req[q].user
      BY <2>1 DEF HasRefreshToken, RefreshToken
    <3>2. CASE r # q
      BY <2>1, <3>2
    <3>3. CASE r = q
      <4>1. req'[q].sid = i /\ req'[q].user = req[q].user
        BY <2>1 DEF Request
      <4> QED BY <3>1, <3>3, <4>1
    <3> QED BY <3>2, <3>3
  <2> QED
    BY <1>2, <1>6, <2>1 DEF Reread
<1>7. ASSUME NEW q \in Requests, GetActiveSessions(q) \/ Evict(q)
      PROVE  req'[r].sid = req[r].sid /\ req'[r].user = req[r].user
  <2>1. CASE \E step, V : req' = [req EXCEPT ![q] = [@ EXCEPT !.pc = step, !.victims = V]]
    BY <2>1 DEF Request
  <2> QED BY <1>1, <1>7, <2>1 DEF GetActiveSessions, Evict
<1>8. CASE UNCHANGED req
  BY <1>8
<1> QED
  BY <1>1, <1>2, <1>3, <1>4, <1>5, <1>6, <1>7, <1>8
     DEF Next, vars, CleanupExpiredSessions, GetSessionById, CreateSession, UpdateSession,
         FindSessionByToken, DeleteSession, ListSessions, Fail, DeleteAllUserSessions, Tick

\* A refresh never rewrites a session of another user.
THEOREM RefreshStaysWithUser == Spec => []RefreshTargetsOwnUser
<1>1. Init => RefreshTargetsOwnUser
  BY DEF Init, RefreshTargetsOwnUser, Idle
<1>2. TypeOK /\ TypeOK' /\ RefreshTargetsOwnUser /\ [Next]_vars => RefreshTargetsOwnUser'
  <2> SUFFICES ASSUME TypeOK, TypeOK', RefreshTargetsOwnUser, [Next]_vars,
                      NEW r \in Requests, req'[r].sid # 0
               PROVE  /\ req'[r].sid < nextId'
                      /\ req'[r].sid \in Ids' => session'[req'[r].sid].user = req'[r].user
    BY DEF RefreshTargetsOwnUser
  <2>1. /\ nextId' \in Nat /\ nextId \in Nat /\ nextId <= nextId'
        /\ \A i \in Ids' : i < nextId => i \in Ids /\ session'[i].user = session[i].user
    BY RowsKeepUsers DEF TypeOK
  <2>2. req[r].sid \in Nat /\ req'[r].sid \in Nat
    BY DEF TypeOK, Request
  <2>3. CASE req'[r].sid = req[r].sid /\ req'[r].user = req[r].user
    BY <2>1, <2>2, <2>3 DEF RefreshTargetsOwnUser
  <2>4. CASE /\ req'[r].sid \in Ids /\ req'[r].user = req[r].user
             /\ session[req'[r].sid].user = req[r].user
    <3>1. req'[r].sid < nextId
      BY <2>2, <2>4 DEF TypeOK
    <3> QED BY <2>1, <2>2, <2>4, <3>1
  <2> QED BY <2>3, <2>4, RequestsKeepTargets
<1> QED
  BY <1>1, <1>2, TypeCorrect, PTL DEF Spec

\* Every step keeps the strengthened cap.
LEMMA CapStep ==
    ASSUME TypeOK, RefreshTargetsOwnUser, [Next]_vars, NEW u \in Users, CapFor(u)
    PROVE  CapFor(u)'
<1> USE DEF TypeOK
<1>1. ASSUME NEW r \in Requests, NEW step \in Steps \ {"evict", "create", "lookup", "update"},
             NEW q, q.pc = step, req' = [req EXCEPT ![r] = q], Active(u)' \subseteq Active(u)
      PROVE  CapFor(u)'
  <2>1. Adding(u)' \subseteq Adding(u) /\ Evicting(u)' \subseteq Evicting(u)
        /\ \A p \in Evicting(u)' : req'[p].victims = req[p].victims
    BY <1>1 DEF Adding, Evicting
  <2> QED BY <1>1, <2>1, Quiet
<1>2. ASSUME NEW r \in Requests, End(r), Active(u)' \subseteq Active(u)
      PROVE  CapFor(u)'
  BY <1>1, <1>2 DEF End, Idle, Steps
<1>3. ASSUME NEW r \in Requests, NEW step \in {"find", "listFind", "delete"}, Goto(r, step),
             Active(u)' \subseteq Active(u)
      PROVE  CapFor(u)'
  <2>1. [req[r] EXCEPT !.pc = step].pc = step
    BY DEF Request
  <2> QED BY <1>1, <1>3, <2>1 DEF Goto, Steps
<1>4. ASSUME UNCHANGED <<now, session>> PROVE Active(u)' = Active(u)
  BY <1>4 DEF Active, Ids, Expired
<1>5. ASSUME NEW D, session' = Without(D), now' = now PROVE Active(u)' \subseteq Active(u)
  BY <1>5 DEF Without, Active, Ids, Expired
<1>6. ASSUME NEW r \in Requests, NEW v \in Users, BeginLogin(r, v) PROVE CapFor(u)'
  BY <1>1, <1>4, <1>6 DEF BeginLogin, Idle, Steps
<1>7. ASSUME NEW r \in Requests, NEW i \in Ids, BeginRefresh(r, i) PROVE CapFor(u)'
  BY <1>1, <1>4, <1>7 DEF BeginRefresh, Idle, Steps
<1>8. ASSUME NEW r \in Requests, NEW i \in Ids, BeginLogout(r, i) \/ BeginList(r, i)
      PROVE  CapFor(u)'
  BY <1>1, <1>4, <1>8 DEF BeginLogout, BeginList, BeginAuthenticated, Idle, Steps
<1>9. ASSUME NEW r \in Requests, Reread(r) PROVE CapFor(u)'
  <2>1. ASSUME NEW i \in Ids,
               req' = [req EXCEPT ![r] = [@ EXCEPT !.pc = "cleanup", !.mint = now,
                            !.token = 0, !.sid = i, !.login = session[i].login]]
        PROVE  CapFor(u)'
    <3> DEFINE q == [req[r] EXCEPT !.pc = "cleanup", !.mint = now, !.token = 0,
                                   !.sid = i, !.login = session[i].login]
    <3>1. q.pc = "cleanup"
      BY DEF Request
    <3> QED BY <1>1, <1>4, <1>9, <2>1, <3>1 DEF Reread, Steps
  <2> QED BY <1>2, <1>4, <1>9, <2>1 DEF Reread
<1>10. ASSUME NEW r \in Requests, CleanupExpiredSessions(r) PROVE CapFor(u)'
  BY <1>3, <1>5, <1>10 DEF CleanupExpiredSessions
<1>11. ASSUME NEW r \in Requests, GetSessionById(r) PROVE CapFor(u)'
  <2>1. /\ \A p \in Requests \ {r} : req'[p] = req[p]
        /\ req'[r].pc \in {"create", "update"} /\ req'[r].user = req[r].user
    BY <1>11 DEF GetSessionById, Goto, Request
  <2>2. Adding(u)' \subseteq Adding(u) /\ Evicting(u)' \subseteq Evicting(u)
        /\ \A p \in Evicting(u)' : req'[p].victims = req[p].victims
    BY <1>11, <2>1 DEF GetSessionById, Adding, Evicting
  <2> QED BY <1>4, <1>11, <2>2, Quiet DEF GetSessionById
<1>12. ASSUME NEW r \in Requests, UpdateSession(r) PROVE CapFor(u)'
  <2>1. req[r].sid \in Ids => session[req[r].sid].user = req[r].user
    BY DEF RefreshTargetsOwnUser
  <2> QED BY <1>12, <2>1, UpdateKeepsCap
<1>13. ASSUME NEW r \in Requests, FindSessionByToken(r) PROVE CapFor(u)'
  BY <1>2, <1>3, <1>4, <1>13 DEF FindSessionByToken
<1>14. ASSUME NEW r \in Requests, DeleteSession(r) PROVE CapFor(u)'
  BY <1>2, <1>5, <1>14 DEF DeleteSession
<1>15. ASSUME NEW r \in Requests, ListSessions(r) \/ Fail(r) PROVE CapFor(u)'
  BY <1>2, <1>4, <1>15 DEF ListSessions, Fail
<1>16. ASSUME UNCHANGED req, Active(u)' \subseteq Active(u) PROVE CapFor(u)'
  BY <1>16, Quiet DEF Adding, Evicting
<1>17. ASSUME NEW v \in Users, DeleteAllUserSessions(v) PROVE CapFor(u)'
  BY <1>5, <1>16, <1>17 DEF DeleteAllUserSessions
<1>18. CASE Tick
  <2>1. Active(u)' \subseteq Active(u)
    BY <1>18 DEF Tick, Active, Ids, Expired, Row
  <2> QED BY <1>16, <1>18, <2>1 DEF Tick
<1>19. CASE UNCHANGED vars
  BY <1>4, <1>16, <1>19 DEF vars
<1> QED
  BY <1>6, <1>7, <1>8, <1>9, <1>10, <1>11, <1>12, <1>13, <1>14, <1>15, <1>17, <1>18, <1>19,
     FindKeepsCap, EvictKeepsCap, CreateKeepsCap DEF Next

\* The bound on what concurrent requests leave behind in any order.
THEOREM CapInvariant == Spec => []CapInv
<1>1. CapInv <=> \A u \in Users : CapFor(u)
  BY DEF CapInv, CapFor, Victims, Bound
<1>2. Init => CapInv
  <2> SUFFICES ASSUME Init, NEW u \in Users PROVE CapFor(u)
    BY <1>1
  <2>1. TypeOK
    BY IdleType DEF Init, TypeOK, Ids
  <2>2. Active(u) = {} /\ Adding(u) = {} /\ Evicting(u) = {}
    BY DEF Init, Active, Ids, Adding, Evicting, Idle
  <2>3. \A T \in SUBSET Evicting(u) : Active(u) \ Victims(T) = {} /\ Adding(u) \union T = {}
    BY <2>2
  <2>4. Cardinality({}) + Cardinality({}) <= Bound
    BY <2>1, Finite, FS_EmptySet, MaxSessionsAssumption DEF Bound
  <2> QED BY <2>3, <2>4, Zenon DEF CapFor
<1>3. TypeOK /\ RefreshTargetsOwnUser /\ CapInv /\ [Next]_vars => CapInv'
  <2>1. ASSUME TypeOK, RefreshTargetsOwnUser, CapInv, [Next]_vars, NEW u \in Users
        PROVE  CapFor(u)'
    BY <1>1, <2>1, CapStep
  <2>2. (\A u \in Users : CapFor(u)') => CapInv'
    BY DEF CapInv, CapFor, Victims, Bound
  <2> QED BY <2>1, <2>2
<1> QED
  BY <1>2, <1>3, TypeCorrect, RefreshStaysWithUser, PTL DEF Spec

\* At most one session per further concurrent request above the cap.
THEOREM SessionCapHolds == Spec => []SessionCapUpToConcurrency
<1>1. TypeOK /\ CapInv => SessionCapUpToConcurrency
  <2> SUFFICES ASSUME TypeOK, CapInv, NEW u \in Users
               PROVE  Cardinality(Active(u)) <= MaxSessions + Cardinality(Requests) - 1
    BY DEF SessionCapUpToConcurrency
  <2>1. CapFor(u)
    BY DEF CapInv, CapFor, Victims, Bound
  <2>2. Active(u) \subseteq Active(u) \ Victims({})
    BY DEF Victims
  <2>3. Cardinality(Active(u)) + Cardinality({}) <= Bound
    BY <2>1, <2>2, Dominated
  <2> QED
    BY <2>3, Finite, FS_EmptySet, FS_CardinalityType, MaxSessionsAssumption DEF Bound
<1> QED
  BY <1>1, TypeCorrect, CapInvariant, PTL

\* Requests that never overlap respect the documented cap.
THEOREM SequentialSessionCap ==
    ASSUME Cardinality(Requests) = 1
    PROVE  Spec => []SessionCap
<1>1. SessionCapUpToConcurrency => SessionCap
  BY MaxSessionsAssumption DEF SessionCapUpToConcurrency, SessionCap
<1> QED
  BY <1>1, SessionCapHolds, PTL
-----------------------------------------------------------------------------
(***************************************************************************)
(* Eviction.  A request carries victims from the read of the active        *)
(* sessions to the deleteMany and at no other time; the ids are those of   *)
(* rows of its user, or of rows that are gone, and never come back.        *)
(***************************************************************************)
Stamps ==
    \A i \in Ids : session[i].createdAt <= session[i].updatedAt /\ session[i].updatedAt <= now

VictimsOfUser ==
    \A r \in Requests :
        /\ req[r].pc # "evict" => req[r].victims = {}
        /\ \A v \in req[r].victims : /\ v < nextId
                                     /\ v \in Ids => session[v].user = req[r].user

EvictInv == Stamps /\ VictimsOfUser /\ VictimsAreOldest

\* A step keeps what a row says of its user and its creation; a row it inserts
\* or rewrites is stamped with the time of the step.
LEMMA RowsKeepStamps ==
    ASSUME TypeOK, [Next]_vars
    PROVE  /\ now' \in Nat /\ now <= now'
           /\ \A i \in Ids' :
                \/ /\ i \in Ids /\ session'[i].user = session[i].user
                   /\ session'[i].createdAt = session[i].createdAt
                   /\ \/ session'[i] = session[i]
                      \/ now' = now /\ session'[i].updatedAt = now
                \/ /\ i = nextId /\ i \notin Ids /\ now' = now
                   /\ session'[i].createdAt = now /\ session'[i].updatedAt = now
<1> USE DEF TypeOK, Ids
<1>1. ASSUME NEW D, session' = Without(D), now' = now
      PROVE  now <= now' /\ \A i \in Ids' : i \in Ids /\ session'[i] = session[i]
  BY <1>1 DEF Without
<1>2. ASSUME NEW r \in Requests, CreateSession(r)
      PROVE  /\ now' = now
             /\ \A i \in Ids' :
                  \/ i \in Ids /\ session'[i] = session[i]
                  \/ /\ i = nextId /\ i \notin Ids
                     /\ session'[i].createdAt = now /\ session'[i].updatedAt = now
  BY <1>2 DEF CreateSession
<1>3. ASSUME NEW r \in Requests, UpdateSession(r)
      PROVE  /\ now' = now /\ Ids' = Ids
             /\ \A i \in Ids : /\ session'[i].user = session[i].user
                               /\ session'[i].createdAt = session[i].createdAt
                               /\ \/ session'[i] = session[i]
                                  \/ session'[i].updatedAt = now
  <2>1. CASE UNCHANGED session
    BY <1>3, <2>1 DEF UpdateSession
  <2>2. CASE session' = [session EXCEPT
                ![req[r].sid].expireAt = AccessExpires(req[r].mint),
                ![req[r].sid].refreshTokenExpiresAt = RefreshExpires(req[r].mint),
                ![req[r].sid].updatedAt = now]
    BY <1>3, <2>2 DEF UpdateSession, Row
  <2> QED BY <1>3, <2>1, <2>2 DEF UpdateSession
<1>4. \/ UNCHANGED session /\ (now' = now \/ now' = now + 1)
      \/ \E D : session' = Without(D) /\ now' = now
      \/ \E r \in Requests : CreateSession(r) \/ UpdateSession(r)
  BY DEF Next, vars, BeginLogin, BeginRefresh, BeginLogout, BeginList, BeginAuthenticated,
         Reread, GetActiveSessions, GetSessionById, FindSessionByToken, ListSessions,
         Fail, Tick, CleanupExpiredSessions, Evict, DeleteSession, DeleteAllUserSessions
<1> QED
  BY <1>1, <1>2, <1>3, <1>4

\* A request keeps its victims, has none, or reads the active sessions.
LEMMA RequestsKeepVictims ==
    ASSUME TypeOK, VictimsOfUser, [Next]_vars, NEW r \in Requests
    PROVE  \/ req'[r].victims = {}
           \/ /\ req'[r].victims = req[r].victims /\ req'[r].user = req[r].user
              /\ req'[r].pc = req[r].pc
           \/ /\ UNCHANGED <<now, session>> /\ req'[r].pc = "evict"
              /\ req'[r].user = req[r].user
              /\ req'[r].victims \in SUBSET Active(req[r].user)
              /\ IsOldest(req'[r].victims, Active(req[r].user))
<1> USE DEF TypeOK
<1>1. ASSUME NEW q \in Requests, NEW step, Goto(q, step), req[q].pc # "evict"
      PROVE  req'[r].victims = {} \/ req'[r] = req[r]
  <2>1. req[q].victims = {}
    BY <1>1 DEF VictimsOfUser
  <2> QED BY <1>1, <2>1 DEF Goto, Request
<1>2. ASSUME NEW q \in Requests, End(q)
      PROVE  req'[r].victims = {} \/ req'[r] = req[r]
  BY <1>2 DEF End, Idle
<1>3. ASSUME NEW q \in Requests, NEW u \in Users, BeginLogin(q, u)
      PROVE  req'[r].victims = {} \/ req'[r] = req[r]
  BY <1>3 DEF BeginLogin, Idle
<1>4. ASSUME NEW q \in Requests, NEW i \in Ids, BeginRefresh(q, i)
      PROVE  req'[r].victims = {} \/ req'[r] = req[r]
  BY <1>4 DEF BeginRefresh, Idle
<1>5. ASSUME NEW q \in Requests, NEW i \in Ids, BeginLogout(q, i) \/ BeginList(q, i)
      PROVE  req'[r].victims = {} \/ req'[r] = req[r]
  BY <1>5 DEF BeginLogout, BeginList, BeginAuthenticated, Idle
<1>6. ASSUME NEW q \in Requests, Reread(q)
      PROVE  req'[r].victims = {} \/ req'[r] = req[r]
  <2>1. req[q].victims = {}
    BY <1>6 DEF Reread, VictimsOfUser
  <2>2. ASSUME NEW i \in Ids,
               req' = [req EXCEPT ![q] = [@ EXCEPT !.pc = "cleanup", !.mint = now,
                            !.token = 0, !.sid = i, !.login = session[i].login]]
        PROVE  req'[r].victims = {} \/ req'[r] = req[r]
    BY <2>1, <2>2 DEF Request
  <2> QED BY <1>2, <1>6, <2>2 DEF Reread
<1>7. ASSUME NEW q \in Requests, GetActiveSessions(q)
      PROVE  \/ req'[r].victims = {} \/ req'[r] = req[r]
             \/ /\ UNCHANGED <<now, session>> /\ req'[r].pc = "evict"
                /\ req'[r].user = req[r].user
                /\ req'[r].victims \in SUBSET Active(req[r].user)
                /\ IsOldest(req'[r].victims, Active(req[r].user))
  <2>1. CASE Goto(q, AfterManage(q))
    BY <1>1, <1>7, <2>1 DEF GetActiveSessions
  <2>2. CASE \E V \in SUBSET Active(req[q].user) :
               /\ IsOldest(V, Active(req[q].user))
               /\ req' = [req EXCEPT ![q] = [@ EXCEPT !.pc = "evict", !.victims = V]]
    <3>1. PICK V \in SUBSET Active(req[q].user) :
               /\ IsOldest(V, Active(req[q].user))
               /\ req' = [req EXCEPT ![q] = [@ EXCEPT !.pc = "evict", !.victims = V]]
      BY <2>2
    <3>2. CASE r # q
      BY <3>1, <3>2
    <3>3. CASE r = q
      <4>1. req'[q].victims = V /\ req'[q].pc = "evict" /\ req'[q].user = req[q].user
        BY <3>1 DEF Request
      <4> QED BY <1>7, <3>1, <3>3, <4>1 DEF GetActiveSessions
    <3> QED BY <3>2, <3>3
  <2> QED BY <1>7, <2>1, <2>2 DEF GetActiveSessions
<1>8. ASSUME NEW q \in Requests, Evict(q)
      PROVE  req'[r].victims = {} \/ req'[r] = req[r]
  BY <1>8 DEF Evict, Request
<1>9. CASE UNCHANGED req
  BY <1>9
<1> QED
  BY <1>1, <1>2, <1>3, <1>4, <1>5, <1>6, <1>7, <1>8, <1>9
     DEF Next, vars, CleanupExpiredSessions, GetSessionById, CreateSession, UpdateSession,
         FindSessionByToken, DeleteSession, ListSessions, Fail, DeleteAllUserSessions, Tick
\* The clock never runs behind a row.
LEMMA StampsStep ==
    ASSUME TypeOK, Stamps, [Next]_vars
    PROVE  Stamps'
<1> SUFFICES ASSUME NEW i \in Ids'
             PROVE  /\ session'[i].createdAt <= session'[i].updatedAt
                    /\ session'[i].updatedAt <= now'
  BY DEF Stamps
<1>1. now \in Nat /\ now' \in Nat
  BY RowsKeepStamps DEF TypeOK
<1>2. i \in Ids => session[i].createdAt \in Nat /\ session[i].updatedAt \in Nat
  BY DEF TypeOK, Row
<1>3. CASE /\ i \in Ids /\ session'[i].createdAt = session[i].createdAt
           /\ session'[i] = session[i] \/ session'[i].updatedAt = now
  BY <1>1, <1>2, <1>3, RowsKeepStamps DEF Stamps
<1>4. CASE session'[i].createdAt = now /\ session'[i].updatedAt = now
  BY <1>1, <1>4, RowsKeepStamps
<1> QED
  BY <1>3, <1>4, RowsKeepStamps

\* Victims remain rows of the user they were read for.
LEMMA VictimsOfUserStep ==
    ASSUME TypeOK, VictimsOfUser, [Next]_vars
    PROVE  VictimsOfUser'
<1> SUFFICES ASSUME NEW r \in Requests
             PROVE  /\ req'[r].pc # "evict" => req'[r].victims = {}
                    /\ \A v \in req'[r].victims :
                         /\ v < nextId'
                         /\ v \in Ids' => session'[v].user = req'[r].user
  BY DEF VictimsOfUser
<1>1. /\ nextId' \in Nat /\ nextId \in Nat /\ nextId <= nextId'
      /\ \A i \in Ids' : i < nextId => i \in Ids /\ session'[i].user = session[i].user
  BY RowsKeepUsers DEF TypeOK
<1>2. CASE req'[r].victims = {}
  BY <1>2
<1>3. CASE /\ req'[r].victims = req[r].victims /\ req'[r].user = req[r].user
           /\ req'[r].pc = req[r].pc
  <2>1. req[r].victims \subseteq Nat
    BY DEF TypeOK, Request
  <2> QED BY <1>1, <1>3, <2>1 DEF VictimsOfUser
<1>4. CASE /\ UNCHANGED <<now, session>> /\ req'[r].pc = "evict"
           /\ req'[r].user = req[r].user
           /\ req'[r].victims \in SUBSET Active(req[r].user)
  BY <1>1, <1>4 DEF Active, Ids, TypeOK
<1> QED
  BY <1>2, <1>3, <1>4, RequestsKeepVictims

\* Nothing that happens between the read and the deleteMany makes a spared
\* session older than a victim: what becomes active is stamped with the clock.
LEMMA VictimsAreOldestStep ==
    ASSUME TypeOK, Stamps, VictimsOfUser, VictimsAreOldest, [Next]_vars
    PROVE  VictimsAreOldest'
<1> SUFFICES ASSUME NEW r \in Requests, NEW v \in req'[r].victims \intersect Ids',
                    NEW w \in Active(req[r].user)' \ req'[r].victims
             PROVE  session'[v].createdAt <= session'[w].updatedAt
  BY DEF VictimsAreOldest
<1>1. \A i \in Ids : session[i].createdAt \in Nat /\ session[i].updatedAt \in Nat
  BY DEF TypeOK, Row
<1>2. CASE /\ req'[r].victims = req[r].victims /\ req'[r].user = req[r].user
           /\ req'[r].pc = req[r].pc
  <2>1. v < nextId /\ nextId \in Nat /\ now \in Nat
    BY <1>2 DEF VictimsOfUser, TypeOK
  <2>2. v \in Ids /\ session'[v].createdAt = session[v].createdAt
    <3>1. v # nextId
      BY <2>1
    <3> QED BY <3>1, RowsKeepStamps
  <2>3. session[v].createdAt <= now
    BY <1>1, <2>1, <2>2 DEF Stamps
  <2>4. w \in Ids' /\ session'[w].user = req[r].user /\ ~(session'[w].expireAt < now')
    BY <1>2 DEF Active, Expired
  <2>5. CASE session'[w].updatedAt = now
    BY <2>2, <2>3, <2>5
  <2>6. CASE w \in Ids /\ session'[w] = session[w]
    <3>1. session[w].expireAt \in Nat /\ now' \in Nat /\ now <= now'
      BY <2>6, RowsKeepStamps DEF TypeOK, Row
    <3>2. w \in Active(req[r].user)
      BY <2>1, <2>4, <2>6, <3>1 DEF Active, Expired
    <3> QED BY <1>2, <2>2, <2>6, <3>2 DEF VictimsAreOldest
  <2> QED BY <2>4, <2>5, <2>6, RowsKeepStamps
<1>3. CASE /\ UNCHANGED <<now, session>> /\ req'[r].pc = "evict"
           /\ req'[r].user = req[r].user
           /\ req'[r].victims \in SUBSET Active(req[r].user)
           /\ IsOldest(req'[r].victims, Active(req[r].user))
  <2>1. w \in Active(req[r].user) /\ w \in Ids /\ v \in Ids
    BY <1>3 DEF Active, Expired, Ids
  <2>2. session[v].createdAt <= session[w].createdAt
    BY <1>3, <2>1 DEF IsOldest
  <2>3. session[w].createdAt <= session[w].updatedAt
    BY <2>1 DEF Stamps
  <2> QED BY <1>1, <1>3, <2>1, <2>2, <2>3
<1> QED
  BY <1>2, <1>3, RequestsKeepVictims

\* What a request knows of its victims, at all times.
LEMMA EvictInvHolds == Spec => []EvictInv
<1>1. Init => EvictInv
  BY DEF Init, EvictInv, Stamps, VictimsOfUser, VictimsAreOldest, Idle, Ids
<1>2. TypeOK /\ EvictInv /\ [Next]_vars => EvictInv'
  BY StampsStep, VictimsOfUserStep, VictimsAreOldestStep DEF EvictInv
<1> QED
  BY <1>1, <1>2, TypeCorrect, PTL DEF Spec

\* An eviction never deletes a session opened after the last use of one that it
\* spares, whatever other requests do between its read and its deleteMany.
THEOREM EvictionTakesOldest == Spec => []VictimsAreOldest
<1>1. EvictInv => VictimsAreOldest
  BY DEF EvictInv
<1> QED
  BY <1>1, EvictInvHolds, PTL

\* A session that validateToken still accepts is deleted only by an eviction or a
\* logout of its own user, or together with all the sessions of its user.
THEOREM LiveSessionsLast == Spec => LiveSessionsLeaveForCause
<1> DEFINE Step == \A i \in Ids : ~Expired(i) /\ i \notin Ids' => Revoked(i)
<1>1. TypeOK /\ EvictInv /\ [Next]_vars => Step
  <2> SUFFICES ASSUME TypeOK, VictimsOfUser, [Next]_vars,
                      NEW i \in Ids, ~Expired(i), i \notin Ids'
               PROVE  Revoked(i)
    BY DEF EvictInv
  <2>1. CASE UNCHANGED session
    BY <2>1 DEF Ids
  <2>2. ASSUME NEW r \in Requests, CleanupExpiredSessions(r) PROVE Revoked(i)
    BY <2>2 DEF CleanupExpiredSessions, Without, ExpiredRows, Ids
  <2>3. ASSUME NEW r \in Requests, Evict(r) PROVE Revoked(i)
    <3>1. i \in req[r].victims
      BY <2>3 DEF Evict, Without, Ids
    <3> QED BY <3>1 DEF VictimsOfUser, Revoked
  <2>4. ASSUME NEW r \in Requests, DeleteSession(r) PROVE Revoked(i)
    <3>1. i \in Presented(r) /\ req[r].pc = "delete"
      BY <2>4 DEF DeleteSession, Without, Ids
    <3> QED BY <3>1 DEF Presented, AccessToken, Revoked
  <2>5. ASSUME NEW u \in Users, DeleteAllUserSessions(u) PROVE Revoked(i)
    <3>1. session[i].user = u
      BY <2>5 DEF DeleteAllUserSessions, Without, Ids
    <3>2. \A j \in Ids' : session'[j].user # u
      BY <2>5 DEF DeleteAllUserSessions, Without, Ids
    <3> QED BY <3>1, <3>2 DEF Revoked
  <2>6. ASSUME NEW r \in Requests, CreateSession(r) \/ UpdateSession(r) PROVE Revoked(i)
    BY <2>6 DEF CreateSession, UpdateSession, Ids
  <2> QED
    BY <2>1, <2>2, <2>3, <2>4, <2>5, <2>6
       DEF Next, vars, BeginLogin, BeginRefresh, BeginLogout, BeginList, BeginAuthenticated,
           Reread, GetActiveSessions, GetSessionById, FindSessionByToken, ListSessions,
           Fail, Tick
<1> QED
  BY <1>1, TypeCorrect, EvictInvHolds, PTL DEF Spec, LiveSessionsLeaveForCause
-----------------------------------------------------------------------------
(***************************************************************************)
(* Logins.  A refresh holds the login of the row it found.  Until another  *)
(* refresh or a logout overtakes it there, which makes the login a         *)
(* contested one, no other row gets that login, no logout ends it, and     *)
(* when the refresh opens a new session the row it found is gone.          *)
(***************************************************************************)
Lineage ==
    /\ \A i \in Ids : session[i].login \in 1 .. (nextId - 1)
    /\ \A r \in Requests : Renewing(r) => req[r].login \in 1 .. (nextId - 1)
    /\ loggedOut \subseteq 1 .. (nextId - 1)

\* What a refresh can rely on as long as nobody contests its login.
Held(r) ==
    Renewing(r) /\ req[r].login \notin contested =>
        /\ req[r].login \notin loggedOut
        /\ \A i \in Ids : session[i].login = req[r].login => i = req[r].sid
        /\ req[r].pc = "create" => req[r].sid \notin Ids
        /\ \A q \in Requests : Renewing(q) /\ req[q].login = req[r].login => q = r

\* The operations that pass through each step of manageUserSessions and on.
OnPath(r) ==
    /\ req[r].pc = "cleanup" => req[r].op \in {"login", "refresh", "list"}
    /\ req[r].pc \in {"find", "evict", "create"} => req[r].op \in {"login", "refresh"}
    /\ req[r].pc \in {"reread", "lookup"} => req[r].op = "refresh"
    /\ req[r].pc \in {"logoutFind", "delete"} => req[r].op = "logout"

LineInv ==
    /\ Lineage /\ OneSessionPerLogin /\ LogoutIsFinal
    /\ \A r \in Requests : Held(r) /\ OnPath(r)

\* What a step does to the rows and the requests when it opens no session.
FewerRows == \A i \in Ids' : i \in Ids /\ session'[i].login = session[i].login
Others(r) == \A q \in Requests \ {r} : req'[q] = req[q]

\* A step that keeps the requests as they are.
LEMMA NobodyMoves ==
    ASSUME LineInv, UNCHANGED <<req, nextId, history>>, FewerRows
    PROVE  LineInv'
<1> USE DEF LineInv, FewerRows, history
<1>1. Lineage' /\ OneSessionPerLogin' /\ LogoutIsFinal'
  BY DEF Lineage, OneSessionPerLogin, LogoutIsFinal, Renewing
<1>2. ASSUME NEW r \in Requests PROVE Held(r)' /\ OnPath(r)'
  <2>1. Held(r)'
    BY DEF Held, Renewing
  <2>2. OnPath(r)'
    BY DEF OnPath
  <2> QED BY <2>1, <2>2
<1> QED
  BY <1>1, <1>2

\* What a step that moves one request on, or ends it, has to show.
LEMMA OneMoves ==
    ASSUME LineInv, NEW r \in Requests, Others(r), UNCHANGED <<nextId, history>>, FewerRows,
           Renewing(r)' => /\ Renewing(r)
                           /\ req'[r].sid = req[r].sid /\ req'[r].login = req[r].login
                           /\ req'[r].pc = "create" => req[r].sid \notin Ids',
           OnPath(r)'
    PROVE  LineInv'
<1> USE DEF LineInv, FewerRows, history
<1>1. \A q \in Requests : q # r => req'[q] = req[q]
  BY DEF Others
<1>2. \A q \in Requests :
        Renewing(q)' => /\ Renewing(q)
                        /\ req'[q].sid = req[q].sid /\ req'[q].login = req[q].login
  BY <1>1 DEF Renewing
<1>3. Lineage' /\ OneSessionPerLogin' /\ LogoutIsFinal'
  BY <1>2 DEF Lineage, OneSessionPerLogin, LogoutIsFinal
<1>4. ASSUME NEW q \in Requests PROVE Held(q)' /\ OnPath(q)'
  <2>1. req'[q].pc = "create" /\ Renewing(q)' /\ req[q].login \notin contested
            => req[q].sid \notin Ids'
    BY <1>1, <1>2 DEF Held, Renewing
  <2>2. Held(q)'
    BY <1>2, <2>1 DEF Held
  <2>3. OnPath(q)'
    BY <1>1 DEF OnPath
  <2> QED BY <2>2, <2>3
<1> QED
  BY <1>3, <1>4

\* A refresh takes over the login of the row it found; the login is contested
\* when another refresh holds it.
LEMMA RereadKeepsLines ==
    ASSUME TypeOK, LineInv, NEW r \in Requests, Reread(r)
    PROVE  LineInv'
<1>1. UNCHANGED <<session, nextId, loggedOut>> /\ Ids' = Ids /\ FewerRows
  BY DEF Reread, Ids, FewerRows
<1>2. CASE End(r) /\ UNCHANGED contested
  <2>1. req'[r].op = "none" /\ req'[r].pc = "idle" /\ Others(r)
    BY <1>2 DEF End, Idle, TypeOK, Others
  <2> QED BY <1>1, <1>2, <2>1, OneMoves DEF Renewing, OnPath, history
<1>3. ASSUME NEW i \in Ids,
             req' = [req EXCEPT ![r] = [@ EXCEPT !.pc = "cleanup", !.mint = now,
                            !.token = 0, !.sid = i, !.login = session[i].login]],
             contested' = contested \union ({session[i].login} \intersect Renewed)
      PROVE  LineInv'
  <2> DEFINE L == session[i].login
  <2>1. /\ req'[r].pc = "cleanup" /\ req'[r].sid = i /\ req'[r].op = "refresh"
        /\ req'[r].login = L /\ Renewing(r)'
        /\ \A q \in Requests : q # r => req'[q] = req[q]
    BY <1>3 DEF TypeOK, Request, LineInv, OnPath, Reread, Renewing
  <2>2. Lineage' /\ OneSessionPerLogin' /\ LogoutIsFinal'
    <3>1. Lineage'
      BY <1>1, <2>1 DEF LineInv, Lineage, Renewing
    <3>2. contested \subseteq contested'
      BY <1>3
    <3>3. OneSessionPerLogin' /\ LogoutIsFinal'
      BY <1>1, <3>2 DEF LineInv, OneSessionPerLogin, LogoutIsFinal
    <3> QED BY <3>1, <3>3
  <2>3. L \notin contested' => L \notin contested /\ \A q \in Requests : Renewing(q) => req[q].login # L
    BY <1>3 DEF Renewed
  <2>4. ASSUME NEW q \in Requests PROVE Held(q)' /\ OnPath(q)'
    <3>1. CASE q = r
      <4>1. L \notin contested' =>
              /\ L \notin loggedOut
              /\ \A j \in Ids : session[j].login = L => j = i
              /\ \A p \in Requests : Renewing(p)' /\ req'[p].login = L => p = r
        BY <2>1, <2>3 DEF LineInv, OneSessionPerLogin, LogoutIsFinal, Renewing
      <4>2. Held(r)'
        BY <1>1, <2>1, <4>1 DEF Held
      <4> QED BY <2>1, <3>1, <4>2 DEF OnPath
    <3>2. CASE q # r
      <4>1. Renewing(q)' /\ req'[q].login \notin contested' =>
              /\ Renewing(q) /\ req[q].login \notin contested /\ req[q].login # L
        BY <1>3, <2>1, <3>2 DEF Renewing, Renewed
      <4>2. Held(q)'
        BY <1>1, <2>1, <3>2, <4>1 DEF LineInv, Held, Renewing
      <4> QED BY <2>1, <3>2, <4>2 DEF LineInv, OnPath
    <3> QED BY <3>1, <3>2
  <2> QED BY <2>2, <2>4 DEF LineInv
<1> QED
  BY <1>2, <1>3 DEF Reread

\* A login opens a line of its own; a refresh continues one that has no row.
LEMMA CreateKeepsLines ==
    ASSUME TypeOK, RefreshTargetsOwnUser, LineInv, NEW r \in Requests, CreateSession(r)
    PROVE  LineInv'
<1>1. /\ req'[r].op = "none" /\ req'[r].pc = "idle" /\ Others(r)
      /\ UNCHANGED history /\ loggedOut' = loggedOut /\ contested' = contested
  BY DEF CreateSession, End, Idle, TypeOK, Others, history
<1>2. OnPath(r)' /\ ~Renewing(r)'
  BY <1>1 DEF Renewing, OnPath
<1>3. CASE UNCHANGED <<session, nextId>>
  BY <1>1, <1>2, <1>3, OneMoves DEF FewerRows, Ids
<1>4. ASSUME NEW row,
             row.login = IF req[r].op = "login" THEN nextId ELSE req[r].login,
             session' = [i \in Ids \union {nextId} |-> IF i # nextId THEN session[i] ELSE row],
             nextId' = nextId + 1
      PROVE  LineInv'
  <2>1. nextId \in Nat \ {0} /\ nextId \notin Ids
    BY DEF TypeOK
  <2>2. /\ Ids' = Ids \union {nextId} /\ session'[nextId] = row
        /\ \A i \in Ids : session'[i] = session[i]
    BY <1>4, <2>1 DEF Ids
  <2>3. ASSUME row.login \notin contested
        PROVE  /\ row.login \notin loggedOut
               /\ \A i \in Ids : session[i].login # row.login
               /\ \A q \in Requests : q # r /\ Renewing(q) => req[q].login # row.login
    <3>1. CASE req[r].op = "login"
      BY <1>4, <2>1, <3>1 DEF LineInv, Lineage
    <3>2. CASE req[r].op # "login"
      <4>1. Renewing(r) /\ req[r].pc = "create" /\ row.login = req[r].login
        BY <1>4, <3>2 DEF LineInv, OnPath, CreateSession, Renewing
      <4> QED BY <2>3, <4>1 DEF LineInv, Held
    <3> QED BY <3>1, <3>2
  <2>4. row.login \in 1 .. nextId
    <3>1. CASE req[r].op = "login"
      BY <1>4, <2>1, <3>1
    <3>2. CASE req[r].op # "login"
      <4>1. Renewing(r) /\ row.login = req[r].login
        BY <1>4, <3>2 DEF LineInv, OnPath, CreateSession, Renewing
      <4> QED BY <2>1, <4>1 DEF LineInv, Lineage
    <3> QED BY <3>1, <3>2
  <2>5. \A q \in Requests : Renewing(q)' => q # r /\ Renewing(q) /\ req'[q] = req[q]
    BY <1>1, <1>2 DEF Others, Renewing
  <2>6. Lineage'
    BY <1>1, <1>4, <2>1, <2>2, <2>4, <2>5 DEF LineInv, Lineage
  <2>7. OneSessionPerLogin' /\ LogoutIsFinal'
    BY <1>1, <2>2, <2>3 DEF LineInv, OneSessionPerLogin, LogoutIsFinal
  <2>8. ASSUME NEW q \in Requests PROVE Held(q)' /\ OnPath(q)'
    <3>1. req[q].sid # nextId
      BY <2>1 DEF RefreshTargetsOwnUser
    <3>2. Held(q)'
      BY <1>1, <2>2, <2>3, <2>5, <3>1 DEF LineInv, Held
    <3>3. OnPath(q)'
      BY <1>1, <1>2 DEF LineInv, Others, OnPath
    <3> QED BY <3>2, <3>3
  <2> QED BY <2>6, <2>7, <2>8 DEF LineInv
<1>5. CASE session' = [i \in Ids \union {nextId} |->
                IF i # nextId THEN session[i]
                ELSE [user |-> req[r].user, expireAt |-> AccessExpires(req[r].mint),
                      refreshTokenExpiresAt |-> RefreshExpires(req[r].mint),
                      createdAt |-> now, updatedAt |-> now,
                      login |-> IF req[r].op = "login" THEN nextId ELSE req[r].login]]
           /\ nextId' = nextId + 1
  BY <1>4, <1>5
<1> QED
  BY <1>3, <1>5 DEF CreateSession

\* A logout ends the logins of the rows it deletes; they have no others, unless
\* a refresh holds them.
LEMMA LogoutKeepsLines ==
    ASSUME TypeOK, LineInv, NEW r \in Requests, DeleteSession(r)
    PROVE  LineInv'
<1> DEFINE Ended == {session[i].login : i \in Presented(r)}
<1>1. req'[r].op = "none" /\ req'[r].pc = "idle" /\ Others(r) /\ nextId' = nextId
  BY DEF DeleteSession, End, Idle, TypeOK, Others
<1>2. /\ Ids' = Ids \ Presented(r) /\ \A i \in Ids' : session'[i] = session[i]
      /\ Presented(r) \subseteq Ids
  BY DEF DeleteSession, Without, Ids, Presented
<1>3. /\ loggedOut' = loggedOut \union Ended
      /\ contested' = contested \union (Ended \intersect Renewed)
  BY DEF DeleteSession, Logout
<1>4. Ended \subseteq 1 .. (nextId - 1)
  BY <1>2 DEF LineInv, Lineage
<1>5. \A q \in Requests : Renewing(q)' => q # r /\ Renewing(q) /\ req'[q] = req[q]
  BY <1>1 DEF Others, Renewing
<1>6. Lineage'
  BY <1>1, <1>2, <1>3, <1>4, <1>5 DEF LineInv, Lineage
<1>7. OneSessionPerLogin'
  BY <1>2, <1>3 DEF LineInv, OneSessionPerLogin
<1>8. LogoutIsFinal'
  <2> SUFFICES ASSUME NEW i \in Ids', session[i].login \in loggedOut',
                      session[i].login \notin contested'
               PROVE  FALSE
    BY <1>2 DEF LogoutIsFinal
  <2>1. i \in Ids /\ i \notin Presented(r) /\ session[i].login \notin contested
    BY <1>2, <1>3
  <2>2. session[i].login \in Ended
    BY <1>3, <2>1 DEF LineInv, LogoutIsFinal
  <2> QED BY <1>2, <2>1, <2>2 DEF LineInv, OneSessionPerLogin
<1>9. ASSUME NEW q \in Requests PROVE Held(q)' /\ OnPath(q)'
  <2>1. Renewing(q)' /\ req'[q].login \notin contested' =>
          /\ Renewing(q) /\ req'[q] = req[q] /\ req[q].login \notin contested
          /\ req[q].login \notin Ended
    BY <1>3, <1>5 DEF Renewed
  <2>2. Held(q)'
    BY <1>2, <1>3, <1>5, <2>1 DEF LineInv, Held
  <2>3. OnPath(q)'
    BY <1>1 DEF LineInv, Others, OnPath
  <2> QED BY <2>2, <2>3
<1> QED
  BY <1>6, <1>7, <1>8, <1>9 DEF LineInv

\* Every step of a request, and of what happens around it.
LEMMA LineStep ==
    ASSUME TypeOK, RefreshTargetsOwnUser, LineInv, [Next]_vars
    PROVE  LineInv'
<1> USE DEF TypeOK
<1>1. ASSUME NEW r \in Requests, NEW step, Goto(r, step)
      PROVE  /\ req'[r].pc = step /\ req'[r].op = req[r].op
             /\ req'[r].sid = req[r].sid /\ req'[r].login = req[r].login /\ Others(r)
  BY <1>1 DEF Goto, Request, Others
<1>2. ASSUME NEW r \in Requests, End(r)
      PROVE  req'[r].pc = "idle" /\ req'[r].op = "none" /\ Others(r)
  BY <1>2 DEF End, Idle, Others
<1>3. ASSUME NEW r \in Requests, Others(r), UNCHANGED <<session, nextId, history>>,
             \/ req'[r].pc = "cleanup" /\ req'[r].op \in {"login", "list"}
             \/ req'[r].pc = "logoutFind" /\ req'[r].op = "logout"
             \/ req'[r].pc = "reread" /\ req'[r].op = "refresh"
      PROVE  LineInv'
  <2>1. OnPath(r)' /\ ~Renewing(r)' /\ FewerRows
    BY <1>3 DEF OnPath, Renewing, FewerRows, Ids
  <2> QED BY <1>3, <2>1, OneMoves
<1>4. ASSUME NEW r \in Requests, NEW u \in Users, BeginLogin(r, u) PROVE LineInv'
  <2>1. req'[r].pc = "cleanup" /\ req'[r].op = "login" /\ Others(r)
    BY <1>4 DEF BeginLogin, Idle, Others
  <2> QED BY <1>3, <1>4, <2>1 DEF BeginLogin
<1>5. ASSUME NEW r \in Requests, NEW i \in Ids, BeginRefresh(r, i) PROVE LineInv'
  <2>1. req'[r].pc = "reread" /\ req'[r].op = "refresh" /\ Others(r)
    BY <1>5 DEF BeginRefresh, Idle, Others
  <2> QED BY <1>3, <1>5, <2>1 DEF BeginRefresh
<1>6. ASSUME NEW r \in Requests, NEW i \in Ids, BeginLogout(r, i) PROVE LineInv'
  <2>1. req'[r].pc = "logoutFind" /\ req'[r].op = "logout" /\ Others(r)
    BY <1>6 DEF BeginLogout, BeginAuthenticated, Idle, Others
  <2> QED BY <1>3, <1>6, <2>1 DEF BeginLogout, BeginAuthenticated
<1>7. ASSUME NEW r \in Requests, NEW i \in Ids, BeginList(r, i) PROVE LineInv'
  <2>1. req'[r].pc = "cleanup" /\ req'[r].op = "list" /\ Others(r)
    BY <1>7 DEF BeginList, BeginAuthenticated, Idle, Others
  <2> QED BY <1>3, <1>7, <2>1 DEF BeginList, BeginAuthenticated
<1>8. ASSUME NEW r \in Requests,
             NEW step \in {"listFind", "find", "create", "lookup", "update", "delete"},
             Goto(r, step), UNCHANGED <<nextId, history>>, FewerRows,
             req[r].pc # "reread",
             step \in {"find", "create"} => req[r].op \in {"login", "refresh"},
             step = "lookup" => req[r].op = "refresh",
             step = "delete" => req[r].op = "logout",
             step = "create" => req[r].op = "login" \/ req[r].sid \notin Ids'
      PROVE  LineInv'
  <2>1. OnPath(r)'
    BY <1>1, <1>8 DEF OnPath
  <2>2. Renewing(r)' => /\ Renewing(r)
                        /\ req'[r].sid = req[r].sid /\ req'[r].login = req[r].login
                        /\ req'[r].pc = "create" => req[r].sid \notin Ids'
    BY <1>1, <1>8 DEF Renewing
  <2> QED BY <1>1, <1>8, <2>1, <2>2, OneMoves
<1>9. ASSUME NEW D, session' = Without(D) PROVE FewerRows
  BY <1>9 DEF Without, Ids, FewerRows
<1>10. ASSUME NEW r \in Requests, CleanupExpiredSessions(r) PROVE LineInv'
  <2>1. req[r].op \in {"login", "refresh", "list"}
    BY <1>10 DEF CleanupExpiredSessions, LineInv, OnPath
  <2> QED BY <1>8, <1>9, <1>10, <2>1 DEF CleanupExpiredSessions
<1>11. ASSUME NEW r \in Requests, req[r].pc \in {"find", "evict"}
       PROVE  /\ AfterManage(r) \in {"create", "lookup"}
              /\ AfterManage(r) = "create" => req[r].op = "login"
              /\ AfterManage(r) = "lookup" => req[r].op = "refresh"
              /\ req[r].op \in {"login", "refresh"}
  BY <1>11 DEF AfterManage, LineInv, OnPath
<1>12. ASSUME NEW r \in Requests, NEW step \in {"evict", "create", "lookup"}, NEW V,
              req' = [req EXCEPT ![r] = [@ EXCEPT !.pc = step, !.victims = V]],
              req[r].pc \in {"find", "evict"},
              step = "evict" \/ step = AfterManage(r),
              UNCHANGED <<nextId, history>>, FewerRows
       PROVE  LineInv'
  <2>1. /\ req'[r].pc = step /\ req'[r].op = req[r].op
        /\ req'[r].sid = req[r].sid /\ req'[r].login = req[r].login /\ Others(r)
    BY <1>12 DEF Request, Others
  <2>2. OnPath(r)'
    BY <1>11, <1>12, <2>1 DEF OnPath
  <2>3. Renewing(r)' => /\ Renewing(r)
                        /\ req'[r].sid = req[r].sid /\ req'[r].login = req[r].login
                        /\ req'[r].pc = "create" => req[r].sid \notin Ids'
    BY <1>11, <1>12, <2>1 DEF Renewing
  <2> QED BY <1>12, <2>1, <2>2, <2>3, OneMoves
<1>13. ASSUME NEW r \in Requests, GetActiveSessions(r) PROVE LineInv'
  <2>1. FewerRows
    BY <1>13 DEF GetActiveSessions, Ids, FewerRows
  <2>2. CASE Goto(r, AfterManage(r))
    BY <1>8, <1>11, <1>13, <2>1, <2>2 DEF GetActiveSessions
  <2>3. ASSUME NEW V, req' = [req EXCEPT ![r] = [@ EXCEPT !.pc = "evict", !.victims = V]]
        PROVE  LineInv'
    BY <1>12, <1>13, <2>1, <2>3 DEF GetActiveSessions
  <2> QED BY <1>13, <2>2, <2>3 DEF GetActiveSessions
<1>14. ASSUME NEW r \in Requests, Evict(r) PROVE LineInv'
  BY <1>9, <1>11, <1>12, <1>14 DEF Evict
<1>15. ASSUME NEW r \in Requests, GetSessionById(r) PROVE LineInv'
  <2>1. req[r].op = "refresh" /\ FewerRows
    BY <1>15 DEF GetSessionById, LineInv, OnPath, FewerRows, Ids
  <2> QED BY <1>8, <1>15, <2>1 DEF GetSessionById, Ids
<1>16. ASSUME NEW r \in Requests, End(r), UNCHANGED <<nextId, history>>, FewerRows
       PROVE  LineInv'
  <2>1. OnPath(r)' /\ ~Renewing(r)'
    BY <1>2, <1>16 DEF OnPath, Renewing
  <2> QED BY <1>2, <1>16, <2>1, OneMoves
<1>17. ASSUME NEW r \in Requests, UpdateSession(r) PROVE LineInv'
  <2>1. FewerRows
    BY <1>17 DEF UpdateSession, Ids, Row, FewerRows
  <2> QED BY <1>16, <1>17, <2>1 DEF UpdateSession
<1>18. ASSUME NEW r \in Requests, FindSessionByToken(r) PROVE LineInv'
  <2>1. FewerRows
    BY <1>18 DEF FindSessionByToken, Ids, FewerRows
  <2>2. CASE Goto(r, "delete")
    <3>1. req[r].op = "logout"
      BY <1>18 DEF FindSessionByToken, LineInv, OnPath
    <3> QED BY <1>8, <1>18, <2>1, <2>2, <3>1 DEF FindSessionByToken
  <2>3. CASE End(r)
    BY <1>16, <1>18, <2>1, <2>3 DEF FindSessionByToken
  <2> QED BY <1>18, <2>2, <2>3 DEF FindSessionByToken
<1>19. ASSUME NEW r \in Requests, ListSessions(r) \/ Fail(r) PROVE LineInv'
  BY <1>16, <1>19 DEF ListSessions, Fail, Ids, FewerRows
<1>20. ASSUME NEW u \in Users, DeleteAllUserSessions(u) PROVE LineInv'
  BY <1>9, <1>20, NobodyMoves DEF DeleteAllUserSessions
<1>21. CASE Tick \/ UNCHANGED vars
  BY <1>21, NobodyMoves DEF Tick, vars, Ids, FewerRows
<1> QED
  BY <1>4, <1>5, <1>6, <1>7, <1>10, <1>13, <1>14, <1>15, <1>17, <1>18, <1>19, <1>20, <1>21,
     RereadKeepsLines, CreateKeepsLines, LogoutKeepsLines DEF Next

\* What refreshes know of the logins they hold, at all times.
LEMMA LineInvHolds == Spec => []LineInv
<1>1. Init => LineInv
  BY DEF Init, LineInv, Lineage, OneSessionPerLogin, LogoutIsFinal, Held, Renewing, OnPath,
         Idle, Ids
<1>2. TypeOK /\ RefreshTargetsOwnUser /\ LineInv /\ [Next]_vars => LineInv'
  BY LineStep
<1> QED
  BY <1>1, <1>2, TypeCorrect, RefreshStaysWithUser, PTL DEF Spec

\* One login, one session: whatever evictions, cleanups and revocations a refresh
\* meets on its way, a login has one row at most, unless requests contested it.
THEOREM OneSessionHolds == Spec => []OneSessionPerLogin
<1>1. LineInv => OneSessionPerLogin
  BY DEF LineInv
<1> QED
  BY <1>1, LineInvHolds, PTL

\* Logout is final: a login that it ended never has a session again, unless
\* requests contested it.
THEOREM LogoutHolds == Spec => []LogoutIsFinal
<1>1. LineInv => LogoutIsFinal
  BY DEF LineInv
<1> QED
  BY <1>1, LineInvHolds, PTL

Uncontested == contested = {}

\* Neither exception concerns requests that do not overlap: with one request in
\* flight at a time, whatever logins, refreshes, logouts and password resets
\* follow one another, no login is ever contested.
THEOREM SequentialUncontested ==
    ASSUME Cardinality(Requests) = 1
    PROVE  Spec => []Uncontested
<1>1. PICK r \in Requests : \A q \in Requests : q = r
  BY RequestsAssumption, FS_Singleton
<1>2. Init => Uncontested
  BY DEF Init, Uncontested
<1>3. LineInv /\ Uncontested /\ [Next]_vars => Uncontested'
  <2> SUFFICES ASSUME LineInv, contested = {}, [Next]_vars PROVE contested' = {}
    BY DEF Uncontested
  <2>1. ASSUME NEW q \in Requests, Reread(q) \/ DeleteSession(q) PROVE contested' = {}
    <3>1. ~Renewing(r)
      BY <1>1, <2>1 DEF LineInv, OnPath, Reread, DeleteSession, Renewing
    <3>2. Renewed = {}
      BY <1>1, <3>1 DEF Renewed
    <3> QED BY <2>1, <3>2 DEF Reread, DeleteSession, Logout
  <2> QED
    BY <2>1
       DEF Next, vars, history, BeginLogin, BeginRefresh, BeginLogout, BeginList,
           BeginAuthenticated, CleanupExpiredSessions, GetActiveSessions, Evict,
           GetSessionById, CreateSession, UpdateSession, FindSessionByToken, ListSessions,
           Fail, DeleteAllUserSessions, Tick
<1> QED
  BY <1>2, <1>3, LineInvHolds, PTL DEF Spec
=============================================================================
