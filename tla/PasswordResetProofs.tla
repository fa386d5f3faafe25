------------------------- MODULE PasswordResetProofs -------------------------
(***************************************************************************)
(* Theorems about PasswordReset, for every finite set of concurrent        *)
(* requests and every lifetime and bound.                                  *)
(***************************************************************************)
EXTENDS PasswordReset, FiniteSetTheorems, TLAPS

\* The rows are numbered from 1 without gaps, and there are finitely many.
Numbered == \E n \in Nat : Rows = 1 .. n

\* TypeOK without the count of the rows, which Numbered gives.
Types ==
    /\ now \in Nat /\ password \in Nat /\ passwords \in Nat
    /\ \A i \in Rows : reset[i] \in Row
    /\ sessions \subseteq Nat /\ mailed \subseteq Nat
    /\ req \in [Requests -> Request]
    /\ \A h \in {signed, signedTwice, raced, spent, excused} : h \subseteq Nat
    /\ Numbered

-----------------------------------------------------------------------------
(***************************************************************************)
(* Type correctness.                                                       *)
(***************************************************************************)
\* Counting the rows gives the id of the last one.
LEMMA RowCount ==
    ASSUME NEW n \in Nat, Rows = 1 .. n
    PROVE  Cardinality(Rows) = n
BY FS_Interval

\* A request slot can always be cleared.
LEMMA IdleType == Idle \in Request
BY DEF Idle, Request

\* A request that updates a row updates one that exists.
UpdatesExist ==
    \A r \in Requests : req[r].pc \in {"sign", "store"} => req[r].row \in Rows \union {0}

\* Every step keeps the types.
LEMMA TypesStep == Types /\ UpdatesExist /\ [Next]_vars => Types' /\ UpdatesExist'
<1> SUFFICES ASSUME Types, UpdatesExist, [Next]_vars PROVE Types' /\ UpdatesExist'
  OBVIOUS
<1> USE LifeAssumption, IdleType
<1>0. PICK n \in Nat : Rows = 1 .. n
  BY DEF Types, Numbered
<1>a. \A r \in Requests : req[r].token \in Nat /\ req[r].pw \in Nat
  BY DEF Types, Request
<1>b. /\ sessions \subseteq Nat /\ mailed \subseteq Nat /\ signed \subseteq Nat
      /\ signedTwice \subseteq Nat /\ raced \subseteq Nat /\ spent \subseteq Nat
      /\ excused \subseteq Nat
  BY DEF Types
<1>1. ASSUME NEW r \in Requests, FindExisting(r) PROVE Types' /\ UpdatesExist'
  <2>1. PICK i \in Rows \union {0} :
          req' = [req EXCEPT ![r] = [Idle EXCEPT !.pc = "sign", !.row = i]]
    BY <1>1 DEF FindExisting
  <2>2. i \in Nat
    BY <1>0
  <2>3. req' \in [Requests -> Request]
    BY <2>1, <2>2 DEF Types, Idle, Request
  <2>4. UpdatesExist'
    BY <1>1, <2>1 DEF FindExisting, UpdatesExist, Types, table, Rows, Idle
  <2> QED BY <1>1, <2>3, <2>4 DEF FindExisting, Types, table, history, Rows, Numbered
<1>2. ASSUME NEW r \in Requests, Sign(r) PROVE Types' /\ UpdatesExist'
  <2>1. now + ResetLife \in Nat
    BY DEF Types
  <2>2. req' = [req EXCEPT ![r] = [@ EXCEPT !.pc = "store", !.token = now + ResetLife]]
    BY <1>2 DEF Sign
  <2>3. req' \in [Requests -> Request]
    BY <2>1, <2>2 DEF Types, Request
  <2>4. \A q \in Requests : req'[q].row = req[q].row
                            /\ (req'[q].pc = req[q].pc \/ (q = r /\ req[r].pc = "sign"))
    BY <1>2, <2>2 DEF Sign, Types, Request
  <2>5. Rows' = Rows /\ UpdatesExist'
    BY <1>2, <2>4 DEF Sign, UpdatesExist, table, Rows
  <2>6. signed' \subseteq Nat /\ signedTwice' \subseteq Nat
    BY <1>2, <2>1 DEF Sign, Types
  <2> QED BY <1>2, <2>3, <2>5, <2>6 DEF Sign, Types, table, Rows, Numbered
<1>3. ASSUME NEW r \in Requests, Store(r) PROVE Types' /\ UpdatesExist'
  <2> DEFINE t == req[r].token
             row == IF req[r].row = 0 THEN Cardinality(Rows) + 1 ELSE req[r].row
  <2>1. req' \in [Requests -> Request] /\ Rows \subseteq Rows' =>
           UpdatesExist'
    <3> SUFFICES ASSUME Rows \subseteq Rows' PROVE UpdatesExist'
      OBVIOUS
    <3>1. \A q \in Requests : \/ req'[q] = req[q]
                              \/ req'[q].pc \in {"mail", "idle"}
      BY <1>3 DEF Store, End, Idle, Types, Request
    <3> QED BY <3>1 DEF UpdatesExist
  <2>2. CASE Taken(t, row) /\ End(r) /\ UNCHANGED <<reset, raced>>
    BY <1>3, <2>1, <2>2 DEF Store, Types, End, Rows, Numbered
  <2>3. CASE /\ reset' = [i \in Rows \union {row} |->
                            IF i = row THEN [expiresAt |-> t, isUsed |-> FALSE]
                            ELSE reset[i]]
             /\ raced' = IF Rivals(row, r) = {} THEN raced ELSE raced \union {t}
             /\ req' = [req EXCEPT ![r].pc = "mail"]
    <3>1. Rows' = Rows \union {row}
      BY <2>3 DEF Rows
    <3>2. row \in 1 .. (n + 1) /\ Numbered'
      <4>1. CASE req[r].row = 0
        <5>1. row = n + 1
          BY <1>0, <4>1, RowCount
        <5>2. Rows' = 1 .. (n + 1)
          BY <1>0, <3>1, <5>1
        <5> QED BY <5>1, <5>2 DEF Numbered
      <4>2. CASE req[r].row # 0
        <5>1. row \in Rows
          BY <1>3, <4>2 DEF UpdatesExist, Store
        <5> QED BY <1>0, <3>1, <5>1 DEF Numbered
      <4> QED BY <4>1, <4>2
    <3>3. t \in Nat
      BY DEF Types, Request
    <3>4. \A i \in Rows' : reset'[i] \in Row
      BY <2>3, <3>1, <3>3 DEF Types, Row
    <3>5. req' \in [Requests -> Request] /\ raced' \subseteq Nat
      BY <1>b, <2>3, <3>3 DEF Types, Request
    <3> QED BY <1>3, <2>1, <3>1, <3>2, <3>4, <3>5 DEF Store, Types
  <2> QED BY <1>3, <2>2, <2>3 DEF Store
<1>4. ASSUME NEW r \in Requests, End(r), Types, UpdatesExist, Rows' = Rows
      PROVE  req' \in [Requests -> Request] /\ UpdatesExist'
  BY <1>4 DEF End, UpdatesExist, Types, Idle
<1>5. ASSUME NEW r \in Requests, NEW pc \in {"mail", "mark", "revoke", "open"},
             req' = [req EXCEPT ![r].pc = pc], Rows' = Rows
      PROVE  req' \in [Requests -> Request] /\ UpdatesExist'
  <2>1. req' \in [Requests -> Request]
    BY <1>5 DEF Types, Request
  <2>2. \A q \in Requests : req'[q] = req[q] \/ req'[q].pc = pc
    BY <1>5 DEF Types, Request
  <2> QED BY <1>5, <2>1, <2>2 DEF UpdatesExist
<1>6. ASSUME NEW r \in Requests, Mail(r) PROVE Types' /\ UpdatesExist'
  <2>1. Rows' = Rows /\ mailed' \subseteq Nat
    BY <1>6 DEF Mail, Rows, Types, Request
  <2> QED BY <1>4, <1>6, <2>1 DEF Mail, Types, history, Numbered
<1>7. ASSUME NEW r \in Requests, NEW t \in mailed, FindUsable(r, t) PROVE Types' /\ UpdatesExist'
  <2>1. req' \in [Requests -> Request]
    BY <1>7 DEF FindUsable, Types, Idle, Request
  <2>2. UpdatesExist' /\ Rows' = Rows
    BY <1>7 DEF FindUsable, UpdatesExist, Types, Idle, table, Rows
  <2> QED BY <1>7, <2>1, <2>2 DEF FindUsable, Types, table, history, Numbered
<1>8. ASSUME NEW r \in Requests, ChangePassword(r) PROVE Types' /\ UpdatesExist'
  <2>1. Rows' = Rows
    BY <1>8 DEF ChangePassword, Rows
  <2>2. passwords' \in Nat /\ password' \in Nat
    BY <1>8 DEF ChangePassword, NewPassword, Types
  <2>3. req' \in [Requests -> Request] /\ UpdatesExist'
    BY <1>5, <1>8, <2>1 DEF ChangePassword
  <2> QED BY <1>8, <2>1, <2>2, <2>3 DEF ChangePassword, Types, history, Numbered
<1>9. OldInFlight \subseteq Nat /\ OldSessions \subseteq Nat
  BY <1>a, <1>b DEF OldInFlight, Opening, OldSessions
<1>10. ASSUME NEW r \in Requests, MarkUsed(r) PROVE Types' /\ UpdatesExist'
  <2>1. Rows' = Rows
    BY <1>10 DEF MarkUsed, Rows
  <2>2. \A i \in Rows' : reset'[i] \in Row
    <3>1. \A i \in Rows : reset[i] \in Row /\ Marked(reset[i]) \in Row
      BY DEF Types, Row, Marked
    <3> QED BY <1>10, <2>1, <3>1 DEF MarkUsed, Rows
  <2>3. req' \in [Requests -> Request] /\ UpdatesExist'
    BY <1>4, <1>5, <1>10, <2>1 DEF MarkUsed
  <2>4. spent' \subseteq Nat /\ excused' \subseteq Nat
    BY <1>9, <1>10, <1>a, <1>b DEF MarkUsed
  <2> QED BY <1>10, <2>1, <2>2, <2>3, <2>4 DEF MarkUsed, Types, Numbered
<1>11. ASSUME NEW r \in Requests, DeleteAllUserSessions(r) PROVE Types' /\ UpdatesExist'
  <2>1. Rows' = Rows /\ excused' \subseteq Nat
    BY <1>9, <1>11 DEF DeleteAllUserSessions, Rows, Types
  <2> QED BY <1>4, <1>11, <2>1 DEF DeleteAllUserSessions, Types, Numbered
<1>12. ASSUME NEW r \in Requests, CheckPassword(r) PROVE Types' /\ UpdatesExist'
  <2>1. req' \in [Requests -> Request]
    BY <1>12 DEF CheckPassword, Types, Idle, Request
  <2>2. UpdatesExist' /\ Rows' = Rows
    BY <1>12 DEF CheckPassword, UpdatesExist, Types, Idle, table, Rows
  <2> QED BY <1>12, <2>1, <2>2 DEF CheckPassword, Types, table, history, Numbered
<1>13. ASSUME NEW r \in Requests, OpenSession(r) PROVE Types' /\ UpdatesExist'
  <2>1. Rows' = Rows /\ sessions' \subseteq Nat
    BY <1>13, <1>a, <1>b DEF OpenSession, Rows
  <2> QED BY <1>4, <1>13, <2>1 DEF OpenSession, Types, history, Numbered
<1>14. ASSUME NEW r \in Requests, Fail(r) PROVE Types' /\ UpdatesExist'
  <2>1. Rows' = Rows /\ excused' \subseteq Nat
    BY <1>9, <1>14 DEF Fail, Rows, Types, table
  <2> QED BY <1>4, <1>14, <2>1 DEF Fail, Types, table, Numbered
<1>15. ASSUME NEW r \in Requests, FindRefreshToken(r) PROVE Types' /\ UpdatesExist'
  <2>1. PICK pw \in sessions : req' = [req EXCEPT ![r] = [Idle EXCEPT !.pc = "renew", !.pw = pw]]
    BY <1>15 DEF FindRefreshToken
  <2>2. req' \in [Requests -> Request]
    BY <1>b, <2>1 DEF Types, Idle, Request
  <2>3. UpdatesExist' /\ Rows' = Rows
    BY <1>15, <2>1 DEF FindRefreshToken, UpdatesExist, Types, Idle, table, Rows
  <2> QED BY <1>15, <2>2, <2>3 DEF FindRefreshToken, Types, table, history, Numbered
<1>16. ASSUME NEW r \in Requests, GetSessionById(r) PROVE Types' /\ UpdatesExist'
  <2>1. Rows' = Rows
    BY <1>16 DEF GetSessionById, table, Rows
  <2>2. req' \in [Requests -> Request] /\ UpdatesExist'
    BY <1>4, <1>5, <1>16, <2>1 DEF GetSessionById
  <2> QED BY <1>16, <2>1, <2>2 DEF GetSessionById, Types, table, history, Numbered
<1>17. CASE Tick
  BY <1>17 DEF Tick, Types, UpdatesExist, table, history, Rows, Numbered
<1>18. CASE UNCHANGED vars
  BY <1>18 DEF vars, Types, UpdatesExist, table, history, Rows, Numbered
<1> QED
  BY <1>1, <1>2, <1>3, <1>6, <1>7, <1>8, <1>10, <1>11, <1>12, <1>13, <1>14, <1>15, <1>16,
     <1>17, <1>18
     DEF Next

\* The types, and the row that a request is about to update exists.
LEMMA TypesInvariant == Spec => [](Types /\ UpdatesExist)
<1>1. Init => Types /\ UpdatesExist
  <2> SUFFICES ASSUME Init PROVE Types /\ UpdatesExist
    OBVIOUS
  <2>1. Rows = 1 .. 0
    BY DEF Init, Rows
  <2> QED BY <2>1, IdleType DEF Init, Types, Numbered, UpdatesExist, Idle
<1> QED BY <1>1, TypesStep, PTL DEF Spec

\* What every variable ranges over, at all times.
THEOREM TypeCorrect == Spec => []TypeOK
<1>1. Types => TypeOK
  <2> SUFFICES ASSUME Types PROVE TypeOK
    OBVIOUS
  <2>1. PICK n \in Nat : Rows = 1 .. n
    BY DEF Types, Numbered
  <2>2. Cardinality(Rows) = n
    BY <2>1, RowCount
  <2> QED BY <2>1, <2>2 DEF Types, TypeOK
<1> QED BY <1>1, TypesInvariant, PTL

-----------------------------------------------------------------------------
(***************************************************************************)
(* At most one row per request slot.                                       *)
(***************************************************************************)
\* The sets that RowsBoundedByConcurrency counts are finite.
LEMMA Finite ==
    ASSUME Types, NEW C \in SUBSET Requests
    PROVE  /\ IsFiniteSet(Rows) /\ Cardinality(Rows) \in Nat
           /\ IsFiniteSet(C) /\ Cardinality(C) \in Nat /\ Cardinality(Requests) \in Nat
           /\ Cardinality(C) <= Cardinality(Requests)
<1>1. PICK n \in Nat : Rows = 1 .. n
  BY DEF Types, Numbered
<1>2. IsFiniteSet(1 .. n)
  BY FS_Interval
<1>3. IsFiniteSet(Rows) /\ Cardinality(Rows) \in Nat
  BY <1>1, <1>2, FS_CardinalityType
<1> QED
  BY <1>3, RequestsAssumption, FS_Subset, FS_CardinalityType

\* A step that inserts no row and starts no creation keeps the bound.
LEMMA NoNewRow ==
    ASSUME Types, RowsBoundedByConcurrency, Rows' = Rows, Creating' \subseteq Creating
    PROVE  RowsBoundedByConcurrency'
<1>1. Creating \in SUBSET Requests /\ Creating' \in SUBSET Requests
  BY DEF Creating
<1>2. IsFiniteSet(Creating) /\ Cardinality(Creating') <= Cardinality(Creating)
  BY <1>1, Finite, FS_Subset
<1>3. Cardinality(Rows') = Cardinality(Rows)
  BY Zenon
<1> QED
  BY <1>1, <1>2, <1>3, Finite DEF RowsBoundedByConcurrency

\* However many forgot-password requests overlap, a user has at most as many
\* reset rows, and so usable tokens, as requests ran at once.
THEOREM RowsBounded == Spec => []RowsBoundedByConcurrency
<1>1. Init => RowsBoundedByConcurrency
  <2> SUFFICES ASSUME Init PROVE RowsBoundedByConcurrency
    OBVIOUS
  <2>1. Rows = {} /\ Creating = {}
    BY DEF Init, Rows, Creating, Idle
  <2>2. Cardinality({}) + Cardinality({}) <= Cardinality(Requests)
    BY FS_EmptySet, FS_CardinalityType, RequestsAssumption
  <2> QED BY <2>1, <2>2, Zenon DEF RowsBoundedByConcurrency
<1>2. Types /\ UpdatesExist /\ RowsBoundedByConcurrency /\ [Next]_vars
        => RowsBoundedByConcurrency'
  <2> SUFFICES ASSUME Types, UpdatesExist, RowsBoundedByConcurrency, [Next]_vars
               PROVE  RowsBoundedByConcurrency'
    OBVIOUS
  <2>1. ASSUME NEW r \in Requests, FindExisting(r) PROVE RowsBoundedByConcurrency'
    <3>1. PICK i \in Rows \union {0} :
            /\ IF i = 0 THEN MayCreate ELSE MayUpdate(i)
            /\ req' = [req EXCEPT ![r] = [Idle EXCEPT !.pc = "sign", !.row = i]]
      BY <2>1 DEF FindExisting
    <3>2. Rows' = Rows
      BY <2>1 DEF FindExisting, table, Rows
    <3>3. CASE i = 0
      <4>1. Cardinality(Rows') = 0
        BY <3>1, <3>2, <3>3, FS_EmptySet DEF MayCreate
      <4>2. Creating' \in SUBSET Requests
        BY DEF Creating
      <4> QED BY <4>1, <4>2, Finite DEF RowsBoundedByConcurrency
    <3>4. CASE i # 0
      <4>1. Creating' \subseteq Creating
        BY <3>1, <3>4 DEF Creating, Idle, Types
      <4> QED BY <3>2, <4>1, NoNewRow
    <3> QED BY <3>3, <3>4
  <2>2. ASSUME NEW r \in Requests, Sign(r) PROVE RowsBoundedByConcurrency'
    <3>1. \A q \in Requests : /\ req'[q].row = req[q].row
                              /\ req'[q].pc = req[q].pc \/ (q = r /\ req[r].pc = "sign")
      BY <2>2 DEF Sign, Types, Request
    <3>2. Rows' = Rows /\ Creating' \subseteq Creating
      BY <2>2, <3>1 DEF Sign, table, Rows, Creating
    <3> QED BY <3>2, NoNewRow
  <2>3. ASSUME NEW r \in Requests, Store(r) PROVE RowsBoundedByConcurrency'
    <3>1. /\ \A q \in Requests \ {r} : req'[q] = req[q]
          /\ req'[r].pc \in {"mail", "idle"}
      BY <2>3 DEF Store, End, Idle, Types, Request
    <3>2. Creating' = Creating \ {r}
      BY <3>1 DEF Creating
    <3>3. CASE Rows' = Rows
      BY <3>2, <3>3, NoNewRow
    <3>4. CASE Rows' = Rows \union {Cardinality(Rows) + 1} /\ req[r].row = 0
      <4>1. r \in Creating /\ Creating \in SUBSET Requests
        BY <2>3, <3>4 DEF Store, Creating
      <4>2. Cardinality(Creating') = Cardinality(Creating) - 1
        <5>1. Cardinality(Creating \ {r}) = Cardinality(Creating) - 1
          BY <4>1, Finite, FS_RemoveElement
        <5> QED BY <3>2, <5>1, Zenon
      <4>3. Cardinality(Rows') <= Cardinality(Rows) + 1 /\ Cardinality(Rows') \in Nat
        <5> DEFINE x == Cardinality(Rows) + 1
        <5>0. Rows' = Rows \union {x}
          BY <3>4
        <5> HIDE DEF x
        <5>1. /\ IsFiniteSet(Rows \union {x})
              /\ Cardinality(Rows \union {x}) =
                    IF x \in Rows THEN Cardinality(Rows) ELSE Cardinality(Rows) + 1
          BY <4>1, Finite, FS_AddElement
        <5>2. /\ Cardinality(Rows \union {x}) \in Nat
              /\ Cardinality(Rows \union {x}) <= Cardinality(Rows) + 1
          BY <4>1, <5>1, Finite
        <5> QED BY <5>0, <5>2, Zenon
      <4> QED BY <4>1, <4>2, <4>3, Finite DEF RowsBoundedByConcurrency
    <3>5. CASE Rows' = Rows \union {req[r].row} /\ req[r].row # 0
      <4>1. req[r].row \in Rows
        BY <2>3, <3>5 DEF UpdatesExist, Store
      <4> QED BY <3>3, <3>5, <4>1
    <3> QED BY <2>3, <3>3, <3>4, <3>5 DEF Store, Rows
  <2>4. ASSUME NEW r \in Requests, NEW t,
               Mail(r) \/ FindUsable(r, t) \/ ChangePassword(r) \/ MarkUsed(r)
                 \/ DeleteAllUserSessions(r) \/ CheckPassword(r) \/ FindRefreshToken(r)
                 \/ GetSessionById(r) \/ OpenSession(r) \/ Fail(r)
        PROVE  RowsBoundedByConcurrency'
    <3>1. Rows' = Rows
      BY <2>4 DEF Mail, FindUsable, ChangePassword, MarkUsed, DeleteAllUserSessions,
                  CheckPassword, FindRefreshToken, GetSessionById, OpenSession, Fail,
                  table, Rows
    <3>2. /\ \A q \in Requests \ {r} : req'[q] = req[q]
          /\ req'[r].pc \in {"idle", "change", "mark", "revoke", "renew", "open"}
      <4>1. ASSUME End(r) PROVE (\A q \in Requests \ {r} : req'[q] = req[q]) /\ req'[r].pc = "idle"
        BY <4>1 DEF End, Idle, Types
      <4>2. CASE FindUsable(r, t) \/ CheckPassword(r)
        BY <4>2 DEF FindUsable, CheckPassword, Idle, Types
      <4>3. CASE ChangePassword(r)
        BY <4>3 DEF ChangePassword, Types, Request
      <4>4. CASE MarkUsed(r)
        <5>1. ASSUME req' = [req EXCEPT ![r].pc = "revoke"]
              PROVE  (\A q \in Requests \ {r} : req'[q] = req[q]) /\ req'[r].pc = "revoke"
          BY <5>1 DEF Types, Request
        <5> QED BY <4>1, <4>4, <5>1 DEF MarkUsed
      <4>5. CASE FindRefreshToken(r)
        <5>1. PICK pw \in sessions :
                req' = [req EXCEPT ![r] = [Idle EXCEPT !.pc = "renew", !.pw = pw]]
          BY <4>5 DEF FindRefreshToken
        <5> QED BY <5>1 DEF Idle, Types
      <4>6. CASE GetSessionById(r)
        <5>1. ASSUME req' = [req EXCEPT ![r].pc = "open"]
              PROVE  (\A q \in Requests \ {r} : req'[q] = req[q]) /\ req'[r].pc = "open"
          BY <5>1 DEF Types, Request
        <5> QED BY <4>1, <4>6, <5>1 DEF GetSessionById
      <4> QED
        BY <2>4, <4>1, <4>2, <4>3, <4>4, <4>5, <4>6
           DEF Mail, DeleteAllUserSessions, OpenSession, Fail
    <3>3. Creating' \subseteq Creating
      BY <3>2 DEF Creating
    <3> QED BY <3>1, <3>3, NoNewRow
  <2>5. CASE Tick \/ UNCHANGED vars
    <3>1. Rows' = Rows /\ Creating' \subseteq Creating
      BY <2>5 DEF Tick, vars, table, Rows, Creating
    <3> QED BY <3>1, NoNewRow
  <2> QED BY <2>1, <2>2, <2>3, <2>4, <2>5 DEF Next
<1> QED
  BY <1>1, <1>2, TypesInvariant, PTL DEF Spec

-----------------------------------------------------------------------------
(***************************************************************************)
(* A used token stays used.                                                *)
(***************************************************************************)
Storing == {r \in Requests : req[r].pc = "store"}

\* The inductive form of SpentTokensStaySpent.  A token signed once is held by
\* one request until that request stores it, and only afterwards is it in a
\* row or used; so nobody is left who could store it again.
SpentInv ==
    /\ \A r \in Storing : req[r].token \in signed
    /\ \A i \in Rows : reset[i].expiresAt \in signed
    /\ spent \subseteq signed
    /\ \A r, q \in Storing : req[r].token = req[q].token /\ r # q
                              => req[r].token \in signedTwice
    /\ \A r \in Storing : \/ req[r].token \in signedTwice
                          \/ /\ req[r].token \notin spent
                             /\ \A i \in Rows : reset[i].expiresAt # req[r].token
    /\ SpentTokensStaySpent

\* A step that touches neither the rows nor the histories keeps SpentInv unless
\* it makes a request ready to store.
LEMMA SpentQuiet ==
    ASSUME SpentInv, UNCHANGED <<reset, signed, signedTwice, spent>>,
           \A q \in Storing' : q \in Storing /\ req'[q].token = req[q].token
    PROVE  SpentInv'
BY DEF SpentInv, SpentTokensStaySpent, Usable, Rows

\* A token that overlapping requests did not sign twice is good for one
\* completed reset, whatever forgot-password requests do to the row later.
THEOREM UsedTokensStayUsed == Spec => []SpentTokensStaySpent
<1>1. Init => SpentInv
  BY DEF Init, SpentInv, Storing, Rows, SpentTokensStaySpent, Idle
<1>2. Types /\ UpdatesExist /\ SpentInv /\ [Next]_vars => SpentInv'
  <2> SUFFICES ASSUME Types, UpdatesExist, SpentInv, [Next]_vars PROVE SpentInv'
    OBVIOUS
  <2>1. ASSUME NEW r \in Requests, Sign(r) PROVE SpentInv'
    <3> DEFINE t == now + ResetLife
    <3>1. /\ \A q \in Requests \ {r} : req'[q] = req[q]
          /\ req'[r].pc = "store" /\ req'[r].token = t
      BY <2>1 DEF Sign, Types, Request
    <3>2. /\ Storing' = Storing \union {r} /\ r \notin Storing
          /\ \A q \in Storing : req'[q] = req[q]
      BY <2>1, <3>1 DEF Sign, Storing
    <3>3. /\ signed' = signed \union {t} /\ signedTwice' = signedTwice \union ({t} \intersect signed)
          /\ UNCHANGED <<reset, spent>>
      BY <2>1 DEF Sign, table
    <3> HIDE DEF t
    <3> QED
      BY <3>1, <3>2, <3>3 DEF SpentInv, SpentTokensStaySpent, Usable, Rows
  <2>2. ASSUME NEW r \in Requests, Store(r) PROVE SpentInv'
    <3> DEFINE t == req[r].token
               row == IF req[r].row = 0 THEN Cardinality(Rows) + 1 ELSE req[r].row
    <3>1. /\ \A q \in Requests \ {r} : req'[q] = req[q]
          /\ req'[r].pc \in {"mail", "idle"}
      BY <2>2 DEF Store, End, Idle, Types, Request
    <3>2. Storing' = Storing \ {r} /\ r \in Storing /\ \A q \in Storing' : req'[q] = req[q]
      BY <2>2, <3>1 DEF Store, Storing
    <3>3. UNCHANGED <<signed, signedTwice, spent>>
      BY <2>2 DEF Store
    <3>4. CASE UNCHANGED reset
      BY <3>2, <3>3, <3>4, SpentQuiet
    <3>5. CASE reset' = [i \in Rows \union {row} |->
                           IF i = row THEN [expiresAt |-> t, isUsed |-> FALSE] ELSE reset[i]]
      <4> HIDE DEF row
      <4>1. /\ Rows' = Rows \union {row}
            /\ reset'[row].expiresAt = t
            /\ \A i \in Rows \ {row} : reset'[i] = reset[i]
        BY <3>5 DEF Rows
      <4>2. t \in signed
        BY <3>2 DEF SpentInv
      <4>3. \A q \in Storing' : req[q].token = t => t \in signedTwice
        BY <3>2 DEF SpentInv
      <4>4. t \in spent => t \in signedTwice
        BY <3>2 DEF SpentInv
      <4>5. SpentTokensStaySpent'
        BY <3>3, <4>1, <4>4 DEF SpentInv, SpentTokensStaySpent, Usable
      <4> HIDE DEF t
      <4> QED
        BY <3>2, <3>3, <4>1, <4>2, <4>3, <4>5 DEF SpentInv
    <3> QED BY <2>2, <3>4, <3>5 DEF Store
  <2>3. ASSUME NEW r \in Requests, MarkUsed(r) PROVE SpentInv'
    <3> DEFINE Found == {i \in Rows : reset[i].expiresAt = req[r].token}
    <3>1. CASE UNCHANGED reset /\ spent' = spent /\ End(r)
      <4>1. \A q \in Storing' : q \in Storing /\ req'[q].token = req[q].token
        BY <3>1 DEF End, Idle, Storing, Types
      <4> QED BY <2>3, <3>1, <4>1, SpentQuiet DEF MarkUsed
    <3>2. CASE /\ Found # {}
               /\ reset' = [i \in Rows |-> IF i \in Found THEN Marked(reset[i]) ELSE reset[i]]
               /\ req' = [req EXCEPT ![r].pc = "revoke"]
               /\ spent' = spent \union {req[r].token}
      <4>1. Storing' = Storing /\ \A q \in Storing : req'[q].token = req[q].token
        BY <2>3, <3>2 DEF MarkUsed, Storing, Types, Request
      <4>2. /\ Rows' = Rows
            /\ \A i \in Rows : /\ reset'[i].expiresAt = reset[i].expiresAt
                               /\ i \notin Found => reset'[i] = reset[i]
                               /\ i \in Found => reset'[i].isUsed
        BY <3>2 DEF Rows, Types, Row, Marked
      <4>3. UNCHANGED <<signed, signedTwice>>
        BY <2>3 DEF MarkUsed
      <4>4. req[r].token \in signed
            /\ \A q \in Storing : req[q].token = req[r].token => req[q].token \in signedTwice
        BY <3>2 DEF SpentInv
      <4>a. \A i \in Rows : reset[i].expiresAt = req[r].token => reset'[i].isUsed
        BY <4>2
      <4>b. \A i \in Rows : ~reset'[i].isUsed => reset'[i] = reset[i]
        BY <4>2
      <4>c. \A i \in Rows : reset'[i].expiresAt = reset[i].expiresAt
        BY <4>2
      <4> HIDE DEF Found
      <4>5. SpentTokensStaySpent'
        <5>1. \A t : Usable(t)' => Usable(t) /\ t # req[r].token
          BY <4>2, <4>a, <4>b, <4>c DEF Usable
        <5> QED BY <3>2, <4>3, <5>1 DEF SpentInv, SpentTokensStaySpent
      <4>6. \A i \in Rows' : reset'[i].expiresAt = reset[i].expiresAt
        BY <4>2, <4>c
      <4>7. spent' \subseteq signed
        BY <3>2, <4>4 DEF SpentInv
      <4> QED
        BY <3>2, <4>1, <4>2, <4>3, <4>4, <4>5, <4>6, <4>7 DEF SpentInv
    <3> QED BY <2>3, <3>1, <3>2 DEF MarkUsed
  <2>4. ASSUME NEW r \in Requests, NEW t,
               FindExisting(r) \/ Mail(r) \/ FindUsable(r, t) \/ ChangePassword(r)
                 \/ DeleteAllUserSessions(r) \/ CheckPassword(r) \/ FindRefreshToken(r)
                 \/ GetSessionById(r) \/ OpenSession(r) \/ Fail(r)
        PROVE  SpentInv'
    <3>1. UNCHANGED <<reset, signed, signedTwice, spent>>
      BY <2>4 DEF FindExisting, Mail, FindUsable, ChangePassword, DeleteAllUserSessions,
                  CheckPassword, FindRefreshToken, GetSessionById, OpenSession, Fail,
                  table, history
    <3>2. \A q \in Storing' : q \in Storing /\ req'[q].token = req[q].token
      <4>1. CASE End(r)
        BY <4>1 DEF End, Idle, Storing, Types
      <4>2. CASE FindExisting(r)
        <5>1. PICK i : req' = [req EXCEPT ![r] = [Idle EXCEPT !.pc = "sign", !.row = i]]
          BY <4>2 DEF FindExisting
        <5> QED BY <5>1 DEF Idle, Storing, Types
      <4>3. CASE FindUsable(r, t) \/ CheckPassword(r)
        BY <4>3 DEF FindUsable, CheckPassword, Idle, Storing, Types
      <4>4. CASE ChangePassword(r)
        BY <4>4 DEF ChangePassword, Storing, Types, Request
      <4>5. CASE FindRefreshToken(r)
        <5>1. PICK pw \in sessions :
                req' = [req EXCEPT ![r] = [Idle EXCEPT !.pc = "renew", !.pw = pw]]
          BY <4>5 DEF FindRefreshToken
        <5> QED BY <5>1 DEF Idle, Storing, Types
      <4>6. CASE req' = [req EXCEPT ![r].pc = "open"]
        BY <4>6 DEF Storing, Types, Request
      <4> QED
        BY <2>4, <4>1, <4>2, <4>3, <4>4, <4>5, <4>6
           DEF Mail, DeleteAllUserSessions, GetSessionById, OpenSession, Fail
    <3> QED BY <3>1, <3>2, SpentQuiet
  <2>5. CASE Tick \/ UNCHANGED vars
    BY <2>5, SpentQuiet DEF Tick, vars, table, history, Storing
  <2> QED BY <2>1, <2>2, <2>3, <2>4, <2>5 DEF Next
<1>3. SpentInv => SpentTokensStaySpent
  BY DEF SpentInv
<1> QED
  BY <1>1, <1>2, <1>3, TypesInvariant, PTL DEF Spec
-----------------------------------------------------------------------------
(***************************************************************************)
(* A mailed token works.                                                   *)
(***************************************************************************)
\* Tokens whose place in a row nobody defends any more.
Replaceable(t) == t < now \/ t \in raced
Good(t)        == Usable(t) \/ t \in spent \/ Replaceable(t)

\* The requests that may still give row i a new token.
Holders(i) == {r \in Requests : req[r].pc \in {"sign", "store"} /\ req[r].row = i}
Mailing    == {r \in Requests : req[r].pc = "mail"}

\* The inductive form of MailedTokensWork.  It holds of a token from the moment it
\* is stored; and a row that a request is about to rewrite has a token that has
\* expired, or was stored while that request was on its way.
MailedInv ==
    /\ \A t \in mailed \union {req[r].token : r \in Mailing} : Good(t)
    /\ \A i \in Rows : Holders(i) # {} => Replaceable(reset[i].expiresAt)

\* A step that leaves the rows and the histories alone, and lets no request begin
\* to rewrite a row or to mail.
LEMMA MailedQuiet ==
    ASSUME Types, MailedInv, UNCHANGED <<reset, raced, spent>>,
           now' \in Nat, now' >= now,
           mailed' \subseteq mailed \union {req[r].token : r \in Mailing},
           \A q \in Requests : req'[q].pc \in {"sign", "store", "mail"} =>
              /\ req'[q].row = req[q].row
              /\ IF req'[q].pc = "mail" THEN req[q].pc = "mail" /\ req'[q].token = req[q].token
                 ELSE req[q].pc \in {"sign", "store"}
    PROVE  MailedInv'
<1>1. \A t \in Nat : Replaceable(t) => Replaceable(t)'
  BY DEF Replaceable, Types
<1>2. \A t \in Nat : Good(t) => Good(t)'
  BY <1>1 DEF Good, Usable, Rows
<1>3. mailed' \union {req'[r].token : r \in Mailing'}
        \subseteq mailed \union {req[r].token : r \in Mailing}
  BY DEF Mailing
<1>4. mailed \union {req[r].token : r \in Mailing} \subseteq Nat
  BY DEF Types, Request, Mailing
<1>5. \A i \in Rows : reset[i].expiresAt \in Nat /\ Holders(i)' \subseteq Holders(i)
  BY DEF Types, Row, Holders
<1>6. Rows' = Rows
  BY DEF Rows
<1>7. \A t \in mailed' \union {req'[r].token : r \in Mailing'} : Good(t)'
  BY <1>2, <1>3, <1>4 DEF MailedInv
<1>8. \A i \in Rows' : Holders(i)' # {} => Replaceable(reset[i].expiresAt)'
  BY <1>1, <1>5, <1>6 DEF MailedInv
<1>9. \A i \in Rows' : reset'[i].expiresAt = reset[i].expiresAt
  OBVIOUS
<1> QED BY <1>7, <1>8, <1>9 DEF MailedInv

\* However forgot-password requests, resets and failures overlap, a token that
\* reached the user works until it is used or expires, unless an overlapping
\* forgot-password request was already on its way to replace it.
THEOREM MailedTokensAreHonoured == Spec => []MailedTokensWork
<1>1. Init => MailedInv
  BY DEF Init, MailedInv, Mailing, Rows, Idle
<1>2. Types /\ UpdatesExist /\ MailedInv /\ [Next]_vars => MailedInv'
  <2> SUFFICES ASSUME Types, UpdatesExist, MailedInv, [Next]_vars PROVE MailedInv'
    OBVIOUS
  <2>0. ASSUME NEW r \in Requests, End(r)
        PROVE  (\A q \in Requests \ {r} : req'[q] = req[q]) /\ req'[r].pc = "idle"
    BY <2>0 DEF End, Idle, Types
  <2>1. ASSUME NEW r \in Requests, FindExisting(r) PROVE MailedInv'
    <3>1. PICK i \in Rows \union {0} :
            /\ IF i = 0 THEN MayCreate ELSE MayUpdate(i)
            /\ req' = [req EXCEPT ![r] = [Idle EXCEPT !.pc = "sign", !.row = i]]
      BY <2>1 DEF FindExisting
    <3>2. /\ UNCHANGED <<now, reset, mailed, raced, spent>>
          /\ \A q \in Requests \ {r} : req'[q] = req[q]
          /\ req'[r].pc = "sign" /\ req'[r].row = i
      BY <2>1, <3>1 DEF FindExisting, table, history, Idle, Types
    <3>3. Mailing' \subseteq Mailing /\ \A q \in Mailing' : req'[q] = req[q]
      BY <3>2 DEF Mailing
    <3>4. \A t \in mailed' \union {req'[q].token : q \in Mailing'} : Good(t)'
      BY <3>2, <3>3 DEF MailedInv, Good, Usable, Replaceable, Rows
    <3>5. ASSUME NEW j \in Rows, Holders(j)' # {} PROVE Replaceable(reset[j].expiresAt)
      <4>1. CASE j = i
        <5>1. j # 0
          BY DEF Types, Numbered
        <5> QED BY <3>1, <4>1, <5>1 DEF MayUpdate, Replaceable
      <4>2. CASE j # i
        <5>1. Holders(j)' \subseteq Holders(j)
          BY <3>2, <4>2 DEF Holders
        <5> QED BY <3>5, <5>1 DEF MailedInv
      <4> QED BY <4>1, <4>2
    <3> QED BY <3>2, <3>4, <3>5 DEF MailedInv, Replaceable, Rows
  <2>2. ASSUME NEW r \in Requests, Sign(r) PROVE MailedInv'
    <3>1. /\ UNCHANGED <<now, reset, mailed, raced, spent>>
          /\ \A q \in Requests \ {r} : req'[q] = req[q]
          /\ req'[r].pc = "store" /\ req'[r].row = req[r].row /\ req[r].pc = "sign"
      BY <2>2 DEF Sign, table, Types, Request
    <3> QED BY <3>1, MailedQuiet DEF Types
  <2>3. ASSUME NEW r \in Requests, Store(r) PROVE MailedInv'
    <3>a. PICK t : t = req[r].token
      OBVIOUS
    <3>b. PICK row : row = IF req[r].row = 0 THEN Cardinality(Rows) + 1 ELSE req[r].row
      OBVIOUS
    <3>1. UNCHANGED <<now, mailed, spent>>
      BY <2>3 DEF Store
    <3>2. CASE End(r) /\ UNCHANGED <<reset, raced>>
      BY <2>0, <3>1, <3>2, MailedQuiet DEF Types
    <3>3. CASE /\ reset' = [i \in Rows \union {row} |->
                            IF i = row THEN [expiresAt |-> t, isUsed |-> FALSE]
                            ELSE reset[i]]
               /\ raced' = IF Rivals(row, r) = {} THEN raced ELSE raced \union {t}
               /\ req' = [req EXCEPT ![r].pc = "mail"]
      <4>1. /\ \A q \in Requests \ {r} : req'[q] = req[q]
            /\ req'[r].pc = "mail" /\ req'[r].token = t
        BY <3>3, <3>a DEF Types, Request
      <4>2. row \in Rows => r \in Holders(row)
        <5>1. CASE req[r].row = 0
          BY <3>b, <5>1, RowCount DEF Types, Numbered
        <5>2. CASE req[r].row # 0
          BY <2>3, <3>b, <5>2 DEF Holders, Store
        <5> QED BY <5>1, <5>2
      <4>3. \A i \in Rows : Holders(i)' \subseteq Holders(i) \ {r}
        BY <4>1 DEF Holders
      <4>4. Rivals(row, r) = {} => Holders(row)' = {}
        BY <4>1 DEF Holders, Rivals
      <4>5. /\ Rows' = Rows \union {row}
            /\ reset'[row] = [expiresAt |-> t, isUsed |-> FALSE]
            /\ \A i \in Rows \ {row} : reset'[i] = reset[i]
        BY <3>3 DEF Rows
      <4>6. raced \subseteq raced' /\ (Rivals(row, r) # {} => t \in raced')
        BY <3>3
      <4>7. \A x : Replaceable(x) => Replaceable(x)'
        BY <3>1, <4>6 DEF Replaceable
      <4>8. Usable(t)'
        BY <4>5 DEF Usable
      <4>9. \A x : Good(x) => Good(x)'
        <5> SUFFICES ASSUME NEW x, Usable(x), ~Usable(x)' PROVE Replaceable(x)
          BY <3>1, <4>7 DEF Good
        <5>1. row \in Rows /\ reset[row].expiresAt = x
          BY <4>5 DEF Usable
        <5> QED BY <4>2, <5>1 DEF MailedInv
      <4>10. \A x \in mailed' \union {req'[q].token : q \in Mailing'} :
                x = t \/ x \in mailed \union {req[q].token : q \in Mailing}
        BY <3>1, <4>1 DEF Mailing
      <4>11. \A x \in mailed' \union {req'[q].token : q \in Mailing'} : Good(x)'
        BY <4>8, <4>9, <4>10 DEF MailedInv, Good
      <4>12. ASSUME NEW i \in Rows', Holders(i)' # {}
             PROVE  IF i = row THEN t \in raced' ELSE Replaceable(reset[i].expiresAt)
        BY <4>3, <4>4, <4>5, <4>6, <4>12 DEF MailedInv
      <4>13. ASSUME NEW i \in Rows', Holders(i)' # {}
             PROVE  Replaceable(reset[i].expiresAt)'
        <5>1. CASE i = row
          BY <4>5, <4>12, <4>13, <5>1 DEF Replaceable
        <5>2. CASE i # row
          <6>1. reset'[i].expiresAt = reset[i].expiresAt
            BY <4>5, <5>2
          <6> QED BY <3>1, <4>6, <4>12, <4>13, <5>2, <6>1 DEF Replaceable
        <5> QED BY <5>1, <5>2
      <4> QED BY <4>11, <4>13 DEF MailedInv
    <3> QED BY <2>3, <3>2, <3>3, <3>a, <3>b DEF Store
  <2>4. ASSUME NEW r \in Requests, Mail(r) PROVE MailedInv'
    <3>1. mailed' \subseteq mailed \union {req[q].token : q \in Mailing}
      BY <2>4 DEF Mail, Mailing
    <3> QED BY <2>0, <2>4, <3>1, MailedQuiet DEF Mail, history, Types
  <2>5. ASSUME NEW r \in Requests, MarkUsed(r) PROVE MailedInv'
    <3> DEFINE Found == {i \in Rows : reset[i].expiresAt = req[r].token}
    <3>1. UNCHANGED <<now, mailed, raced>>
      BY <2>5 DEF MarkUsed
    <3>2. CASE UNCHANGED <<reset, spent>> /\ End(r)
      BY <2>0, <3>1, <3>2, MailedQuiet DEF Types
    <3>3. CASE /\ reset' = [i \in Rows |-> IF i \in Found THEN Marked(reset[i]) ELSE reset[i]]
               /\ req' = [req EXCEPT ![r].pc = "revoke"]
               /\ spent' = spent \union {req[r].token}
      <4>1. (\A q \in Requests \ {r} : req'[q] = req[q]) /\ req'[r].pc = "revoke"
        BY <3>3 DEF Types, Request
      <4>2. /\ Rows' = Rows
            /\ \A i \in Rows : /\ reset'[i].expiresAt = reset[i].expiresAt
                               /\ i \notin Found => reset'[i] = reset[i]
        BY <3>3 DEF Rows, Types, Row, Marked
      <4>3. \A x : Good(x) => Good(x)'
        BY <3>1, <3>3, <4>2 DEF Good, Usable, Replaceable
      <4>4. Mailing' \subseteq Mailing /\ \A q \in Mailing' : req'[q] = req[q]
        BY <4>1 DEF Mailing
      <4>5. \A x \in mailed' \union {req'[q].token : q \in Mailing'} : Good(x)'
        BY <3>1, <4>3, <4>4 DEF MailedInv
      <4>6. \A i \in Rows : Holders(i)' \subseteq Holders(i)
        BY <4>1 DEF Holders
      <4>7. \A i \in Rows' : Holders(i)' # {} => Replaceable(reset[i].expiresAt)'
        BY <3>1, <4>2, <4>6 DEF MailedInv, Replaceable
      <4> QED BY <4>5, <4>7 DEF MailedInv
    <3> QED BY <2>5, <3>2, <3>3 DEF MarkUsed
  <2>6. ASSUME NEW r \in Requests, NEW x,
               FindUsable(r, x) \/ ChangePassword(r) \/ DeleteAllUserSessions(r)
                 \/ CheckPassword(r) \/ FindRefreshToken(r) \/ GetSessionById(r)
                 \/ OpenSession(r) \/ Fail(r)
        PROVE  MailedInv'
    <3>1. UNCHANGED <<now, reset, mailed, raced, spent>>
      BY <2>6 DEF FindUsable, ChangePassword, DeleteAllUserSessions, CheckPassword,
                  FindRefreshToken, GetSessionById, OpenSession, Fail, table, history
    <3>2. /\ \A q \in Requests \ {r} : req'[q] = req[q]
          /\ req'[r].pc \notin {"sign", "store", "mail"}
      <4>1. CASE End(r)
        BY <2>0, <4>1
      <4>2. CASE FindUsable(r, x) \/ CheckPassword(r)
        BY <4>2 DEF FindUsable, CheckPassword, Idle, Types
      <4>3. CASE ChangePassword(r)
        BY <4>3 DEF ChangePassword, Types, Request
      <4>4. CASE FindRefreshToken(r)
        <5>1. PICK pw \in sessions :
                req' = [req EXCEPT ![r] = [Idle EXCEPT !.pc = "renew", !.pw = pw]]
          BY <4>4 DEF FindRefreshToken
        <5> QED BY <5>1 DEF Idle, Types
      <4>5. CASE req' = [req EXCEPT ![r].pc = "open"]
        BY <4>5 DEF Types, Request
      <4> QED
        BY <2>6, <4>1, <4>2, <4>3, <4>4, <4>5
           DEF DeleteAllUserSessions, GetSessionById, OpenSession, Fail
    <3> QED BY <3>1, <3>2, MailedQuiet DEF Types
  <2>7. CASE Tick
    BY <2>7, MailedQuiet DEF Tick, table, history, Types
  <2>8. CASE UNCHANGED vars
    BY <2>8, MailedQuiet DEF vars, table, history, Types
  <2> QED BY <2>1, <2>2, <2>3, <2>4, <2>5, <2>6, <2>7, <2>8 DEF Next
<1>3. MailedInv => MailedTokensWork
  BY DEF MailedInv, MailedTokensWork, Good, Replaceable
<1> QED
  BY <1>1, <1>2, <1>3, TypesInvariant, PTL DEF Spec

-----------------------------------------------------------------------------
(***************************************************************************)
(* Sessions opened with an earlier password.                               *)
(***************************************************************************)
Ending      == \E r \in Requests : req[r].pc \in {"mark", "revoke"}
Pending     == {req[q].pw : q \in Opening}

\* The inductive form of OldSessionsExplained.  What holds of the sessions in the
\* table must hold of the logins and refreshes too that may add theirs.
SessionsInv ==
    \A pw \in sessions \union Pending : pw = password \/ pw \in excused \/ Ending

\* A step of a request that ends nothing half way, opens no session and checks no
\* password.
LEMMA SessionsQuiet ==
    ASSUME Types, SessionsInv, NEW r \in Requests, req[r].pc \notin {"mark", "revoke"},
           \A q \in Requests \ {r} : req'[q] = req[q], req'[r].pc \notin {"renew", "open"},
           UNCHANGED <<sessions, password, excused>>
    PROVE  SessionsInv'
<1>1. Pending' \subseteq Pending
  BY DEF Pending, Opening
<1>2. Ending => Ending'
  BY DEF Ending
<1> QED BY <1>1, <1>2 DEF SessionsInv

\* A reset that changed the password and stops before it deletes the sessions.
LEMMA SessionsExcused ==
    ASSUME Types, NEW r \in Requests, \A q \in Requests \ {r} : req'[q] = req[q],
           req'[r].pc \notin {"renew", "open"}, sessions' \subseteq sessions, UNCHANGED password,
           OldInFlight \subseteq excused',
           \A pw \in sessions' : pw = password \/ pw \in excused'
    PROVE  SessionsInv'
<1>1. \A pw \in Pending' : pw = password \/ pw \in OldInFlight
  BY DEF Pending, Opening, OldInFlight
<1> QED BY <1>1 DEF SessionsInv

\* Whatever overlaps, fails or comes late: a session opened with an earlier
\* password is left only by a reset that is not through yet, by a login that had
\* checked its password or a refresh that had found its session before the
\* sessions were deleted, or by a reset that failed between the new password and
\* the deletion.
THEOREM SessionsOfOldPasswords ==
    Spec => []OldSessionsExplained
<1>1. Init => SessionsInv
  BY DEF Init, SessionsInv, Pending, Opening, Idle
<1>2. Types /\ SessionsInv /\ [Next]_vars => SessionsInv'
  <2> SUFFICES ASSUME Types, SessionsInv, [Next]_vars PROVE SessionsInv'
    OBVIOUS
  <2>0. ASSUME NEW r \in Requests, End(r)
        PROVE  (\A q \in Requests \ {r} : req'[q] = req[q]) /\ req'[r].pc = "idle"
    BY <2>0 DEF End, Idle, Types
  <2>1. ASSUME NEW r \in Requests, NEW t,
               FindExisting(r) \/ Sign(r) \/ Store(r) \/ Mail(r) \/ FindUsable(r, t)
        PROVE  SessionsInv'
    <3>1. /\ UNCHANGED <<sessions, password, excused>>
          /\ req[r].pc \in {"idle", "sign", "store", "mail"}
      BY <2>1 DEF FindExisting, Sign, Store, Mail, FindUsable, table, history
    <3>2. (\A q \in Requests \ {r} : req'[q] = req[q]) /\ req'[r].pc \notin {"renew", "open"}
      <4>1. CASE FindExisting(r)
        <5>1. PICK i : req' = [req EXCEPT ![r] = [Idle EXCEPT !.pc = "sign", !.row = i]]
          BY <4>1 DEF FindExisting
        <5> QED BY <5>1 DEF Idle, Types
      <4>2. CASE Sign(r)
        BY <4>2 DEF Sign, Types, Request
      <4>3. CASE Store(r) \/ Mail(r)
        BY <2>0, <4>3 DEF Store, Mail, Types, Request
      <4>4. CASE FindUsable(r, t)
        BY <4>4 DEF FindUsable, Idle, Types
      <4> QED BY <2>1, <4>1, <4>2, <4>3, <4>4
    <3> QED BY <3>1, <3>2, SessionsQuiet
  <2>2. ASSUME NEW r \in Requests, ChangePassword(r) PROVE SessionsInv'
    <3>1. req'[r].pc = "mark"
      BY <2>2 DEF ChangePassword, Types, Request
    <3> QED BY <3>1 DEF SessionsInv, Ending
  <2>3. ASSUME NEW r \in Requests, MarkUsed(r) PROVE SessionsInv'
    <3>1. CASE req' = [req EXCEPT ![r].pc = "revoke"]
      <4>1. req'[r].pc = "revoke"
        BY <3>1 DEF Types, Request
      <4> QED BY <4>1 DEF SessionsInv, Ending
    <3>2. CASE End(r) /\ excused' = excused \union OldSessions \union OldInFlight
      <4>1. UNCHANGED <<sessions, password>>
        BY <2>3 DEF MarkUsed
      <4> QED BY <2>0, <3>2, <4>1, SessionsExcused DEF OldSessions
    <3> QED BY <2>3, <3>1, <3>2 DEF MarkUsed
  <2>4. ASSUME NEW r \in Requests, DeleteAllUserSessions(r) PROVE SessionsInv'
    <3>1. sessions' \subseteq sessions /\ \A pw \in sessions' : pw \in excused'
      BY <2>4 DEF DeleteAllUserSessions
    <3> QED BY <2>0, <2>4, <3>1, SessionsExcused DEF DeleteAllUserSessions
  <2>5. ASSUME NEW r \in Requests, CheckPassword(r) PROVE SessionsInv'
    <3>1. /\ \A q \in Requests \ {r} : req'[q] = req[q]
          /\ req'[r].pw = password /\ req[r].pc = "idle"
          /\ UNCHANGED <<sessions, password, excused>>
      BY <2>5 DEF CheckPassword, Idle, Types, table, history
    <3>2. Pending' \subseteq Pending \union {password}
      BY <3>1 DEF Pending, Opening
    <3>3. Ending => Ending'
      BY <3>1 DEF Ending
    <3> QED BY <3>1, <3>2, <3>3 DEF SessionsInv
  <2>6. ASSUME NEW r \in Requests, OpenSession(r) PROVE SessionsInv'
    <3>1. /\ \A q \in Requests \ {r} : req'[q] = req[q]
          /\ req'[r].pc = "idle" /\ req[r].pc = "open"
          /\ sessions' = sessions \union {req[r].pw}
          /\ UNCHANGED <<password, excused>>
      BY <2>0, <2>6 DEF OpenSession, history
    <3>2. Pending' \subseteq Pending /\ req[r].pw \in Pending
      BY <3>1 DEF Pending, Opening
    <3>3. Ending => Ending'
      BY <3>1 DEF Ending
    <3> QED BY <3>1, <3>2, <3>3 DEF SessionsInv
  <2>7. ASSUME NEW r \in Requests, FindRefreshToken(r) PROVE SessionsInv'
    <3>1. PICK pw \in sessions : req' = [req EXCEPT ![r] = [Idle EXCEPT !.pc = "renew", !.pw = pw]]
      BY <2>7 DEF FindRefreshToken
    <3>2. /\ \A q \in Requests \ {r} : req'[q] = req[q]
          /\ req'[r].pw = pw /\ req[r].pc = "idle"
          /\ UNCHANGED <<sessions, password, excused>>
      BY <2>7, <3>1 DEF FindRefreshToken, Idle, Types, table, history
    <3>3. Pending' \subseteq Pending \union {pw}
      BY <3>2 DEF Pending, Opening
    <3>4. Ending => Ending'
      BY <3>2 DEF Ending
    <3> QED BY <3>2, <3>3, <3>4 DEF SessionsInv
  <2>8. ASSUME NEW r \in Requests, GetSessionById(r) PROVE SessionsInv'
    <3>1. /\ req[r].pc = "renew"
          /\ UNCHANGED <<sessions, password, excused>>
      BY <2>8 DEF GetSessionById, table, history
    <3>2. CASE End(r)
      BY <2>0, <3>1, <3>2, SessionsQuiet
    <3>3. CASE req' = [req EXCEPT ![r].pc = "open"]
      <4>1. /\ \A q \in Requests \ {r} : req'[q] = req[q]
            /\ req'[r].pc = "open" /\ req'[r].pw = req[r].pw
        BY <3>3 DEF Types, Request
      <4>2. Pending' \subseteq Pending
        BY <3>1, <4>1 DEF Pending, Opening
      <4>3. Ending => Ending'
        BY <3>1, <4>1 DEF Ending
      <4> QED BY <3>1, <4>2, <4>3 DEF SessionsInv
    <3> QED BY <2>8, <3>2, <3>3 DEF GetSessionById
  <2>9. ASSUME NEW r \in Requests, Fail(r) PROVE SessionsInv'
    <3>1. UNCHANGED <<sessions, password>>
      BY <2>9 DEF Fail, table
    <3>2. CASE req[r].pc \in {"mark", "revoke"}
      <4>1. excused' = excused \union OldSessions \union OldInFlight
        BY <2>9, <3>2 DEF Fail
      <4> QED BY <2>0, <2>9, <3>1, <4>1, SessionsExcused DEF Fail, OldSessions
    <3>3. CASE req[r].pc \notin {"mark", "revoke"}
      <4>1. excused' = excused
        BY <2>9, <3>3 DEF Fail
      <4> QED BY <2>0, <2>9, <3>1, <3>3, <4>1, SessionsQuiet DEF Fail
    <3> QED BY <3>2, <3>3
  <2>10. CASE Tick \/ UNCHANGED vars
    BY <2>10 DEF Tick, vars, table, history, SessionsInv, Pending, Opening, Ending
  <2> QED BY <2>1, <2>2, <2>3, <2>4, <2>5, <2>6, <2>7, <2>8, <2>9, <2>10 DEF Next
<1>3. SessionsInv => OldSessionsExplained
  BY DEF SessionsInv, OldSessionsExplained, Ending
<1> QED
  BY <1>1, <1>2, <1>3, TypesInvariant, PTL DEF Spec
=============================================================================
