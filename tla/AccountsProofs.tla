--------------------------- MODULE AccountsProofs ----------------------------
(***************************************************************************)
(* Proofs about Accounts, for any requests, any spellings and any number   *)
(* of accounts: the types, how two accounts of one address come about, and *)
(* how many unused verification tokens a user can have.                    *)
(***************************************************************************)
EXTENDS Accounts, FiniteSetTheorems, TLAPS

\* What a request that has passed the lookup knows: no account that existed
\* then is spelled in lower case.
Looked(r) ==
    At(r, "create") => /\ req[r].seen <= Len(users)
                       /\ \A i \in 1 .. req[r].seen : users[i].email # Lower

\* As much of the types as the argument needs.
Fields == {"pc", "seen", "email"}
Shape ==
    /\ users \in Seq(User)
    /\ DOMAIN req = Requests
    /\ \A r \in Requests : /\ req[r].seen \in Nat /\ req[r].email \in Spellings
                          /\ Fields \subseteq DOMAIN req[r]

TwinInv == Shape /\ TwinsExplained /\ \A r \in Requests : Looked(r)

\* A step that leaves the users alone and brings no request to the insertion.
LEMMA Elsewhere ==
  ASSUME TwinInv, NEW r \in Requests, NEW x, req' = [req EXCEPT ![r] = x],
         x.seen \in Nat, x.email \in Spellings, x.pc # "create", UNCHANGED users,
         Fields \subseteq DOMAIN x
  PROVE  TwinInv'
<1>1. /\ req'[r] = x
      /\ \A q \in Requests : q # r => req'[q] = req[q]
      /\ DOMAIN req' = Requests
  BY DEF TwinInv, Shape
<1>2. Shape'
  BY <1>1 DEF TwinInv, Shape
<1>3. TwinsExplained'
  BY DEF TwinInv, TwinsExplained
<1>4. ASSUME NEW q \in Requests PROVE Looked(q)'
  BY <1>1, <1>4 DEF TwinInv, Looked, At
<1> QED BY <1>2, <1>3, <1>4 DEF TwinInv

\* Appending a user: it is later than those its request saw, and those were not
\* spelled in lower case.
LEMMA Appended ==
  ASSUME TwinInv, NEW r \in Requests, CreateUser(r) PROVE TwinInv'
<1> USE DEF TwinInv, Shape
<1> DEFINE new == [email |-> req[r].email, verified |-> FALSE, seen |-> req[r].seen]
<1>1. CASE End(r) /\ UNCHANGED users
  <2>1. /\ Idle.seen \in Nat /\ Idle.email \in Spellings /\ Idle.pc # "create"
        /\ Fields \subseteq DOMAIN Idle
    BY LowerAssumption DEF Idle, Fields
  <2> QED BY <1>1, <2>1, Elsewhere DEF End
<1>2. CASE /\ users' = Append(users, new)
           /\ req' = [req EXCEPT ![r] = [Idle EXCEPT !.pc = "insert",
                                                     !.user = Len(users')]]
  <2>1. new \in User
    BY DEF User
  <2>2. /\ users' \in Seq(User) /\ Len(users') = Len(users) + 1
        /\ \A i \in 1 .. Len(users) : users'[i] = users[i]
        /\ users'[Len(users) + 1] = new
    BY <1>2, <2>1
  <2>3. /\ req'[r].pc = "insert" /\ req'[r].seen = 0 /\ req'[r].email = Lower
        /\ \A q \in Requests : q # r => req'[q] = req[q]
        /\ DOMAIN req' = Requests
        /\ Fields \subseteq DOMAIN req'[r]
    BY <1>2 DEF Idle, Fields
  <2>4. Shape'
    BY <2>2, <2>3, LowerAssumption
  <2>5. TwinsExplained'
    <3> SUFFICES ASSUME NEW i \in 1 .. Len(users) + 1, NEW j \in 1 .. Len(users) + 1,
                        i < j
                 PROVE  users'[i].email # Lower \/ users'[j].seen < i
      BY <2>2 DEF TwinsExplained
    <3>1. Len(users) \in Nat
      OBVIOUS
    <3>2. i \in 1 .. Len(users)
      BY <3>1
    <3>3. CASE j = Len(users) + 1
      <4>1. At(r, "create") /\ req[r].seen \in Nat
        BY DEF CreateUser
      <4>2. i <= req[r].seen => users[i].email # Lower
        BY <3>2, <4>1 DEF Looked
      <4> QED BY <2>2, <3>2, <3>3, <4>1, <4>2
    <3>4. CASE j # Len(users) + 1
      <4>1. j \in 1 .. Len(users)
        BY <3>1, <3>4
      <4> QED BY <2>2, <3>2, <4>1 DEF TwinsExplained
    <3> QED BY <3>3, <3>4
  <2>6. ASSUME NEW q \in Requests PROVE Looked(q)'
    <3>1. Len(users) \in Nat
      OBVIOUS
    <3> QED BY <2>2, <2>3, <2>6, <3>1 DEF Looked, At
  <2> QED BY <2>4, <2>5, <2>6
<1> QED BY <1>1, <1>2 DEF CreateUser

\* Marking a user as verified changes neither the number of users nor an address.
LEMMA MarkedUsers ==
  ASSUME users \in Seq(User), NEW u, users' = [users EXCEPT ![u].verified = TRUE]
  PROVE  /\ users' \in Seq(User) /\ Len(users') = Len(users)
         /\ \A i \in 1 .. Len(users) : /\ users'[i].email = users[i].email
                                       /\ users'[i].seen = users[i].seen
<1>1. /\ Len(users) \in Nat
      /\ users \in [1 .. Len(users) -> User]
  OBVIOUS
<1>2. ASSUME NEW i \in 1 .. Len(users)
      PROVE  users'[i] = users[i] \/ users'[i] = [users[i] EXCEPT !.verified = TRUE]
  BY <1>1
<1>3. \A x \in User : LET y == [x EXCEPT !.verified = TRUE]
                     IN  y \in User /\ y.email = x.email /\ y.seen = x.seen
  BY DEF User
<1>4. ASSUME NEW i \in 1 .. Len(users)
      PROVE  /\ users'[i] \in User
             /\ users'[i].email = users[i].email
             /\ users'[i].seen = users[i].seen
  <2>1. users[i] \in User
    BY <1>1
  <2>2. CASE users'[i] = users[i]
    BY <2>1, <2>2
  <2>3. CASE users'[i] = [users[i] EXCEPT !.verified = TRUE]
    BY <1>3, <2>1, <2>3
  <2> QED BY <1>2, <2>2, <2>3
<1>5. users' \in [1 .. Len(users) -> User]
  <2>1. DOMAIN users' = 1 .. Len(users) /\ users' = [i \in 1 .. Len(users) |-> users'[i]]
    BY <1>1
  <2> QED BY <1>4, <2>1
<1>6. users' \in Seq(User) /\ Len(users') = Len(users)
  BY <1>1, <1>5
<1> QED BY <1>4, <1>6

\* VerifyUser changes no address.
LEMMA Verified ==
  ASSUME TwinInv, NEW r \in Requests, VerifyUser(r) PROVE TwinInv'
<1> USE DEF TwinInv, Shape
<1>1. users' = [users EXCEPT ![req[r].user].verified = TRUE]
  BY DEF VerifyUser
<1>2. /\ users' \in Seq(User) /\ Len(users') = Len(users)
      /\ \A i \in 1 .. Len(users) : /\ users'[i].email = users[i].email
                                    /\ users'[i].seen = users[i].seen
  BY <1>1, MarkedUsers
<1>3. /\ req'[r].pc = "idle" /\ req'[r].seen = 0 /\ req'[r].email = Lower
      /\ \A q \in Requests : q # r => req'[q] = req[q]
      /\ DOMAIN req' = Requests
      /\ Fields \subseteq DOMAIN req'[r]
  BY DEF VerifyUser, End, Idle, Fields
<1>4. Shape'
  BY <1>2, <1>3, LowerAssumption
<1>5. TwinsExplained'
  BY <1>2 DEF TwinsExplained
<1>6. ASSUME NEW q \in Requests PROVE Looked(q)'
  <2>1. Len(users) \in Nat
    OBVIOUS
  <2> QED BY <1>2, <1>3, <1>6, <2>1 DEF Looked, At
<1> QED BY <1>4, <1>5, <1>6

\* The lookup: whoever passes it has seen no lower-case spelling.
LEMMA LookedUp ==
  ASSUME TwinInv, NEW r \in Requests, StartRegister(r) PROVE TwinInv'
<1> USE DEF TwinInv, Shape
<1>1. Len(users) \in Nat /\ DOMAIN users = 1 .. Len(users) /\ users' = users
  BY DEF StartRegister
<1>2. PICK email \in Spellings :
        /\ ~UserExists(email)
        /\ req' = [req EXCEPT ![r] = [Idle EXCEPT !.pc = "create", !.email = email,
                                                  !.seen = Len(users)]]
  BY DEF StartRegister
<1>3. /\ req'[r].seen = Len(users) /\ req'[r].email = email
      /\ \A q \in Requests : q # r => req'[q] = req[q]
      /\ DOMAIN req' = Requests
      /\ Fields \subseteq DOMAIN req'[r]
  BY <1>2 DEF Idle, Fields
<1>4. \A i \in 1 .. Len(users) : users[i].email # Lower
  BY <1>1, <1>2 DEF UserExists
<1>5. ASSUME NEW q \in Requests PROVE Looked(q)'
  BY <1>1, <1>3, <1>4, <1>5 DEF Looked, At
<1>6. Shape' /\ TwinsExplained'
  BY <1>1, <1>3 DEF TwinsExplained
<1> QED BY <1>5, <1>6

\* Every step keeps the invariant.
LEMMA TwinStep ==
  ASSUME TwinInv, [Next]_vars PROVE TwinInv'
<1> USE DEF At, Go, End
<1>0. \A q \in Requests : /\ req[q].seen \in Nat /\ req[q].email \in Spellings
                          /\ Fields \subseteq DOMAIN req[q]
  BY DEF TwinInv, Shape
<1>1. /\ Idle.seen \in Nat /\ Idle.email \in Spellings /\ Idle.pc # "create"
      /\ Fields \subseteq DOMAIN Idle
      /\ Idle = [pc |-> "idle", email |-> Lower, seen |-> 0, user |-> 0, token |-> 0]
  BY LowerAssumption DEF Idle, Fields
<1>2. ASSUME NEW r \in Requests, StartRegister(r) PROVE TwinInv'
  BY <1>2, LookedUp
<1>3. ASSUME NEW r \in Requests, CreateUser(r) PROVE TwinInv'
  BY <1>3, Appended
<1>4. ASSUME NEW r \in Requests, VerifyUser(r) PROVE TwinInv'
  BY <1>4, Verified
<1>5. ASSUME NEW r \in Requests, NEW x, req' = [req EXCEPT ![r] = x], UNCHANGED users,
             \/ x = Idle
             \/ /\ x.seen = req[r].seen \/ x.seen = 0
                /\ x.email = req[r].email \/ x.email = Lower
                /\ x.pc # "create" /\ Fields \subseteq DOMAIN x
      PROVE  TwinInv'
  BY <1>0, <1>1, <1>5, Elsewhere, LowerAssumption
<1>6. ASSUME NEW r \in Requests, CreateEmailVerification(r) PROVE TwinInv'
  <2>1. PICK x : x = [req[r] EXCEPT !.token = Fresh,
                                    !.pc = IF At(r, "insert") THEN "mail" ELSE "remail"]
    OBVIOUS
  <2>2. /\ x.seen = req[r].seen /\ x.email = req[r].email /\ x.pc # "create"
        /\ Fields \subseteq DOMAIN x
    BY <1>0, <2>1 DEF Fields
  <2> QED BY <1>5, <1>6, <2>1, <2>2 DEF CreateEmailVerification
<1>7. ASSUME NEW r \in Requests, SendVerificationEmail(r) PROVE TwinInv'
  BY <1>5, <1>7 DEF SendVerificationEmail
<1>8. ASSUME NEW r \in Requests, NEW u \in Users, StartResend(r, u) PROVE TwinInv'
  <2>1. PICK x : x = [Idle EXCEPT !.pc = "invalidate", !.user = u]
    OBVIOUS
  <2>2. /\ x.seen = 0 /\ x.email = Lower /\ x.pc # "create"
        /\ Fields \subseteq DOMAIN x
    BY <1>1, <2>1
  <2> QED BY <1>5, <1>8, <2>1, <2>2 DEF StartResend
<1>9. ASSUME NEW r \in Requests, InvalidateAll(r) PROVE TwinInv'
  <2>1. PICK x : x = [req[r] EXCEPT !.pc = "renew"]
    OBVIOUS
  <2>2. /\ x.seen = req[r].seen /\ x.email = req[r].email /\ x.pc # "create"
        /\ Fields \subseteq DOMAIN x
    BY <1>0, <2>1 DEF Fields
  <2> QED BY <1>5, <1>9, <2>1, <2>2 DEF InvalidateAll
<1>10. ASSUME NEW r \in Requests, NEW t \in mailed, FindToken(r, t) PROVE TwinInv'
  <2>1. PICK x : x = [Idle EXCEPT !.pc = "mark", !.user = unused[t].user, !.token = t]
    OBVIOUS
  <2>2. /\ x.seen = 0 /\ x.email = Lower /\ x.pc # "create"
        /\ Fields \subseteq DOMAIN x
    BY <1>1, <2>1
  <2> QED BY <1>5, <1>10, <2>1, <2>2 DEF FindToken
<1>11. ASSUME NEW r \in Requests, MarkUsed(r) PROVE TwinInv'
  <2>1. PICK x : x = [req[r] EXCEPT !.pc = "verify"]
    OBVIOUS
  <2>2. /\ x.seen = req[r].seen /\ x.email = req[r].email /\ x.pc # "create"
        /\ Fields \subseteq DOMAIN x
    BY <1>0, <2>1 DEF Fields
  <2> QED BY <1>5, <1>11, <2>1, <2>2 DEF MarkUsed
<1>12. ASSUME NEW r \in Requests, Fail(r) PROVE TwinInv'
  BY <1>5, <1>12 DEF Fail
<1>13. ASSUME UNCHANGED <<users, req>> PROVE TwinInv'
  BY <1>13 DEF TwinInv, Shape, TwinsExplained, Looked
<1> QED BY <1>2, <1>3, <1>4, <1>6, <1>7, <1>8, <1>9, <1>10, <1>11, <1>12, <1>13
           DEF Next, Tick, SendEmailVerificationJob, FailedJob, vars

\* Two accounts of one address exist only when the earlier one was stored with
\* upper-case letters or was created after the later one's lookup.
THEOREM Twins == Spec => []TwinsExplained
<1>1. Init => TwinInv
  BY LowerAssumption DEF Init, TwinInv, Shape, TwinsExplained, Looked, At, Idle, Fields
<1>2. TwinInv => TwinsExplained
  BY DEF TwinInv
<1> QED BY <1>1, <1>2, TwinStep, PTL DEF Spec
-----------------------------------------------------------------------------
(***************************************************************************)
(* The types, and how many unused tokens a user can have.  The two go      *)
(* together: the tokens suffice because the unused ones are bounded.       *)
(***************************************************************************)

\* Rows, and the requests that create or use them, belong to users that exist; a
\* request that is to sign a token has none yet.
Owners ==
    /\ \A t \in DOMAIN unused : unused[t].user \in DOMAIN users
    /\ \A r \in Requests :
          /\ req[r].pc \in {"insert", "invalidate", "renew", "mark", "verify"} =>
                req[r].user \in DOMAIN users
          /\ req[r].pc \in {"insert", "invalidate", "renew"} => req[r].token = 0

RowInv == TypeOK /\ Owners /\ UnusedBounded

\* A table of n rows with one appended is a table of n + 1 rows.
LEMMA Appending ==
  ASSUME NEW S, NEW n \in Nat, NEW f \in [1 .. n -> S], NEW x \in S
  PROVE  Append(f, x) \in [1 .. n + 1 -> S]
<1>1. f \in Seq(S) /\ Len(f) = n
  OBVIOUS
<1>2. PICK s : s = Append(f, x)
  OBVIOUS
<1>3. s \in Seq(S) /\ Len(s) = n + 1
  BY <1>1, <1>2
<1>4. s \in [1 .. n + 1 -> S]
  BY <1>3
<1> QED BY <1>2, <1>4

\* The size of an interval.
LEMMA Intervals ==
  ASSUME NEW m \in Nat
  PROVE  /\ IsFiniteSet(1 .. m) /\ Cardinality(1 .. m) = m
         /\ IsFiniteSet(0 .. m) /\ Cardinality(0 .. m) = m + 1
<1>1. /\ IsFiniteSet(1 .. m)
      /\ Cardinality(1 .. m) = IF 1 > m THEN 0 ELSE m - 1 + 1
  BY FS_Interval
<1>2. /\ IsFiniteSet(0 .. m)
      /\ Cardinality(0 .. m) = IF 0 > m THEN 0 ELSE m - 0 + 1
  BY FS_Interval
<1> QED BY <1>1, <1>2

\* There is always a token that is neither unused nor in a request's hands: the
\* rows of each user and the requests are at most Cardinality(Requests) each, and
\* the request about to sign a token has none.
LEMMA FreshToken ==
  ASSUME RowInv, NEW r \in Requests, req[r].pc \in {"insert", "renew"}
  PROVE  Fresh \in Tokens /\ Fresh \notin DOMAIN unused
<1> USE DEF RowInv
<1> DEFINE n == Cardinality(Requests)
           Places == (0 .. MaxUsers) \X (1 .. n)
           Holds(h, c, S) == h \in Surjection(1 .. c, S)
           row == [u \in Users |-> CHOOSE h : Holds(h, Cardinality(RowsOf(u)), RowsOf(u))]
           slot == CHOOSE h : Holds(h, n, Requests)
           f == [p \in Places |->
                   IF p[1] = 0 THEN req[slot[p[2]]].token
                   ELSE IF p[2] \in 1 .. Cardinality(RowsOf(p[1])) THEN row[p[1]][p[2]]
                   ELSE 0]
           T == {f[p] : p \in Places}
<1>1. n \in Nat /\ MaxUsers \in Nat /\ MaxUsers + 1 \in Nat /\ (MaxUsers + 1) * n \in Nat
  BY RequestsAssumption, BoundsAssumption, FS_CardinalityType
<1>2. /\ IsFiniteSet(Tokens) /\ Cardinality(Tokens) = (MaxUsers + 1) * n
      /\ 0 \notin Tokens
  BY <1>1, Intervals DEF Tokens
<1>3. ASSUME NEW S, IsFiniteSet(S)
      PROVE  /\ Cardinality(S) \in Nat
             /\ Holds(CHOOSE h : Holds(h, Cardinality(S), S), Cardinality(S), S)
  <2>1. Cardinality(S) \in Nat /\ ExistsBijection(1 .. Cardinality(S), S)
    BY <1>3, FS_CardinalityType
  <2>2. \E h : h \in Surjection(1 .. Cardinality(S), S)
    BY <2>1 DEF ExistsBijection, Bijection
  <2> QED BY <2>1, <2>2
<1>4. \A u \in Users : IsFiniteSet(RowsOf(u))
  BY <1>2, FS_Subset DEF TypeOK, RowsOf
<1>5. IsFiniteSet(Places) /\ Cardinality(Places) = (MaxUsers + 1) * n
  <2>1. IsFiniteSet(1 .. n) /\ Cardinality(1 .. n) = n
    BY <1>1, Intervals
  <2>2. IsFiniteSet(0 .. MaxUsers) /\ Cardinality(0 .. MaxUsers) = MaxUsers + 1
    BY <1>1, Intervals
  <2> HIDE DEF n
  <2> QED BY <2>1, <2>2, FS_Product
<1>6. IsFiniteSet(T) /\ Cardinality(T) <= (MaxUsers + 1) * n /\ Cardinality(T) \in Nat
  <2>1. f \in Surjection(Places, T)
    BY DEF Surjection
  <2> HIDE DEF f, T, Places, n
  <2> QED BY <1>5, <2>1, FS_Surjection, FS_CardinalityType
<1>7. \A q \in Requests : req[q].token \in T
  <2> SUFFICES ASSUME NEW q \in Requests PROVE req[q].token \in T
    OBVIOUS
  <2>1. slot \in Surjection(1 .. n, Requests)
    BY <1>3, RequestsAssumption
  <2>2. PICK k \in 1 .. n : slot[k] = q
    BY <2>1 DEF Surjection
  <2>3. <<0, k>> \in Places /\ f[<<0, k>>] = req[q].token
    BY <1>1, <2>2
  <2> QED BY <2>3
<1>8. \A t \in DOMAIN unused : t \in T
  <2> SUFFICES ASSUME NEW t \in DOMAIN unused PROVE t \in T
    OBVIOUS
  <2> DEFINE u == unused[t].user
             c == Cardinality(RowsOf(u))
  <2>1. u \in DOMAIN users /\ u \in Users /\ t \in RowsOf(u)
    BY DEF Owners, TypeOK, Row, RowsOf
  <2>2. c \in Nat /\ row[u] \in Surjection(1 .. c, RowsOf(u))
    <3> HIDE DEF u
    <3> QED BY <1>3, <1>4, <2>1
  <2>3. PICK k \in 1 .. c : row[u][k] = t
    BY <2>1, <2>2 DEF Surjection
  <2>4. c <= n
    <3>1. Cardinality(Creating(u)) \in Nat
      BY RequestsAssumption, FS_Subset, FS_CardinalityType DEF Creating
    <3> QED BY <1>1, <2>1, <2>2, <3>1 DEF UnusedBounded
  <2>5. k \in 1 .. n /\ u # 0
    BY <1>1, <2>1, <2>2, <2>4 DEF Users
  <2>6. <<u, k>> \in Places /\ f[<<u, k>>] = row[u][k]
    <3>1. u \in 1 .. MaxUsers /\ k \in 1 .. Cardinality(RowsOf(u))
      BY <2>1 DEF Users
    <3> HIDE DEF u, row, n
    <3> QED BY <1>1, <2>5, <3>1
  <2> QED BY <2>3, <2>6
<1>9. \E t \in Tokens : t \notin DOMAIN unused /\ \A q \in Requests : req[q].token # t
  <2> SUFFICES ASSUME Tokens \subseteq T PROVE FALSE
    BY <1>7, <1>8
  <2>1. 0 \in T
    BY <1>7 DEF Owners
  <2>2. Tokens \union {0} \subseteq T
    BY <2>1
  <2> HIDE DEF T, n
  <2>3. Cardinality(Tokens \union {0}) = (MaxUsers + 1) * n + 1
    BY <1>2, FS_AddElement
  <2>4. Cardinality(Tokens \union {0}) <= Cardinality(T)
    BY <1>6, <2>2, FS_Subset
  <2> QED BY <1>1, <1>6, <2>3, <2>4
<1> QED BY <1>9 DEF Fresh
\* The variables of one request change, the others stay as they are.
Put(r, x) ==
    /\ x \in Request
    /\ req' \in [Requests -> Request] /\ req'[r] = x
    /\ \A q \in Requests \ {r} : req'[q] = req[q]

\* Its user exists, and it has no token yet if it is to sign one.
Fits(x) ==
    /\ x.pc \in {"insert", "invalidate", "renew", "mark", "verify"} =>
          x.user \in DOMAIN users'
    /\ x.pc \in {"insert", "invalidate", "renew"} => x.token = 0

\* Replacing the record of one request leaves the others alone.
LEMMA PutFacts ==
  ASSUME TypeOK, NEW r \in Requests, NEW x \in Request, req' = [req EXCEPT ![r] = x]
  PROVE  Put(r, x)
BY DEF TypeOK, Put

\* What UnusedBounded counts is finite.
LEMMA FiniteCounts ==
  ASSUME RowInv, NEW u
  PROVE  /\ IsFiniteSet(RowsOf(u)) /\ Cardinality(RowsOf(u)) \in Nat
         /\ IsFiniteSet(Creating(u)) /\ Cardinality(Creating(u)) \in Nat
<1>1. Cardinality(Requests) \in Nat /\ MaxUsers + 1 \in Nat
  BY RequestsAssumption, BoundsAssumption, FS_CardinalityType
<1>2. (MaxUsers + 1) * Cardinality(Requests) \in Nat
  BY <1>1
<1>3. IsFiniteSet(Tokens)
  BY <1>2, Intervals DEF Tokens
<1> QED BY <1>3, RequestsAssumption, FS_Subset, FS_CardinalityType
        DEF RowInv, TypeOK, RowsOf, Creating

\* When nobody gets closer to a new row and no row is added, the bound stays.
LEMMA FewerRows ==
  ASSUME RowInv, NEW u, RowsOf(u)' \subseteq RowsOf(u), Creating(u)' \subseteq Creating(u)
  PROVE  Cardinality(RowsOf(u)') + Cardinality(Creating(u)')
            <= Cardinality(RowsOf(u)) + Cardinality(Creating(u))
<1>1. /\ Cardinality(RowsOf(u)') <= Cardinality(RowsOf(u))
      /\ Cardinality(Creating(u)') <= Cardinality(Creating(u))
      /\ Cardinality(RowsOf(u)') \in Nat /\ Cardinality(Creating(u)') \in Nat
  BY FiniteCounts, FS_Subset, FS_CardinalityType
<1> QED BY <1>1, FiniteCounts

\* A step of one request that adds no row.
LEMMA KeepRows ==
  ASSUME RowInv, NEW r \in Requests, NEW x, Put(r, x), Fits(x),
         x.pc \notin {"insert", "renew"},
         users' \in Seq(User), Len(users') = Len(users), UNCHANGED latest,
         DOMAIN unused' \subseteq DOMAIN unused,
         \A t \in DOMAIN unused' : unused'[t] = unused[t],
         queued' \union mailed' \subseteq DOMAIN unused'
  PROVE  RowInv'
<1> USE DEF RowInv
<1>1. DOMAIN users' = DOMAIN users
  BY DEF TypeOK
<1>2. TypeOK'
  BY <1>1 DEF TypeOK, Put
<1>3. Owners'
  BY <1>1 DEF Owners, Put, Fits
<1>4. \A u : RowsOf(u)' \subseteq RowsOf(u)
  BY DEF RowsOf
<1>5. \A u : Creating(u)' \subseteq Creating(u)
  BY DEF Creating, Put
<1>6. UnusedBounded'
  <2> SUFFICES ASSUME NEW u \in DOMAIN users
               PROVE  Cardinality(RowsOf(u)') + Cardinality(Creating(u)')
                         <= Cardinality(Requests)
    BY <1>1 DEF UnusedBounded
  <2>1. /\ Cardinality(RowsOf(u)') \in Nat /\ Cardinality(Creating(u)') \in Nat
        /\ Cardinality(Requests) \in Nat
    BY <1>4, <1>5, FiniteCounts, RequestsAssumption, FS_Subset, FS_CardinalityType
  <2>2. Cardinality(RowsOf(u)') + Cardinality(Creating(u)')
           <= Cardinality(RowsOf(u)) + Cardinality(Creating(u))
    BY <1>4, <1>5, FewerRows
  <2> QED BY <2>1, <2>2, FiniteCounts DEF UnusedBounded
<1> QED BY <1>2, <1>3, <1>6

\* A request that starts to work for user m.
LEMMA Signing ==
  ASSUME NEW m, m \in 1 .. MaxUsers, NEW pc \in {"insert", "invalidate"}, NEW x,
         x = [pc |-> pc, email |-> Lower, seen |-> 0, user |-> m, token |-> 0]
  PROVE  x \in Request /\ x.pc = pc /\ x.user = m /\ x.token = 0
<1>1. m \in 0 .. MaxUsers
  BY BoundsAssumption
<1>2. x.pc = pc /\ x.user = m /\ x.token = 0
  OBVIOUS
<1>3. x \in Request
  <2> DEFINE Seen == Nat
             Ids == 0 .. MaxUsers
             Hands == Tokens \union {0}
             Pcs == {"idle", "create", "insert", "mail", "invalidate", "renew", "remail",
                     "mark", "verify"}
  <2>1. 0 \in Seen /\ m \in Ids /\ 0 \in Hands /\ pc \in Pcs
    BY <1>1
  <2> HIDE DEF Seen, Ids, Hands, Pcs
  <2>2. x \in [pc: Pcs, email: Spellings, seen: Seen, user: Ids, token: Hands]
    BY <2>1, LowerAssumption
  <2> QED BY <2>2 DEF Seen, Ids, Hands, Pcs, Request
<1> QED BY <1>2, <1>3

\* The new user has no rows, and its request is the first to create one.
LEMMA CreateUserRows ==
  ASSUME RowInv, NEW r \in Requests, CreateUser(r) PROVE RowInv'
<1> USE DEF RowInv
<1>1. CASE End(r) /\ UNCHANGED <<users, latest>>
  <2>1. Idle \in Request /\ Idle.pc = "idle"
    BY LowerAssumption, BoundsAssumption DEF Idle, Request
  <2>2. Put(r, Idle) /\ Fits(Idle)
    BY <1>1, <2>1, PutFacts DEF End, Fits
  <2> QED BY <1>1, <2>1, <2>2, KeepRows DEF CreateUser, TypeOK
<1>2. CASE /\ Len(users) < MaxUsers
           /\ users' = Append(users, [email |-> req[r].email, verified |-> FALSE,
                                      seen |-> req[r].seen])
           /\ latest' = Append(latest, Wait)
           /\ req' = [req EXCEPT ![r] = [Idle EXCEPT !.pc = "insert",
                                                     !.user = Len(users')]]
  <2> DEFINE new == [email |-> req[r].email, verified |-> FALSE, seen |-> req[r].seen]
             n == Len(users)
  <2>1. n \in Nat /\ n < MaxUsers /\ MaxUsers \in Nat /\ DOMAIN users = 1 .. n
    BY <1>2, BoundsAssumption DEF TypeOK
  <2>2. new \in User
    BY DEF TypeOK, Request, User
  <2>3. users' \in Seq(User) /\ Len(users') = n + 1 /\ DOMAIN users' = 1 .. n + 1
    BY <1>2, <2>2 DEF TypeOK
  <2>11. n + 1 \in 1 .. MaxUsers
    BY <2>1
  <2>12. PICK m \in 1 .. MaxUsers : m = n + 1
    BY <2>11
  <2>13. PICK x : x = [Idle EXCEPT !.pc = "insert", !.user = m]
    OBVIOUS
  <2>4. x \in Request /\ x.pc = "insert" /\ x.user = m /\ x.token = 0
    <3>1. x = [pc |-> "insert", email |-> Lower, seen |-> 0, user |-> m, token |-> 0]
      BY <2>13 DEF Idle
    <3> QED BY <3>1, Signing
  <2>14. req' = [req EXCEPT ![r] = x]
    <3>1. Len(users') = m
      BY <2>3, <2>12
    <3> QED BY <1>2, <2>13, <3>1
  <2>5. Put(r, x) /\ Fits(x)
    <3>1. m \in DOMAIN users'
      BY <2>1, <2>3, <2>12
    <3>2. x.user \in DOMAIN users'
      BY <2>4, <3>1
    <3> QED BY <2>4, <2>14, <3>2, PutFacts DEF Fits
  <2>6. latest' \in [1 .. n + 1 -> 0 .. Wait]
    <3>1. latest \in [1 .. n -> 0 .. Wait]
      BY <2>1 DEF TypeOK
    <3>2. Wait \in 0 .. Wait
      BY TimesAssumption
    <3> QED BY <1>2, <2>1, <3>1, <3>2, Appending
  <2>7. UNCHANGED <<unused, queued, mailed>>
    BY DEF CreateUser
  <2> HIDE DEF new, n
  <2>8. TypeOK'
    BY <2>1, <2>3, <2>5, <2>6, <2>7 DEF TypeOK, Put
  <2>9. Owners'
    <3>1. DOMAIN users \subseteq DOMAIN users'
      BY <2>1, <2>3
    <3> QED BY <2>5, <2>7, <3>1 DEF Owners, Put, Fits
  <2>10. UnusedBounded'
    <3> SUFFICES ASSUME NEW u \in 1 .. n + 1
                 PROVE  Cardinality(RowsOf(u)') + Cardinality(Creating(u)')
                           <= Cardinality(Requests)
      BY <2>3 DEF UnusedBounded
    <3>1. CASE u \in 1 .. n
      <4>1. RowsOf(u)' = RowsOf(u)
        BY <2>7 DEF RowsOf
      <4>2. Creating(u)' \subseteq Creating(u)
        <5>1. u # m
          BY <2>1, <2>12, <3>1
        <5> QED BY <2>4, <2>5, <5>1 DEF Creating, Put
      <4>3. /\ Cardinality(RowsOf(u)') + Cardinality(Creating(u)')
                  <= Cardinality(RowsOf(u)) + Cardinality(Creating(u))
            /\ Cardinality(RowsOf(u)') \in Nat /\ Cardinality(Creating(u)') \in Nat
            /\ Cardinality(Requests) \in Nat
        BY <4>1, <4>2, FewerRows, FiniteCounts, RequestsAssumption, FS_Subset,
           FS_CardinalityType
      <4>4. Cardinality(RowsOf(u)) + Cardinality(Creating(u)) <= Cardinality(Requests)
        BY <2>1, <3>1 DEF UnusedBounded
      <4> QED BY <4>3, <4>4, FiniteCounts
    <3>2. CASE u = n + 1
      <4>1. RowsOf(u)' = {}
        BY <2>1, <2>7, <3>2 DEF RowsOf, Owners
      <4>2. Creating(u)' \subseteq Requests
        BY DEF Creating
      <4> QED BY <4>1, <4>2, RequestsAssumption, FS_EmptySet, FS_Subset, FS_CardinalityType
    <3> QED BY <2>1, <3>1, <3>2
  <2> QED BY <2>8, <2>9, <2>10
<1> QED BY <1>1, <1>2 DEF CreateUser

\* The request turns into a row.
LEMMA CreateRow ==
  ASSUME RowInv, NEW r \in Requests, CreateEmailVerification(r) PROVE RowInv'
<1> USE DEF RowInv
<1> DEFINE v == req[r].user
<1>1. Fresh \in Tokens /\ req[r].pc \in {"insert", "renew"}
  BY FreshToken DEF CreateEmailVerification, At
<1>2. PICK x : x = [req[r] EXCEPT !.token = Fresh,
                                  !.pc = IF At(r, "insert") THEN "mail" ELSE "remail"]
  OBVIOUS
<1>3. x \in Request /\ x.pc \in {"mail", "remail"}
  BY <1>1, <1>2 DEF TypeOK, Request
<1>4. Put(r, x) /\ Fits(x)
  BY <1>2, <1>3, PutFacts DEF CreateEmailVerification, Fits
<1>5. /\ v \in DOMAIN users /\ v \in Users /\ UNCHANGED <<users, queued, mailed>>
      /\ latest' = [latest EXCEPT ![v] = 0]
  <2>1. v \in DOMAIN users
    BY <1>1 DEF Owners
  <2>2. v \in Users
    BY <2>1, BoundsAssumption DEF TypeOK, Users
  <2> QED BY <2>1, <2>2 DEF CreateEmailVerification
<1>6. /\ DOMAIN unused' = DOMAIN unused \union {Fresh}
      /\ unused'[Fresh] = [user |-> v, age |-> 0]
      /\ \A t \in DOMAIN unused' : t # Fresh => unused'[t] = unused[t]
  BY DEF CreateEmailVerification
<1>7. TypeOK'
  <2>1. unused'[Fresh] \in Row
    BY <1>5, <1>6, TimesAssumption DEF Row
  <2>2. latest' \in [DOMAIN users -> 0 .. Wait]
    BY <1>5, TimesAssumption DEF TypeOK
  <2> QED BY <1>1, <1>4, <1>5, <1>6, <2>1, <2>2 DEF TypeOK, Put
<1>8. Owners'
  BY <1>4, <1>5, <1>6 DEF Owners, Put, Fits
<1>9. UnusedBounded'
  <2> SUFFICES ASSUME NEW u \in DOMAIN users
               PROVE  Cardinality(RowsOf(u)') + Cardinality(Creating(u)')
                         <= Cardinality(Requests)
    BY <1>5 DEF UnusedBounded
  <2>1. /\ Cardinality(RowsOf(u)) + Cardinality(Creating(u)) <= Cardinality(Requests)
        /\ Cardinality(Requests) \in Nat
    BY RequestsAssumption, FS_CardinalityType DEF UnusedBounded
  <2>2. CASE u = v
    <3>1. /\ RowsOf(u)' \subseteq RowsOf(u) \union {Fresh}
          /\ Creating(u)' \subseteq Creating(u) \ {r} /\ r \in Creating(u)
      BY <1>1, <1>3, <1>4, <1>6, <2>2 DEF RowsOf, Creating, Put
    <3>2. /\ Cardinality(RowsOf(u)') <= Cardinality(RowsOf(u)) + 1
          /\ Cardinality(RowsOf(u)') \in Nat
      <4>1. /\ IsFiniteSet(RowsOf(u) \union {Fresh})
            /\ Cardinality(RowsOf(u) \union {Fresh}) <= Cardinality(RowsOf(u)) + 1
            /\ Cardinality(RowsOf(u) \union {Fresh}) \in Nat
        <5>1. /\ IsFiniteSet(RowsOf(u)) /\ Cardinality(RowsOf(u)) \in Nat
              /\ IsFiniteSet(RowsOf(u) \union {Fresh})
          BY FiniteCounts, FS_AddElement
        <5>2. Cardinality(RowsOf(u) \union {Fresh})
                 = IF Fresh \in RowsOf(u) THEN Cardinality(RowsOf(u))
                   ELSE Cardinality(RowsOf(u)) + 1
          BY <5>1, FS_AddElement
        <5> QED BY <5>1, <5>2
      <4>2. /\ Cardinality(RowsOf(u)') <= Cardinality(RowsOf(u) \union {Fresh})
            /\ Cardinality(RowsOf(u)') \in Nat
        BY <3>1, <4>1, FS_Subset, FS_CardinalityType
      <4> QED BY <4>1, <4>2, FiniteCounts
    <3>3. /\ Cardinality(Creating(u)') <= Cardinality(Creating(u)) - 1
          /\ Cardinality(Creating(u)') \in Nat
      <4>1. /\ IsFiniteSet(Creating(u) \ {r})
            /\ Cardinality(Creating(u) \ {r}) = Cardinality(Creating(u)) - 1
        BY <3>1, FiniteCounts, FS_RemoveElement
      <4> QED BY <3>1, <4>1, FS_Subset, FS_CardinalityType
    <3> QED BY <2>1, <3>2, <3>3, FiniteCounts
  <2>3. CASE u # v
    <3>1. RowsOf(u)' \subseteq RowsOf(u) /\ Creating(u)' \subseteq Creating(u)
      BY <1>3, <1>4, <1>6, <2>3 DEF RowsOf, Creating, Put
    <3>2. /\ Cardinality(RowsOf(u)') + Cardinality(Creating(u)')
                <= Cardinality(RowsOf(u)) + Cardinality(Creating(u))
          /\ Cardinality(RowsOf(u)') \in Nat /\ Cardinality(Creating(u)') \in Nat
      BY <3>1, FewerRows, FiniteCounts, FS_Subset, FS_CardinalityType
    <3> QED BY <2>1, <3>2, FiniteCounts
  <2> QED BY <2>2, <2>3
<1> QED BY <1>7, <1>8, <1>9

\* The earlier rows of the user go, so that only the creating requests count.
LEMMA InvalidateRows ==
  ASSUME RowInv, NEW r \in Requests, InvalidateAll(r) PROVE RowInv'
<1> USE DEF RowInv
<1> DEFINE v == req[r].user
<1>1. PICK x : x = [req[r] EXCEPT !.pc = "renew"]
  OBVIOUS
<1>2. x \in Request /\ x.pc = "renew" /\ x.user = v /\ x.token = req[r].token
  BY <1>1 DEF TypeOK, Request
<1>3. UNCHANGED <<users, latest>> /\ req[r].pc = "invalidate"
  BY DEF InvalidateAll, At
<1>4. Put(r, x) /\ Fits(x)
  BY <1>1, <1>2, <1>3, PutFacts DEF InvalidateAll, Go, Fits, Owners
<1>5. /\ DOMAIN unused' = DOMAIN unused \ RowsOf(v)
      /\ \A t \in DOMAIN unused' : unused'[t] = unused[t]
      /\ queued' = queued \ RowsOf(v) /\ mailed' = mailed \ RowsOf(v)
  BY DEF InvalidateAll, Drop
<1>6. TypeOK'
  BY <1>3, <1>4, <1>5 DEF TypeOK, Put
<1>7. Owners'
  BY <1>3, <1>4, <1>5 DEF Owners, Put, Fits
<1>8. UnusedBounded'
  <2> SUFFICES ASSUME NEW u \in DOMAIN users
               PROVE  Cardinality(RowsOf(u)') + Cardinality(Creating(u)')
                         <= Cardinality(Requests)
    BY <1>3 DEF UnusedBounded
  <2>1. CASE u = v
    <3>1. RowsOf(u)' = {} /\ Creating(u)' \subseteq Requests
      BY <1>5, <2>1 DEF RowsOf, Creating
    <3> QED BY <3>1, RequestsAssumption, FS_EmptySet, FS_Subset, FS_CardinalityType
  <2>2. CASE u # v
    <3>1. RowsOf(u)' \subseteq RowsOf(u) /\ Creating(u)' \subseteq Creating(u)
      BY <1>2, <1>4, <1>5, <2>2 DEF RowsOf, Creating, Put
    <3>2. /\ Cardinality(RowsOf(u)') + Cardinality(Creating(u)')
                <= Cardinality(RowsOf(u)) + Cardinality(Creating(u))
          /\ Cardinality(RowsOf(u)') \in Nat /\ Cardinality(Creating(u)') \in Nat
          /\ Cardinality(Requests) \in Nat
      BY <3>1, FewerRows, FiniteCounts, RequestsAssumption, FS_Subset, FS_CardinalityType
    <3> QED BY <3>2, FiniteCounts DEF UnusedBounded
  <2> QED BY <2>1, <2>2
<1> QED BY <1>6, <1>7, <1>8
\* Time passes over all rows alike.
LEMMA TickRows ==
  ASSUME RowInv, Tick PROVE RowInv'
<1> USE DEF RowInv
<1>1. /\ UNCHANGED <<users, queued, mailed, req>> /\ DOMAIN unused' = DOMAIN unused
      /\ latest' = [u \in DOMAIN latest |-> Older(latest[u], Wait)]
  BY DEF Tick
<1>2. ASSUME NEW t \in DOMAIN unused
      PROVE  unused'[t] \in Row /\ unused'[t].user = unused[t].user
  <2>1. PICK row : row = unused[t]
    OBVIOUS
  <2>2. row \in Row
    BY <1>2, <2>1 DEF TypeOK
  <2>3. PICK age : age = Older(row.age, Life + 1)
    OBVIOUS
  <2>4. age \in 0 .. Life + 1
    BY <2>2, <2>3, TimesAssumption DEF Row, Older
  <2>5. unused'[t] = [row EXCEPT !.age = age]
    BY <1>2, <2>1, <2>3 DEF Tick
  <2> QED BY <2>1, <2>2, <2>4, <2>5 DEF Row
<1>3. latest' \in [DOMAIN users -> 0 .. Wait]
  BY <1>1, TimesAssumption DEF TypeOK, Older
<1>4. TypeOK'
  BY <1>1, <1>2, <1>3 DEF TypeOK
<1>5. Owners'
  BY <1>1, <1>2 DEF Owners
<1>6. UnusedBounded'
  <2>1. \A u : RowsOf(u)' = RowsOf(u)
    BY <1>1, <1>2 DEF RowsOf
  <2>2. \A u : Creating(u)' = Creating(u)
    BY <1>1 DEF Creating
  <2> QED BY <1>1, <2>1, <2>2 DEF UnusedBounded
<1> QED BY <1>4, <1>5, <1>6

\* Every step keeps the types, the owners of rows and the bound on unused tokens.
LEMMA RowStep ==
  ASSUME RowInv, [Next]_vars PROVE RowInv'
<1> USE DEF RowInv
<1>1. /\ Idle \in Request /\ Idle.pc = "idle"
      /\ users \in Seq(User) /\ DOMAIN users = 1 .. Len(users) /\ Len(users) \in Nat
      /\ \A t \in DOMAIN unused : unused[t] \in Row
      /\ queued \union mailed \subseteq DOMAIN unused /\ DOMAIN unused \subseteq Tokens
  BY LowerAssumption, BoundsAssumption DEF Idle, Request, TypeOK
<1>2. ASSUME NEW r \in Requests, End(r), users' \in Seq(User), Len(users') = Len(users),
             UNCHANGED <<unused, latest>>, queued' \union mailed' \subseteq DOMAIN unused
      PROVE  RowInv'
  <2>1. Put(r, Idle) /\ Fits(Idle)
    BY <1>1, <1>2, PutFacts DEF End, Fits
  <2> QED BY <1>1, <1>2, <2>1, KeepRows
<1>3. ASSUME NEW r \in Requests, StartRegister(r) PROVE RowInv'
  <2>1. PICK email \in Spellings :
          req' = [req EXCEPT ![r] = [Idle EXCEPT !.pc = "create", !.email = email,
                                                 !.seen = Len(users)]]
    BY <1>3 DEF StartRegister
  <2>2. PICK x : x = [Idle EXCEPT !.pc = "create", !.email = email, !.seen = Len(users)]
    OBVIOUS
  <2>3. x \in Request /\ x.pc = "create"
    BY <1>1, <2>2 DEF Request
  <2>4. Put(r, x) /\ Fits(x)
    BY <2>1, <2>2, <2>3, PutFacts DEF Fits
  <2> QED BY <1>1, <1>3, <2>3, <2>4, KeepRows DEF StartRegister
<1>4. ASSUME NEW r \in Requests, SendVerificationEmail(r) PROVE RowInv'
  <2>1. queued' \union mailed' \subseteq DOMAIN unused
    BY <1>1, <1>4 DEF SendVerificationEmail
  <2> QED BY <1>1, <1>2, <1>4, <2>1 DEF SendVerificationEmail
<1>5. ASSUME NEW r \in Requests, NEW u \in Users, StartResend(r, u) PROVE RowInv'
  <2>1. PICK x : x = [Idle EXCEPT !.pc = "invalidate", !.user = u]
    OBVIOUS
  <2>2. x = [pc |-> "invalidate", email |-> Lower, seen |-> 0, user |-> u, token |-> 0]
    BY <2>1 DEF Idle
  <2>3. x \in Request /\ x.pc = "invalidate" /\ x.user = u /\ x.token = 0
    BY <2>2, Signing DEF Users
  <2>4. Put(r, x) /\ Fits(x)
    BY <1>1, <1>5, <2>1, <2>3, PutFacts DEF StartResend, Fits
  <2> QED BY <1>1, <1>5, <2>3, <2>4, KeepRows DEF StartResend
<1>6. ASSUME NEW r \in Requests, NEW t \in mailed, FindToken(r, t) PROVE RowInv'
  <2>1. PICK x : x = [Idle EXCEPT !.pc = "mark", !.user = unused[t].user, !.token = t]
    OBVIOUS
  <2>2. t \in DOMAIN unused /\ t \in Tokens /\ unused[t].user \in 0 .. MaxUsers
    BY <1>1, <1>6, BoundsAssumption DEF Row, Users
  <2>3. x \in Request /\ x.pc = "mark" /\ x.user = unused[t].user
    BY <1>1, <2>1, <2>2 DEF Request
  <2>4. Put(r, x) /\ Fits(x)
    BY <1>6, <2>1, <2>2, <2>3, PutFacts DEF FindToken, Fits, Owners
  <2> QED BY <1>1, <1>6, <2>3, <2>4, KeepRows DEF FindToken
<1>7. ASSUME NEW r \in Requests, MarkUsed(r) PROVE RowInv'
  <2>1. PICK x : x = [req[r] EXCEPT !.pc = "verify"]
    OBVIOUS
  <2>2. x \in Request /\ x.pc = "verify" /\ x.user = req[r].user
    BY <2>1 DEF TypeOK, Request
  <2>3. Put(r, x) /\ Fits(x)
    BY <1>7, <2>1, <2>2, PutFacts DEF MarkUsed, Go, At, Fits, Owners
  <2>4. /\ DOMAIN unused' = DOMAIN unused \ {req[r].token}
        /\ \A t \in DOMAIN unused' : unused'[t] = unused[t]
        /\ queued' \union mailed' \subseteq DOMAIN unused'
        /\ UNCHANGED <<users, latest>>
    BY <1>1, <1>7 DEF MarkUsed, Drop
  <2> QED BY <1>1, <2>2, <2>3, <2>4, KeepRows
<1>8. ASSUME NEW r \in Requests, VerifyUser(r) PROVE RowInv'
  <2>1. users' \in Seq(User) /\ Len(users') = Len(users)
    BY <1>1, <1>8, MarkedUsers DEF VerifyUser
  <2> QED BY <1>1, <1>2, <1>8, <2>1 DEF VerifyUser
<1>9. ASSUME NEW r \in Requests, Fail(r) PROVE RowInv'
  BY <1>1, <1>2, <1>9 DEF Fail
<1>10. ASSUME NEW t \in queued, SendEmailVerificationJob(t) \/ FailedJob(t) PROVE RowInv'
  <2>1. /\ queued' \union mailed' \subseteq DOMAIN unused
        /\ UNCHANGED <<users, unused, latest, req>>
    BY <1>1, <1>10 DEF SendEmailVerificationJob, FailedJob
  <2> QED BY <2>1 DEF TypeOK, Owners, UnusedBounded, RowsOf, Creating
<1>11. CASE UNCHANGED vars
  BY <1>11 DEF vars, TypeOK, Owners, UnusedBounded, RowsOf, Creating
<1> QED BY <1>3, <1>4, <1>5, <1>6, <1>7, <1>8, <1>9, <1>10, <1>11, CreateUserRows, CreateRow,
           InvalidateRows, TickRows DEF Next

\* There are no rows at the start.
LEMMA RowInit == Init => RowInv
<1> SUFFICES ASSUME Init PROVE RowInv
  OBVIOUS
<1>1. Idle \in Request /\ Idle.pc = "idle"
  BY LowerAssumption, BoundsAssumption DEF Idle, Request
<1>2. DOMAIN users = {} /\ DOMAIN unused = {} /\ Len(users) = 0
  BY DEF Init
<1>3. users \in Seq(User) /\ latest \in [DOMAIN users -> 0 .. Wait]
  BY <1>2 DEF Init
<1>4. TypeOK
  BY <1>1, <1>2, <1>3, BoundsAssumption DEF Init, TypeOK
<1> QED BY <1>1, <1>2, <1>4 DEF Init, RowInv, Owners, UnusedBounded

\* The types of every state, for any requests and any number of users; in
\* particular there is a fresh token whenever a request signs one.
THEOREM AccountTypes == Spec => []TypeOK
<1>1. RowInv => TypeOK
  BY DEF RowInv
<1> QED BY RowInit, RowStep, <1>1, PTL DEF Spec

\* A user never has more unused tokens than there are requests in flight, however
\* resends overlap each other and the registration.
THEOREM UnusedTokensBounded == Spec => []UnusedBounded
<1>1. RowInv => UnusedBounded
  BY DEF RowInv
<1> QED BY RowInit, RowStep, <1>1, PTL DEF Spec
=============================================================================
