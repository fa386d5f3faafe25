-------------------------- MODULE PolicyStoreProofs ---------------------------
(***************************************************************************)
(* Proofs about PolicyStore, for any set of policies, any policy.csv and   *)
(* any number of requests in flight: the types, that changes are made on   *)
(* the enforcer in force, and that table, enforcer and the admins' wishes  *)
(* agree once nothing is half way.                                         *)
(***************************************************************************)
EXTENDS PolicyStore, FiniteSetTheorems, TLAPS

-----------------------------------------------------------------------------
(***************************************************************************)
(* The inductive invariant.                                                *)
(***************************************************************************)

\* What the place of a request tells of its variables: a request has no enforcer
\* before it got one, and has one while it loads or changes; removals are made by
\* requests that came to remove.
Local ==
    \A r \in Requests :
        /\ req[r].pc \in {"get", "new"} => req[r].e = null
        /\ req[r].pc \in {"read", "load", "insert", "apply", "delete", "unapply",
                          "erase", "rebuild", "write"} => req[r].e # null
        /\ req[r].pc \in {"delete", "unapply"} => req[r].kind = "remove"

Typed == TypeOK /\ Local

\* An overlap that does harm has been noted.
Noted == Conflict => conflict

\* A rule that was granted and is not in the table is about to be written, or about
\* to be withdrawn.
Owed(x) ==
    \E r \in Requests : \/ req[r].pc \in {"erase", "rebuild"}
                        \/ At(r, "write") /\ x \in req[r].rows
                        \/ At(r, "unapply") /\ req[r].rule = x

\* A row that nobody granted is about to be granted or to be wiped out.
Passing(x) == \E r \in Requests : (At(r, "apply") /\ req[r].rule = x) \/ At(r, "erase")

NothingLost   == \A x \in granted : x \in store \/ Owed(x)
NothingGained == \A x \in store : x \in granted \/ Passing(x)

\* The rows a request has read and those it is about to write.
Fetched == \A r \in Requests : At(r, "load") => req[r].rows = granted
Built   == \A r \in Requests : At(r, "write") => req[r].rows \subseteq granted

\* The enforcer in force has what was granted, or is empty and being loaded.
BeingLoaded == \E r \in Requests : /\ req[r].pc \in {"read", "load"} /\ req[r].e = enforcer
                                   /\ model[enforcer] = {}
InForce == enforcer # null /\ ~unaware => model[enforcer] = granted \/ BeingLoaded

Syncing == store = {} /\ (enforcer # null => unaware)

Agree ==
    ~conflict => /\ script = "write" => Syncing
                 /\ script = "idle" => /\ NothingLost /\ NothingGained
                                       /\ Fetched /\ Built
                 /\ InForce

IInv == Typed /\ Noted /\ ChangesReachEnforcer /\ Agree

-----------------------------------------------------------------------------
(***************************************************************************)
(* Types.                                                                  *)
(***************************************************************************)

\* There is always an enforcer that nothing refers to: all other requests and the
\* module variable refer to fewer enforcers than there are.
LEMMA SpareEnforcer ==
  ASSUME Typed, NEW r \in Requests, At(r, "new")
  PROVE  \E x \in Enforcers : x \notin Referenced
<1> SUFFICES ASSUME Enforcers \subseteq Referenced PROVE FALSE
  OBVIOUS
<1> DEFINE f == [q \in Requests |-> IF q = r THEN enforcer ELSE req[q].e]
           T == {f[q] : q \in Requests}
<1>1. IsFiniteSet(T) /\ Cardinality(T) <= Cardinality(Requests)
  <2>1. f \in Surjection(Requests, T)
    BY DEF Surjection
  <2> HIDE DEF f, T
  <2> QED BY <2>1, RequestsAssumption, FS_Surjection
<1>2. Cardinality(Requests) \in Nat
  BY RequestsAssumption, FS_CardinalityType
<1>3. IsFiniteSet(Enforcers) /\ Cardinality(Enforcers) = Cardinality(Requests) + 1
  <2>1. 1 <= Cardinality(Requests) + 1 /\ 1 \in Int /\ Cardinality(Requests) + 1 \in Int
    BY <1>2
  <2> QED BY <1>2, <2>1, FS_Interval DEF Enforcers
<1>4. Enforcers \subseteq T
  <2>1. req[r].e = null /\ null \notin Enforcers
    BY DEF Typed, Local, At, null, Enforcers
  <2> SUFFICES ASSUME NEW x \in Enforcers PROVE x \in T
    OBVIOUS
  <2>2. x = enforcer \/ \E q \in Requests : x = req[q].e
    BY DEF Referenced
  <2>3. CASE x = enforcer
    <3>1. f[r] = enforcer
      OBVIOUS
    <3> QED BY <2>3, <3>1
  <2>4. CASE \E q \in Requests : x = req[q].e
    <3>1. PICK q \in Requests : x = req[q].e
      BY <2>4
    <3>2. q # r
      BY <2>1, <3>1
    <3>3. f[q] = x
      BY <3>1, <3>2
    <3> QED BY <3>3
  <2> QED BY <2>2, <2>3, <2>4
<1>5. Cardinality(T) \in Nat /\ Cardinality(Enforcers) <= Cardinality(T)
  <2> HIDE DEF T
  <2> QED BY <1>1, <1>4, FS_Subset, FS_CardinalityType
<1> QED BY <1>1, <1>2, <1>3, <1>5

\* The variables of one request change, the others stay as they are.
Put(r, x) ==
    /\ x \in Request
    /\ req' \in [Requests -> Request] /\ req'[r] = x
    /\ \A q \in Requests \ {r} : req'[q] = req[q]

\* Replacing the record of one request leaves the others alone.
LEMMA PutFacts ==
  ASSUME Typed, NEW r \in Requests, NEW x \in Request, req' = [req EXCEPT ![r] = x]
  PROVE  Put(r, x)
BY DEF Typed, TypeOK, Put

\* An admin request that arrives has no enforcer and is not admitted yet.
LEMMA Began ==
  ASSUME Typed, NEW r \in Requests, Arrive(r)
  PROVE  \E x : Put(r, x) /\ x.pc = "get" /\ x.e = null /\ ~x.admitted
<1>1. PICK kind \in Kinds, rule \in Rules :
        req' = [req EXCEPT ![r] = [Idle EXCEPT !.pc = "get", !.kind = kind, !.rule = rule]]
  BY DEF Arrive
<1> DEFINE x == [Idle EXCEPT !.pc = "get", !.kind = kind, !.rule = rule]
<1>2. x \in Request /\ x.pc = "get" /\ x.e = null /\ ~x.admitted
  BY DEF Idle, Request, AllRules
<1>3. Put(r, x)
  BY <1>1, <1>2, PutFacts
<1> QED BY <1>2, <1>3
\* What each step does to the variables of its request.
LEMMA Got ==
  ASSUME Typed, NEW r \in Requests, GetEnforcer(r)
  PROVE  /\ Put(r, req'[r]) /\ req'[r].pc \in {"new", "got"}
         /\ req'[r].pc = "new" => req'[r].e = null
         /\ req'[r].pc = "got" => req'[r].e = enforcer
<1>1. CASE Go(r, "new")
  <2> DEFINE x == [req[r] EXCEPT !.pc = "new"]
  <2>1. x \in Request /\ x.pc = "new" /\ x.e = null
    BY DEF Typed, TypeOK, Request, Local, GetEnforcer, At
  <2> QED BY <1>1, <2>1, PutFacts DEF Go, Put
<1>2. CASE req' = [req EXCEPT ![r] = [@ EXCEPT !.pc = "got", !.e = enforcer]]
  <2> DEFINE x == [req[r] EXCEPT !.pc = "got", !.e = enforcer]
  <2>1. x \in Request /\ x.pc = "got" /\ x.e = enforcer
    BY DEF Typed, TypeOK, Request
  <2> QED BY <1>2, <2>1, PutFacts DEF Put
<1> QED BY <1>1, <1>2 DEF GetEnforcer

\* A new enforcer is empty, in force, and about to be loaded by who made it.
LEMMA Created ==
  ASSUME Typed, NEW r \in Requests, NewEnforcer(r)
  PROVE  /\ Put(r, req'[r]) /\ req'[r].pc = "read" /\ req'[r].e = enforcer'
         /\ enforcer' \in Enforcers /\ enforcer' # null
         /\ model' = [model EXCEPT ![enforcer'] = {}]
<1> DEFINE e == CHOOSE x \in Enforcers : x \notin Referenced
           y == [req[r] EXCEPT !.pc = "read", !.e = e]
<1>1. e \in Enforcers /\ e # null
  BY SpareEnforcer DEF NewEnforcer, Enforcers, null
<1>2. enforcer' = e /\ req' = [req EXCEPT ![r] = y] /\ model' = [model EXCEPT ![e] = {}]
  BY DEF NewEnforcer
<1> HIDE DEF e
<1>3. y \in Request /\ y.pc = "read" /\ y.e = e
  BY <1>1 DEF Typed, TypeOK, Request
<1> QED BY <1>1, <1>2, <1>3, PutFacts DEF Put

\* A load has read the rows the table has now.
LEMMA Found ==
  ASSUME Typed, NEW r \in Requests, FindMany(r)
  PROVE  /\ Put(r, req'[r]) /\ req'[r].pc = "load" /\ req'[r].rows = store
         /\ req'[r].e = req[r].e
<1> DEFINE x == [req[r] EXCEPT !.pc = "load", !.rows = store]
<1>1. x \in Request /\ x.pc = "load" /\ x.rows = store /\ x.e = req[r].e
  BY DEF Typed, TypeOK, Request
<1>2. req' = [req EXCEPT ![r] = x]
  BY DEF FindMany
<1> QED BY <1>1, <1>2, PutFacts DEF Put

\* The request that has loaded the enforcer goes on with the one in force.
LEMMA Loaded ==
  ASSUME Typed, NEW r \in Requests, LoadPolicy(r)
  PROVE  /\ Put(r, req'[r]) /\ req'[r].pc = "got" /\ req'[r].e = enforcer
         /\ req'[r].admitted = req[r].admitted /\ req'[r].kind = req[r].kind
<1> DEFINE x == [req[r] EXCEPT !.pc = "got", !.e = enforcer, !.rows = {}]
<1>1. /\ x \in Request /\ x.pc = "got" /\ x.e = enforcer
      /\ x.admitted = req[r].admitted /\ x.kind = req[r].kind
  BY DEF Typed, TypeOK, Request
<1>2. req' = [req EXCEPT ![r] = x]
  BY DEF LoadPolicy
<1> QED BY <1>1, <1>2, PutFacts DEF Put

\* A request enters getEnforcer, or starts a new one, with no enforcer in hand.
LEMMA Entered ==
  ASSUME Typed, NEW r \in Requests, NEW pc \in {"get", "new"}, Enter(r, pc)
  PROVE  Put(r, req'[r]) /\ req'[r].pc = pc /\ req'[r].e = null
<1> DEFINE x == [req[r] EXCEPT !.pc = pc, !.admitted = TRUE, !.e = null]
<1>1. x \in Request /\ x.pc = pc /\ x.e = null
  BY DEF Typed, TypeOK, Request
<1>2. req' = [req EXCEPT ![r] = x]
  BY DEF Enter
<1> QED BY <1>1, <1>2, PutFacts DEF Put

\* A request that ends leaves its slot idle.
LEMMA Ended ==
  ASSUME Typed, NEW r \in Requests, End(r)
  PROVE  Put(r, req'[r]) /\ req'[r].pc = "idle"
<1>1. Idle \in Request /\ Idle.pc = "idle"
  BY DEF Idle, Request, AllRules, Kinds
<1> QED BY <1>1, PutFacts DEF Put, End

\* Going to the next call changes nothing else in the request.
LEMMA Went ==
  ASSUME Typed, NEW r \in Requests,
         NEW pc \in {"insert", "apply", "delete", "unapply", "rebuild"}, Go(r, pc)
  PROVE  /\ Put(r, req'[r]) /\ req'[r].pc = pc /\ req'[r].kind = req[r].kind
         /\ req'[r].rule = req[r].rule /\ req'[r].e = req[r].e
<1> DEFINE x == [req[r] EXCEPT !.pc = pc]
<1>1. /\ x \in Request /\ x.pc = pc /\ x.kind = req[r].kind
      /\ x.rule = req[r].rule /\ x.e = req[r].e
  BY DEF Typed, TypeOK, Request
<1>2. req' = [req EXCEPT ![r] = x]
  BY DEF Go
<1> QED BY <1>1, <1>2, PutFacts DEF Put

\* The step to a new place with rows that were built from a model.
LEMMA Carried ==
  ASSUME Typed, NEW r \in Requests, NEW pc \in {"erase", "write"},
         NEW rows \in SUBSET AllRules,
         req' = [req EXCEPT ![r] = [@ EXCEPT !.pc = pc, !.rows = rows]]
  PROVE  /\ Put(r, req'[r]) /\ req'[r].pc = pc /\ req'[r].rows = rows
         /\ req'[r].e = req[r].e
<1> DEFINE x == [req[r] EXCEPT !.pc = pc, !.rows = rows]
<1>1. x \in Request /\ x.pc = pc /\ x.rows = rows /\ x.e = req[r].e
  BY DEF Typed, TypeOK, Request
<1> QED BY <1>1, PutFacts DEF Put
\* A rule that was added is in the model, and granted.
LEMMA Applied ==
  ASSUME Typed, NEW r \in Requests, Apply(r), ~Has(r, req[r].rule)
  PROVE  /\ Put(r, req'[r]) /\ req'[r].pc = "erase" /\ req'[r].e = req[r].e
         /\ model' = [model EXCEPT ![req[r].e] = @ \union {req[r].rule}]
         /\ granted' = granted \union {req[r].rule}
<1>1. /\ model' = [model EXCEPT ![req[r].e] = @ \union {req[r].rule}]
      /\ granted' = granted \union {req[r].rule}
      /\ req' = [req EXCEPT ![r] = [@ EXCEPT !.pc = "erase", !.rows = model'[req[r].e]]]
  BY DEF Apply
<1>2. req[r].e \in Enforcers /\ req[r].rule \in AllRules
  BY DEF Typed, TypeOK, Local, Request, Apply, At, null
<1>3. model'[req[r].e] \in SUBSET AllRules
  BY <1>1, <1>2 DEF Typed, TypeOK
<1> QED BY <1>1, <1>3, Carried

\* A rule that was removed is out of the model, and granted no more.
LEMMA Unapplied ==
  ASSUME Typed, NEW r \in Requests, Unapply(r), Has(r, req[r].rule)
  PROVE  /\ Put(r, req'[r]) /\ req'[r].pc = "erase" /\ req'[r].e = req[r].e
         /\ model' = [model EXCEPT ![req[r].e] = @ \ {req[r].rule}]
         /\ granted' = granted \ {req[r].rule}
<1>1. /\ model' = [model EXCEPT ![req[r].e] = @ \ {req[r].rule}]
      /\ granted' = granted \ {req[r].rule}
      /\ req' = [req EXCEPT ![r] = [@ EXCEPT !.pc = "erase", !.rows = model'[req[r].e]]]
  BY DEF Unapply
<1>2. req[r].e \in Enforcers /\ req[r].rule \in AllRules
  BY DEF Typed, TypeOK, Local, Request, Unapply, At, null
<1>3. model'[req[r].e] \in SUBSET AllRules
  BY <1>1, <1>2 DEF Typed, TypeOK
<1> QED BY <1>1, <1>3, Carried

\* savePolicy will write the rows its enforcer's model has.
LEMMA Rebuilt ==
  ASSUME Typed, NEW r \in Requests, Rebuild(r)
  PROVE  /\ Put(r, req'[r]) /\ req'[r].pc = "write" /\ req'[r].rows = model[req[r].e]
         /\ req'[r].e = req[r].e
<1>1. req[r].e \in Enforcers
  BY DEF Typed, TypeOK, Local, Request, Rebuild, At, null
<1>2. model[req[r].e] \in SUBSET AllRules
  BY <1>1 DEF Typed, TypeOK
<1> QED BY <1>2, Carried DEF Rebuild

-----------------------------------------------------------------------------
\* A step of one request keeps the types when its variables still fit its place.
LEMMA PutTyped ==
  ASSUME Typed, NEW r \in Requests, NEW x, Put(r, x),
         x.pc \in {"get", "new"} => x.e = null,
         x.pc \in {"read", "load", "insert", "apply", "delete", "unapply",
                   "erase", "rebuild", "write"} => x.e # null,
         x.pc \in {"delete", "unapply"} => x.kind = "remove",
         store' \subseteq AllRules, granted' \subseteq AllRules,
         enforcer' \in Enforcers \union {null}, model' \in [Enforcers -> SUBSET AllRules],
         script' \in {"idle", "write"}, unaware' \in BOOLEAN
  PROVE  conflict' \in BOOLEAN => Typed'
<1>1. Local'
  BY DEF Typed, Local, Put
<1> QED BY <1>1 DEF Typed, TypeOK, Put

\* A step of a request keeps the types.
LEMMA RequestTyped ==
  ASSUME Typed, NEW r \in Requests,
         (Step(r) /\ UNCHANGED sync) \/ Reload(r) \/ (Fail(r) /\ UNCHANGED sync)
  PROVE  conflict' \in BOOLEAN => Typed'
<1> USE DEF At, table, sync, vars
<1>1. /\ store \subseteq AllRules /\ granted \subseteq AllRules
      /\ enforcer \in Enforcers \union {null}
      /\ model \in [Enforcers -> SUBSET AllRules]
      /\ script \in {"idle", "write"} /\ unaware \in BOOLEAN
      /\ req[r] \in Request
  BY DEF Typed, TypeOK
<1>2. /\ req[r].rule \in AllRules /\ req[r].rows \subseteq AllRules
      /\ req[r].e \in Enforcers \union {null}
  BY <1>1 DEF Request
<1>3. CASE (Step(r) /\ UNCHANGED sync)
  <2>1. CASE Arrive(r)
    <3>1. PICK x : Put(r, x) /\ x.pc = "get" /\ x.e = null
      BY <2>1, Began
    <3> QED BY <1>1, <1>3, <2>1, <3>1, PutTyped DEF Arrive
  <2>2. CASE GetEnforcer(r)
    BY <1>1, <1>3, <2>2, Got, PutTyped DEF GetEnforcer
  <2>3. CASE NewEnforcer(r)
    <3>1. model' \in [Enforcers -> SUBSET AllRules]
      BY <1>1, <2>3, Created
    <3> QED BY <1>1, <1>3, <2>3, <3>1, Created, PutTyped DEF NewEnforcer
  <2>4. CASE FindMany(r)
    <3>1. req[r].e # null
      BY <2>4 DEF FindMany, Typed, Local
    <3> QED BY <1>1, <1>3, <2>4, <3>1, Found, PutTyped DEF FindMany
  <2>5. CASE LoadPolicy(r)
    <3>1. model' \in [Enforcers -> SUBSET AllRules]
      BY <1>1, <1>2, <2>5 DEF LoadPolicy
    <3> QED BY <1>1, <1>3, <2>5, <3>1, Loaded, PutTyped DEF LoadPolicy
  <2>6. CASE Admit(r)
    BY <1>1, <1>3, <2>6, Entered, PutTyped DEF Admit
  <2>7. CASE Answer(r)
    BY <1>1, <1>3, <2>7, Ended, PutTyped DEF Answer
  <2>8. CASE Change(r)
    BY <1>1, <1>3, <2>8, Went, PutTyped DEF Change
  <2>9. CASE Insert(r)
    <3>1. req[r].e # null
      BY <2>9 DEF Insert, Typed, Local
    <3> QED BY <1>1, <1>2, <1>3, <2>9, <3>1, Went, PutTyped DEF Insert
  <2>10. CASE Apply(r)
    <3>1. CASE Has(r, req[r].rule)
      BY <1>1, <1>3, <2>10, <3>1, Ended, PutTyped DEF Apply
    <3>2. CASE ~Has(r, req[r].rule)
      <4>1. model' \in [Enforcers -> SUBSET AllRules] /\ granted' \subseteq AllRules
        BY <1>1, <1>2, <2>10, <3>2, Applied
      <4>2. req[r].e # null
        BY <2>10 DEF Apply, Typed, Local
      <4> QED BY <1>1, <1>3, <2>10, <3>2, <4>1, <4>2, Applied, PutTyped DEF Apply
    <3> QED BY <3>1, <3>2
  <2>11. CASE Delete(r)
    <3>1. req[r].e # null /\ req[r].kind = "remove"
      BY <2>11 DEF Delete, Typed, Local
    <3> QED BY <1>1, <1>2, <1>3, <2>11, <3>1, Went, PutTyped DEF Delete
  <2>12. CASE Unapply(r)
    <3>1. CASE ~Has(r, req[r].rule)
      BY <1>1, <1>3, <2>12, <3>1, Ended, PutTyped DEF Unapply
    <3>2. CASE Has(r, req[r].rule)
      <4>1. model' \in [Enforcers -> SUBSET AllRules] /\ granted' \subseteq AllRules
        BY <1>1, <1>2, <2>12, <3>2, Unapplied
      <4>2. req[r].e # null
        BY <2>12 DEF Unapply, Typed, Local
      <4> QED BY <1>1, <1>3, <2>12, <3>2, <4>1, <4>2, Unapplied, PutTyped DEF Unapply
    <3> QED BY <3>1, <3>2
  <2>13. CASE Erase(r)
    <3>1. req[r].e # null
      BY <2>13 DEF Erase, Typed, Local
    <3> QED BY <1>1, <1>3, <2>13, <3>1, Went, PutTyped DEF Erase
  <2>14. CASE Rebuild(r)
    <3>1. req[r].e # null
      BY <2>14 DEF Rebuild, Typed, Local
    <3> QED BY <1>1, <1>3, <2>14, <3>1, Rebuilt, PutTyped DEF Rebuild
  <2>15. CASE Write(r)
    BY <1>1, <1>2, <1>3, <2>15, Ended, PutTyped DEF Write
  <2> QED BY <1>3, <2>1, <2>2, <2>3, <2>4, <2>5, <2>6, <2>7, <2>8, <2>9, <2>10, <2>11,
             <2>12, <2>13, <2>14, <2>15 DEF Step
<1>4. CASE Reload(r)
  BY <1>1, <1>4, Entered, PutTyped DEF Reload
<1>5. CASE Fail(r) /\ UNCHANGED sync
  BY <1>1, <1>5, Ended, PutTyped DEF Fail
<1> QED BY <1>3, <1>4, <1>5

\* The types hold at the start.
LEMMA InitTyped == Init => Typed
<1> SUFFICES ASSUME Init PROVE Typed
  OBVIOUS
<1>1. Idle \in Request /\ Idle.pc = "idle"
  BY DEF Idle, Request, AllRules, Kinds
<1> QED BY <1>1, CsvAssumption DEF Init, Typed, TypeOK, Local, AllRules

\* Every step keeps the types.
LEMMA StepTyped == Typed /\ [Next]_vars => Typed'
<1> SUFFICES ASSUME Typed, [Next]_vars PROVE Typed'
  OBVIOUS
<1>1. ASSUME NEW r \in Requests,
             (Step(r) /\ UNCHANGED sync) \/ Reload(r),
             conflict' = (conflict \/ Conflict')
      PROVE  Typed'
  <2>1. conflict' \in BOOLEAN
    BY <1>1 DEF Typed, TypeOK, Conflict
  <2> QED BY <1>1, <2>1, RequestTyped
<1>2. ASSUME NEW r \in Requests, Fail(r) PROVE Typed'
  <2>1. conflict' \in BOOLEAN
    BY <1>2 DEF Typed, TypeOK, Fail, HalfWay
  <2>2. UNCHANGED sync
    BY <1>2 DEF Fail
  <2> QED BY <1>2, <2>1, <2>2, RequestTyped
<1>3. CASE (SyncErase \/ SyncWrite) /\ conflict' = (conflict \/ Conflict')
  <2>1. conflict' \in BOOLEAN
    BY <1>3 DEF Typed, TypeOK, Conflict
  <2>2. Local'
    BY <1>3 DEF Typed, Local, SyncErase, SyncWrite
  <2> QED BY <1>3, <2>1, <2>2, CsvAssumption
          DEF Typed, TypeOK, SyncErase, SyncWrite, AllRules
<1>4. CASE FailSync
  BY <1>4 DEF Typed, TypeOK, Local, FailSync, table
<1>5. CASE Restart
  <2>1. Idle \in Request /\ Idle.pc = "idle"
    BY DEF Idle, Request, AllRules, Kinds
  <2>2. conflict' \in BOOLEAN
    BY <1>5 DEF Typed, TypeOK, Restart
  <2> QED BY <1>5, <2>1, <2>2 DEF Typed, TypeOK, Local, Restart, table
<1>6. CASE UNCHANGED vars
  BY <1>6 DEF Typed, TypeOK, Local, vars, sync
<1> QED BY <1>1, <1>2, <1>3, <1>4, <1>5, <1>6 DEF Next

\* The types of every state, for any requests and any policies.
THEOREM PolicyTypes == Spec => []TypeOK
<1>1. Typed => TypeOK
  BY DEF Typed
<1> QED BY InitTyped, StepTyped, <1>1, PTL DEF Spec

-----------------------------------------------------------------------------
(***************************************************************************)
(* Overlaps and the enforcer in force.                                     *)
(***************************************************************************)
LEMMA StepNoted == Noted /\ [Next]_vars => Noted'
<1> SUFFICES ASSUME Noted, [Next]_vars PROVE Noted'
  OBVIOUS
<1> USE DEF Noted
<1>1. CASE conflict' = (conflict \/ Conflict')
  BY <1>1
<1>2. CASE \E r \in Requests : Fail(r)
  <2>1. PICK r \in Requests : Fail(r)
    BY <1>2
  <2>2. \A q \in Requests : (Loading(q)' => Loading(q) /\ req'[q] = req[q])
                          /\ (Changing(q)' => Changing(q) /\ req'[q] = req[q])
    BY <2>1 DEF Fail, End, Idle, Loading, Changing, At
  <2>3. Conflict' => Conflict
    BY <2>1, <2>2 DEF Conflict, Fail, sync
  <2> QED BY <2>1, <2>3 DEF Fail
<1>3. CASE FailSync
  BY <1>3 DEF FailSync
<1>4. CASE Restart
  BY <1>4 DEF Restart, Conflict, Loading, Changing, At, Idle
<1>5. CASE UNCHANGED vars
  <2>1. Conflict' => Conflict
    BY <1>5 DEF vars, sync, Conflict, Loading, Changing, At
  <2> QED BY <1>5, <2>1 DEF vars
<1> QED BY <1>1, <1>2, <1>3, <1>4, <1>5 DEF Next

\* A request that begins to load while another changes is an overlap.
LEMMA LoadOverlaps ==
  ASSUME NEW r \in Requests, Loading(r)', ~Conflict'
  PROVE  /\ \A q \in Requests : ~Changing(q)'
         /\ script' # "write"
BY DEF Conflict, Loading, Changing, At

\* Without an overlap, the change of a request that has an enforcer is made on the
\* enforcer in force, which has what was granted, and nobody loads, syncs or
\* removes meanwhile.
LEMMA Undisturbed ==
  ASSUME IInv, ~conflict, NEW r \in Requests, Changing(r)
  PROVE  /\ script = "idle" /\ ~unaware /\ req[r].e = enforcer
         /\ \A q \in Requests : ~Loading(q)
         /\ \A q \in Requests : q # r /\ Changing(q) =>
                                    "remove" \notin {req[r].kind, req[q].kind}
         /\ enforcer # null => model[enforcer] = granted
<1>1. ~Conflict /\ script \in {"idle", "write"}
  BY DEF IInv, Noted, Typed, TypeOK
<1>2. \A q \in Requests : ~Loading(q)
  <2>1. ~Loading(r)
    BY DEF Loading, Changing, At
  <2> QED BY <1>1, <2>1 DEF Conflict
<1>3. script = "idle" /\ ~unaware
  BY <1>1 DEF Conflict
<1>4. \A q \in Requests : q # r /\ Changing(q) => "remove" \notin {req[r].kind, req[q].kind}
  BY <1>1 DEF Conflict
<1>5. req[r].e = enforcer
  BY DEF IInv, ChangesReachEnforcer
<1>6. enforcer # null => model[enforcer] = granted
  BY <1>2, <1>3 DEF IInv, Agree, InForce, BeingLoaded, Loading
<1> QED BY <1>2, <1>3, <1>4, <1>5, <1>6

\* A change that is being applied stays with the enforcer in force, or the step
\* that replaces the enforcer is a conflict.
LEMMA StepReaches ==
  ASSUME Typed, Noted, ChangesReachEnforcer, [Next]_vars PROVE ChangesReachEnforcer'
<1> SUFFICES ASSUME NEW q \in Requests, Changing(q)', ~conflict'
             PROVE  req'[q].e = enforcer'
  BY DEF ChangesReachEnforcer
<1> USE DEF ChangesReachEnforcer
\* The request itself steps: it was changing, or it has just got an enforcer.
<1>1. ASSUME NEW r \in Requests, Put(r, req'[r]), UNCHANGED enforcer, ~conflict,
             req'[r].e = enforcer \/ ~Changing(r)' \/ (Changing(r) /\ req'[r].e = req[r].e)
      PROVE  req'[q].e = enforcer'
  <2>1. CASE q = r
    BY <1>1, <2>1
  <2>2. CASE q # r
    BY <1>1, <2>2 DEF Put, Changing, At
  <2> QED BY <2>1, <2>2
<1>2. ASSUME NEW r \in Requests,
             (Step(r) /\ UNCHANGED sync) \/ Reload(r), conflict' = (conflict \/ Conflict')
      PROVE  req'[q].e = enforcer'
  <2> USE <1>2
  <2>1. CASE Arrive(r)
    <3>1. PICK x : Put(r, x) /\ x.pc = "get"
      BY <2>1, Began
    <3> QED BY <1>1, <2>1, <3>1 DEF Arrive, Put, Changing, At
  <2>2. CASE GetEnforcer(r)
    BY <1>1, <2>2, Got DEF GetEnforcer, Changing, At
  <2>3. CASE NewEnforcer(r)
    BY <2>3, Created, LoadOverlaps DEF Loading
  <2>4. CASE FindMany(r)
    BY <2>4, Found, LoadOverlaps DEF Loading
  <2>5. CASE LoadPolicy(r)
    BY <1>1, <2>5, Loaded DEF LoadPolicy
  <2>6. CASE Admit(r)
    BY <1>1, <2>6, Entered DEF Admit, Changing, At
  <2>7. CASE Answer(r)
    BY <1>1, <2>7, Ended DEF Answer, Changing, At
  <2>8. CASE Change(r)
    BY <1>1, <2>8, Went DEF Change, Changing, At
  <2>9. CASE Insert(r)
    BY <1>1, <2>9, Went DEF Insert, Changing, At
  <2>10. CASE Apply(r)
    <3>1. CASE Has(r, req[r].rule)
      BY <1>1, <2>10, <3>1, Ended DEF Apply, Changing, At
    <3>2. CASE ~Has(r, req[r].rule)
      BY <1>1, <2>10, <3>2, Applied DEF Apply, Changing, At
    <3> QED BY <3>1, <3>2
  <2>11. CASE Delete(r)
    BY <1>1, <2>11, Went DEF Delete, Changing, At
  <2>12. CASE Unapply(r)
    <3>1. CASE ~Has(r, req[r].rule)
      BY <1>1, <2>12, <3>1, Ended DEF Unapply, Changing, At
    <3>2. CASE Has(r, req[r].rule)
      BY <1>1, <2>12, <3>2, Unapplied DEF Unapply, Changing, At
    <3> QED BY <3>1, <3>2
  <2>13. CASE Erase(r)
    BY <1>1, <2>13, Went DEF Erase, Changing, At
  <2>14. CASE Rebuild(r)
    BY <1>1, <2>14, Rebuilt DEF Rebuild, Changing, At
  <2>15. CASE Write(r)
    BY <1>1, <2>15, Ended DEF Write, Changing, At
  <2>16. CASE Reload(r)
    BY <2>16, Entered, LoadOverlaps DEF Reload, Loading
  <2> QED BY <2>1, <2>2, <2>3, <2>4, <2>5, <2>6, <2>7, <2>8, <2>9, <2>10, <2>11,
             <2>12, <2>13, <2>14, <2>15, <2>16 DEF Step
<1>3. CASE \E r \in Requests : Fail(r)
  BY <1>1, <1>3, Ended DEF Fail, Changing, At
<1>4. CASE (SyncErase \/ SyncWrite) /\ conflict' = (conflict \/ Conflict')
  BY <1>4 DEF SyncErase, SyncWrite, Changing, At
<1>5. CASE FailSync
  BY <1>5 DEF FailSync
<1>6. CASE Restart
  BY <1>6 DEF Restart, Changing, At, Idle
<1>7. CASE UNCHANGED vars
  BY <1>7 DEF vars, sync, Changing, At
<1> QED BY <1>2, <1>3, <1>4, <1>5, <1>6, <1>7 DEF Next

\* For any requests and any policies: a change is made on the enforcer that
\* decides from then on, unless a load overlapped the change.
THEOREM ChangesReach == Spec => []ChangesReachEnforcer
<1>1. Init => Typed /\ Noted /\ ChangesReachEnforcer
  BY InitTyped DEF Init, Noted, Conflict, ChangesReachEnforcer, Loading, Changing, At, Idle
<1>2. Typed /\ Noted /\ ChangesReachEnforcer /\ [Next]_vars
        => (Typed /\ Noted /\ ChangesReachEnforcer)'
  BY StepTyped, StepNoted, StepReaches
<1> QED BY <1>1, <1>2, PTL DEF Spec
-----------------------------------------------------------------------------
(***************************************************************************)
(* Agreement, step by step, for steps after which no harm has been noted.  *)
(***************************************************************************)

\* While somebody loads, nothing is half way in the table.
LEMMA LoadingSettled ==
  ASSUME IInv, ~conflict, NEW r \in Requests, Loading(r)
  PROVE  script = "idle" /\ store = granted /\ \A q \in Requests : ~Changing(q)
<1>1. ~Conflict /\ script \in {"idle", "write"}
  BY DEF IInv, Noted, Typed, TypeOK
<1>2. script = "idle" /\ \A q \in Requests : ~Changing(q)
  <2>1. ~Changing(r)
    BY DEF Loading, Changing, At
  <2> QED BY <1>1, <2>1 DEF Conflict
<1>3. \A x : ~Owed(x) /\ ~Passing(x)
  BY <1>2 DEF Owed, Passing, Changing, At
<1>4. store \subseteq granted /\ granted \subseteq store
  BY <1>2, <1>3 DEF IInv, Agree, NothingLost, NothingGained
<1> QED BY <1>2, <1>4

\* A step of a request that has nothing half way and touches nothing shared.
LEMMA Elsewhere ==
  ASSUME IInv, ~conflict, NEW r \in Requests, NEW x, Put(r, x), ~HalfWay(r),
         x.pc \notin {"load", "write"}, UNCHANGED <<table, enforcer, model, sync>>
  PROVE  Agree'
<1> USE DEF IInv, Agree, table, sync
<1>1. \A q \in Requests : \/ q # r /\ req'[q] = req[q]
                          \/ q = r /\ req'[q].pc \notin {"load", "write"}
                                   /\ ~HalfWay(q)
  BY DEF Put
<1>2. \A y : (Owed(y) => Owed(y)') /\ (Passing(y) => Passing(y)')
  BY <1>1 DEF Owed, Passing, HalfWay, At
<1>3. (NothingLost => NothingLost') /\ (NothingGained => NothingGained')
  BY <1>2 DEF NothingLost, NothingGained
<1>4. (Fetched => Fetched') /\ (Built => Built')
  BY <1>1 DEF Fetched, Built, At
<1>5. InForce'
  BY <1>1 DEF InForce, BeingLoaded, HalfWay
<1> QED BY <1>3, <1>4, <1>5 DEF Syncing

\* A reload puts an empty enforcer in force, which the reload is about to load.
LEMMA ReloadAgrees ==
  ASSUME IInv, ~conflict, NEW r \in Requests, Reload(r), ~Conflict' PROVE Agree'
<1>1. Put(r, req'[r]) /\ req'[r].pc = "new" /\ req[r].pc = "got"
  BY Entered DEF Reload, IInv, Admitted, At
<1>2. script' # "write" /\ UNCHANGED <<table, model, script>> /\ enforcer' = null
  BY <1>1, LoadOverlaps DEF Reload, Loading
<1>3. \A q \in Requests : \/ q # r /\ req'[q] = req[q]
                          \/ q = r /\ req'[q].pc = "new" /\ ~HalfWay(q)
  BY <1>1 DEF Put, HalfWay
<1>4. \A y : (Owed(y) => Owed(y)') /\ (Passing(y) => Passing(y)')
  BY <1>3 DEF Owed, Passing, HalfWay, At
<1>5. (NothingLost => NothingLost') /\ (NothingGained => NothingGained')
  BY <1>2, <1>4 DEF NothingLost, NothingGained, table
<1>6. (Fetched => Fetched') /\ (Built => Built')
  BY <1>2, <1>3 DEF Fetched, Built, At, table
<1> QED BY <1>2, <1>5, <1>6 DEF IInv, Agree, InForce

\* The steps of a load: the table is settled, so that what is read is what was
\* granted.
LEMMA LoadAgrees ==
  ASSUME IInv, ~conflict, ~Conflict', NEW r \in Requests, UNCHANGED sync,
         NewEnforcer(r) \/ FindMany(r) \/ LoadPolicy(r)
  PROVE  Agree'
<1> USE DEF IInv
<1>1. Loading(r)
  BY DEF NewEnforcer, FindMany, LoadPolicy, Loading, At
<1>2. script = "idle" /\ store = granted /\ UNCHANGED <<table, sync>>
  BY <1>1, LoadingSettled DEF NewEnforcer, FindMany, LoadPolicy
<1>3. /\ req' \in [Requests -> Request] /\ req'[r].pc # "write"
      /\ \A q \in Requests \ {r} : req'[q] = req[q]
  BY Created, Found, Loaded DEF Put
<1>4. NothingLost' /\ NothingGained'
  BY <1>2 DEF NothingLost, NothingGained, table
<1>5. Fetched'
  <2>1. At(r, "load")' => req'[r].rows = store
    BY Created, Found, Loaded DEF At
  <2> QED BY <1>2, <1>3, <2>1 DEF Fetched, At, Agree, table
<1>6. Built'
  BY <1>2, <1>3 DEF Built, At, Agree, table
<1>7. InForce'
  <2>1. CASE NewEnforcer(r)
    <3>1. /\ req'[r].pc = "read" /\ req'[r].e = enforcer'
          /\ enforcer' \in Enforcers /\ model' = [model EXCEPT ![enforcer'] = {}]
      BY <2>1, Created
    <3>2. model'[enforcer'] = {}
      BY <3>1 DEF Typed, TypeOK
    <3> QED BY <3>1, <3>2 DEF InForce, BeingLoaded
  <2>2. CASE FindMany(r)
    <3>1. UNCHANGED <<enforcer, model>> /\ req'[r].pc = "load" /\ req'[r].e = req[r].e
      BY <2>2, Found DEF FindMany
    <3>2. BeingLoaded => BeingLoaded'
      BY <1>3, <3>1 DEF BeingLoaded
    <3> QED BY <1>2, <3>1, <3>2 DEF InForce, Agree, table, sync
  <2>3. CASE LoadPolicy(r)
    <3>1. UNCHANGED enforcer /\ model' = [model EXCEPT ![req[r].e] = @ \union granted]
      BY <1>2, <2>3 DEF LoadPolicy, Agree, Fetched
    <3>2. CASE req[r].e = enforcer /\ enforcer # null /\ ~unaware
      <4>1. model[enforcer] \in {granted, {}} /\ enforcer \in Enforcers
        BY <3>2 DEF Agree, InForce, BeingLoaded, Typed, TypeOK
      <4>2. model'[enforcer] = granted
        BY <3>1, <3>2, <4>1 DEF Typed, TypeOK
      <4> QED BY <1>2, <3>1, <4>2 DEF InForce, table
    <3>3. CASE req[r].e # enforcer
      <4>1. enforcer # null => model'[enforcer] = model[enforcer]
        BY <3>1, <3>3 DEF Typed, TypeOK
      <4>2. enforcer # null /\ BeingLoaded => BeingLoaded'
        BY <1>3, <3>1, <3>3, <4>1 DEF BeingLoaded
      <4> QED BY <1>2, <3>1, <4>1, <4>2 DEF InForce, Agree, table, sync
    <3> QED BY <1>2, <3>1, <3>2, <3>3 DEF InForce, sync
  <2> QED BY <2>1, <2>2, <2>3
<1> QED BY <1>2, <1>4, <1>5, <1>6, <1>7 DEF Agree, sync
\* The shared part of every step of a change: the enforcer in force had what was
\* granted, and still has.
LEMMA ChangeInForce ==
  ASSUME IInv, ~conflict, NEW r \in Requests, Changing(r), req[r].e # null,
         UNCHANGED <<enforcer, unaware>>,
         \/ UNCHANGED <<model, granted>>
         \/ /\ model' = [model EXCEPT ![req[r].e] = @ \union {req[r].rule}]
            /\ granted' = granted \union {req[r].rule}
         \/ /\ model' = [model EXCEPT ![req[r].e] = @ \ {req[r].rule}]
            /\ granted' = granted \ {req[r].rule}
  PROVE  InForce'
<1>1. req[r].e = enforcer /\ enforcer \in Enforcers /\ model[enforcer] = granted
  BY Undisturbed DEF IInv, Typed, TypeOK
<1>2. model'[enforcer] = granted'
  BY <1>1 DEF IInv, Typed, TypeOK
<1> QED BY <1>2 DEF InForce

\* A request that holds something back in the table or owes it something is
\* changing, and has its enforcer.
LEMMA InChange ==
  ASSUME IInv, NEW r \in Requests,
         req[r].pc \in {"insert", "apply", "delete", "unapply", "erase", "rebuild", "write"}
  PROVE  Changing(r) /\ req[r].e # null
BY DEF Changing, IInv, Typed, Local

\* A row that was inserted is in passing: its request is about to apply the rule.
LEMMA InsertAgrees ==
  ASSUME IInv, ~conflict, NEW r \in Requests, Insert(r), UNCHANGED sync
  PROVE  Agree'
<1>1. /\ Put(r, req'[r]) /\ req'[r].pc = "apply" /\ req'[r].rule = req[r].rule
      /\ req[r].pc = "insert"
      /\ store' = store \union {req[r].rule} /\ UNCHANGED <<enforcer, model, granted>>
  BY Went DEF Insert, IInv, At
<1>2. Changing(r) /\ req[r].e # null /\ script = "idle" /\ script' = "idle"
  BY <1>1, InChange, Undisturbed DEF sync
<1>3. \A q \in Requests : \/ q # r /\ req'[q] = req[q]
                          \/ q = r /\ req'[q].pc = "apply" /\ req[q].pc = "insert"
  BY <1>1 DEF Put
<1>4. \A y : (Owed(y) => Owed(y)') /\ (Passing(y) => Passing(y)')
  BY <1>3 DEF Owed, Passing, At
<1>5. Passing(req[r].rule)'
  BY <1>1 DEF Passing, At
<1>6. NothingLost' /\ NothingGained'
  BY <1>1, <1>2, <1>4, <1>5 DEF IInv, Agree, NothingLost, NothingGained
<1>7. Fetched' /\ Built'
  BY <1>1, <1>2, <1>3 DEF IInv, Agree, Fetched, Built, At
<1>8. InForce'
  BY <1>1, <1>2, ChangeInForce DEF sync
<1> QED BY <1>2, <1>6, <1>7, <1>8 DEF Agree

\* The rule is granted as it enters the model; or it is there already, and then
\* was granted.
LEMMA ApplyAgrees ==
  ASSUME IInv, ~conflict, NEW r \in Requests, Apply(r), UNCHANGED sync
  PROVE  Agree'
<1>1. req[r].pc = "apply" /\ UNCHANGED <<store, enforcer>> /\ Typed
  BY DEF Apply, At, IInv
<1>2. /\ Changing(r) /\ req[r].e # null /\ script = "idle" /\ script' = "idle"
      /\ req[r].e = enforcer /\ model[enforcer] = granted
      /\ \A q \in Requests : ~Loading(q)
  BY <1>1, InChange, Undisturbed DEF sync
<1>3. /\ Put(r, req'[r]) /\ req'[r].pc \in {"idle", "erase"} /\ granted \subseteq granted'
      /\ granted' \subseteq granted \union {req[r].rule}
      /\ req[r].rule \in granted'
  <2>1. CASE Has(r, req[r].rule)
    <3>1. req[r].rule \in granted
      BY <1>2, <2>1 DEF Has
    <3> QED BY <1>1, <2>1, <3>1, Ended DEF Apply
  <2>2. CASE ~Has(r, req[r].rule)
    BY <1>1, <2>2, Applied
  <2> QED BY <2>1, <2>2
<1>4. \A q \in Requests : \/ q # r /\ req'[q] = req[q]
                          \/ q = r /\ req'[q].pc \in {"idle", "erase"} /\ req[q].pc = "apply"
  BY <1>1, <1>3 DEF Put
<1>5. /\ \A y : (Owed(y) => Owed(y)')
      /\ \A y : (Passing(y) => Passing(y)' \/ y = req[r].rule)
  BY <1>4 DEF Owed, Passing, At
<1>6. NothingLost'
  <2>1. CASE req'[r].pc = "erase"
    BY <2>1 DEF NothingLost, Owed
  <2>2. CASE req'[r].pc = "idle"
    <3>1. granted' = granted
      BY <1>1, <2>2, Applied DEF Apply
    <3> QED BY <1>1, <1>2, <1>5, <3>1 DEF IInv, Agree, NothingLost
  <2> QED BY <1>3, <2>1, <2>2
<1>7. NothingGained'
  BY <1>1, <1>2, <1>3, <1>5 DEF IInv, Agree, NothingGained
<1>8. Fetched' /\ Built'
  <2>1. Fetched'
    BY <1>2, <1>4 DEF Fetched, Loading, At
  <2>2. Built'
    BY <1>2, <1>3, <1>4 DEF IInv, Agree, Built, At
  <2> QED BY <2>1, <2>2
<1>9. InForce'
  BY <1>1, <1>2, ChangeInForce DEF Apply, sync
<1> QED BY <1>2, <1>6, <1>7, <1>8, <1>9 DEF Agree

\* A rule whose row was deleted is about to be withdrawn.
LEMMA DeleteAgrees ==
  ASSUME IInv, ~conflict, NEW r \in Requests, Delete(r), UNCHANGED sync
  PROVE  Agree'
<1>1. /\ Put(r, req'[r]) /\ req'[r].pc = "unapply" /\ req'[r].rule = req[r].rule
      /\ req[r].pc = "delete"
      /\ store' = store \ {req[r].rule} /\ UNCHANGED <<enforcer, model, granted>>
  BY Went DEF Delete, IInv, At
<1>2. Changing(r) /\ req[r].e # null /\ script = "idle" /\ script' = "idle"
  BY <1>1, InChange, Undisturbed DEF sync
<1>3. \A q \in Requests : \/ q # r /\ req'[q] = req[q]
                          \/ q = r /\ req'[q].pc = "unapply" /\ req[q].pc = "delete"
  BY <1>1 DEF Put
<1>4. \A y : (Owed(y) => Owed(y)') /\ (Passing(y) => Passing(y)')
  BY <1>3 DEF Owed, Passing, At
<1>5. Owed(req[r].rule)'
  BY <1>1 DEF Owed, At
<1>6. NothingLost' /\ NothingGained'
  BY <1>1, <1>2, <1>4, <1>5 DEF IInv, Agree, NothingLost, NothingGained
<1>7. Fetched' /\ Built'
  BY <1>1, <1>2, <1>3 DEF IInv, Agree, Fetched, Built, At
<1>8. InForce'
  BY <1>1, <1>2, ChangeInForce DEF sync
<1> QED BY <1>2, <1>6, <1>7, <1>8 DEF Agree

\* A removal runs alone, so that no rows with the removed rule wait to be written.
LEMMA UnapplyAgrees ==
  ASSUME IInv, ~conflict, NEW r \in Requests, Unapply(r), UNCHANGED sync
  PROVE  Agree'
<1>1. req[r].pc = "unapply" /\ UNCHANGED <<store, enforcer>> /\ Typed
  BY DEF Unapply, At, IInv
<1>2. /\ Changing(r) /\ req[r].e # null /\ script = "idle" /\ script' = "idle"
      /\ req[r].e = enforcer /\ model[enforcer] = granted
      /\ req[r].kind = "remove"
      /\ \A q \in Requests : ~Loading(q) /\ (q # r => ~Changing(q))
  BY <1>1, InChange, Undisturbed DEF sync, Typed, Local
<1>3. CASE ~Has(r, req[r].rule)
  <2>1. /\ Put(r, req'[r]) /\ req'[r].pc = "idle" /\ UNCHANGED <<model, granted>>
        /\ req[r].rule \notin granted
    BY <1>1, <1>2, <1>3, Ended DEF Unapply, Has
  <2>2. \A q \in Requests : \/ q # r /\ req'[q] = req[q]
                            \/ q = r /\ req'[q].pc = "idle" /\ req[q].pc = "unapply"
    BY <1>1, <2>1 DEF Put
  <2>3. /\ \A y : (Owed(y) => Owed(y)' \/ y = req[r].rule)
        /\ \A y : (Passing(y) => Passing(y)')
    BY <2>2 DEF Owed, Passing, At
  <2>4. NothingLost' /\ NothingGained'
    BY <1>1, <1>2, <2>1, <2>3 DEF IInv, Agree, NothingLost, NothingGained
  <2>5. Fetched' /\ Built'
    BY <1>2, <2>1, <2>2 DEF IInv, Agree, Fetched, Built, At
  <2>6. InForce'
    BY <1>1, <1>2, <2>1, ChangeInForce DEF sync
  <2> QED BY <1>2, <2>4, <2>5, <2>6 DEF Agree
<1>4. CASE Has(r, req[r].rule)
  <2>1. /\ Put(r, req'[r]) /\ req'[r].pc = "erase"
        /\ model' = [model EXCEPT ![req[r].e] = @ \ {req[r].rule}]
        /\ granted' = granted \ {req[r].rule}
    BY <1>1, <1>4, Unapplied
  <2>2. NothingLost' /\ NothingGained'
    BY <2>1 DEF NothingLost, NothingGained, Owed, Passing, At
  <2>3. \A q \in Requests : \/ q # r /\ req'[q] = req[q] /\ ~Changing(q) /\ ~Loading(q)
                            \/ q = r /\ req'[q].pc = "erase"
    BY <1>2, <2>1 DEF Put
  <2>4. Fetched' /\ Built'
    BY <2>3 DEF Fetched, Built, At, Changing, Loading
  <2>5. InForce'
    BY <1>1, <1>2, <2>1, ChangeInForce DEF sync
  <2> QED BY <1>2, <2>2, <2>4, <2>5 DEF Agree
<1> QED BY <1>3, <1>4

\* savePolicy empties the table, and owes every granted rule until it has written.
LEMMA EraseAgrees ==
  ASSUME IInv, ~conflict, NEW r \in Requests, Erase(r), UNCHANGED sync
  PROVE  Agree'
<1>1. /\ Put(r, req'[r]) /\ req'[r].pc = "rebuild" /\ req[r].pc = "erase"
      /\ store' = {} /\ UNCHANGED <<enforcer, model, granted>>
  BY Went DEF Erase, IInv, At
<1>2. Changing(r) /\ req[r].e # null /\ script = "idle" /\ script' = "idle"
  BY <1>1, InChange, Undisturbed DEF sync
<1>3. NothingLost' /\ NothingGained'
  BY <1>1 DEF NothingLost, NothingGained, Owed
<1>4. \A q \in Requests : \/ q # r /\ req'[q] = req[q]
                          \/ q = r /\ req'[q].pc = "rebuild"
  BY <1>1 DEF Put
<1>5. Fetched' /\ Built'
  BY <1>1, <1>2, <1>4 DEF IInv, Agree, Fetched, Built, At
<1>6. InForce'
  BY <1>1, <1>2, ChangeInForce DEF sync
<1> QED BY <1>2, <1>3, <1>5, <1>6 DEF Agree

\* The model of a change that overlapped no load has what was granted.
LEMMA RebuildAgrees ==
  ASSUME IInv, ~conflict, NEW r \in Requests, Rebuild(r), UNCHANGED sync
  PROVE  Agree'
<1>1. /\ Put(r, req'[r]) /\ req'[r].pc = "write" /\ req[r].pc = "rebuild"
      /\ req'[r].rows = model[req[r].e]
      /\ UNCHANGED <<store, granted, enforcer, model>>
  BY Rebuilt DEF Rebuild, IInv, At, table
<1>2. /\ Changing(r) /\ req[r].e # null /\ script = "idle" /\ script' = "idle"
      /\ req'[r].rows = granted
  BY <1>1, InChange, Undisturbed DEF sync
<1>3. \A q \in Requests : \/ q # r /\ req'[q] = req[q]
                          \/ q = r /\ req'[q].pc = "write" /\ req[q].pc = "rebuild"
  BY <1>1 DEF Put
<1>4. NothingLost'
  <2>1. \A y \in granted : Owed(y)'
    BY <1>1, <1>2 DEF Owed, At
  <2> QED BY <1>1, <2>1 DEF NothingLost
<1>5. NothingGained'
  <2>1. \A y : Passing(y) => Passing(y)'
    BY <1>3 DEF Passing, At
  <2> QED BY <1>1, <1>2, <2>1 DEF IInv, Agree, NothingGained
<1>6. Fetched' /\ Built'
  BY <1>1, <1>2, <1>3 DEF IInv, Agree, Fetched, Built, At
<1>7. InForce'
  BY <1>1, <1>2, ChangeInForce DEF sync
<1> QED BY <1>2, <1>4, <1>5, <1>6, <1>7 DEF Agree

\* savePolicy puts back what it deleted.
LEMMA WriteAgrees ==
  ASSUME IInv, ~conflict, NEW r \in Requests, Write(r), UNCHANGED sync
  PROVE  Agree'
<1>1. /\ Put(r, req'[r]) /\ req'[r].pc = "idle" /\ req[r].pc = "write"
      /\ store' = store \union req[r].rows /\ UNCHANGED <<enforcer, model, granted>>
  BY Ended DEF Write, IInv, At
<1>2. /\ Changing(r) /\ req[r].e # null /\ script = "idle" /\ script' = "idle"
      /\ req[r].rows \subseteq granted
  BY <1>1, InChange, Undisturbed DEF sync, IInv, Agree, Built, At
<1>3. \A q \in Requests : \/ q # r /\ req'[q] = req[q]
                          \/ q = r /\ req'[q].pc = "idle" /\ req[q].pc = "write"
  BY <1>1 DEF Put
<1>4. /\ \A y : Owed(y) => Owed(y)' \/ y \in req[r].rows
      /\ \A y : Passing(y) => Passing(y)'
  BY <1>3 DEF Owed, Passing, At
<1>5. NothingLost' /\ NothingGained'
  BY <1>1, <1>2, <1>4 DEF IInv, Agree, NothingLost, NothingGained
<1>6. Fetched' /\ Built'
  BY <1>1, <1>2, <1>3 DEF IInv, Agree, Fetched, Built, At
<1>7. InForce'
  BY <1>1, <1>2, ChangeInForce DEF sync
<1> QED BY <1>2, <1>5, <1>6, <1>7 DEF Agree
\* A sync that meets nobody leaves a table that was granted as a whole.
LEMMA SyncAgrees ==
  ASSUME IInv, ~conflict, ~Conflict', SyncErase \/ SyncWrite
  PROVE  Agree'
<1>1. CASE SyncErase
  BY <1>1 DEF SyncErase, Agree, Syncing, InForce
<1>2. CASE SyncWrite
  <2>1. script = "write" /\ script' = "idle" /\ store' = Csv /\ granted' = Csv
        /\ UNCHANGED <<enforcer, model, req, unaware>> /\ (enforcer # null => unaware)
    BY <1>2 DEF SyncWrite, IInv, Agree, Syncing
  <2>2. \A r \in Requests : ~Loading(r) /\ ~Changing(r)
    BY <2>1 DEF IInv, Noted, Conflict
  <2>3. NothingLost' /\ NothingGained'
    BY <2>1 DEF NothingLost, NothingGained
  <2>4. Fetched' /\ Built'
    BY <2>1, <2>2 DEF Fetched, Built, Loading, Changing, At
  <2> QED BY <2>1, <2>3, <2>4 DEF Agree, InForce
<1> QED BY <1>1, <1>2

\* A stop that leaves nothing half way: no request was between two writes.
LEMMA RestartAgrees ==
  ASSUME IInv, ~conflict, ~conflict', Restart
  PROVE  Agree'
<1>1. /\ UNCHANGED <<table, script>> /\ enforcer' = null
      /\ \A r \in Requests : req'[r].pc = "idle" /\ ~(HalfWay(r) /\ ~Loading(r))
  BY DEF Restart, Idle
<1>2. \A y : ~Owed(y) /\ ~Passing(y)
  BY <1>1 DEF Owed, Passing, HalfWay, Loading, At
<1>3. NothingLost /\ NothingGained => NothingLost' /\ NothingGained'
  BY <1>1, <1>2 DEF NothingLost, NothingGained, table
<1>4. Fetched' /\ Built'
  BY <1>1 DEF Fetched, Built, At
<1> QED BY <1>1, <1>3, <1>4 DEF IInv, Agree, Syncing, InForce, table

\* Every step keeps the agreement of table, enforcer and what was granted.
LEMMA StepAgrees == IInv /\ [Next]_vars => Agree'
<1> SUFFICES ASSUME IInv, [Next]_vars, ~conflict' PROVE Agree'
  BY DEF Agree
<1> USE DEF IInv
<1>1. ASSUME NEW r \in Requests,
             (Step(r) /\ UNCHANGED sync) \/ Reload(r), conflict' = (conflict \/ Conflict')
      PROVE  Agree'
  <2>1. ~conflict /\ ~Conflict'
    BY <1>1
  <2>2. CASE Reload(r)
    BY <2>1, <2>2, ReloadAgrees
  <2>3. CASE Step(r) /\ UNCHANGED sync
    <3> USE <2>1, <2>3
    <3>1. CASE Arrive(r)
      <4>1. PICK x : Put(r, x) /\ x.pc = "get"
        BY <3>1, Began
      <4> QED BY <3>1, <4>1, Elsewhere DEF Arrive, HalfWay, At
    <3>2. CASE GetEnforcer(r)
      BY <3>2, Got, Elsewhere DEF GetEnforcer, HalfWay, At
    <3>3. CASE NewEnforcer(r) \/ FindMany(r) \/ LoadPolicy(r)
      BY <3>3, LoadAgrees
    <3>4. CASE Admit(r)
      BY <3>4, Entered, Elsewhere DEF Admit, Admitted, HalfWay, At
    <3>5. CASE Answer(r)
      BY <3>5, Ended, Elsewhere DEF Answer, HalfWay, At
    <3>6. CASE Change(r)
      BY <3>6, Went, Elsewhere DEF Change, HalfWay, At
    <3>7. CASE Insert(r)
      BY <3>7, InsertAgrees
    <3>8. CASE Apply(r)
      BY <3>8, ApplyAgrees
    <3>9. CASE Delete(r)
      BY <3>9, DeleteAgrees
    <3>10. CASE Unapply(r)
      BY <3>10, UnapplyAgrees
    <3>11. CASE Erase(r)
      BY <3>11, EraseAgrees
    <3>12. CASE Rebuild(r)
      BY <3>12, RebuildAgrees
    <3>13. CASE Write(r)
      BY <3>13, WriteAgrees
    <3> QED BY <3>1, <3>2, <3>3, <3>4, <3>5, <3>6, <3>7, <3>8, <3>9, <3>10, <3>11,
               <3>12, <3>13 DEF Step
  <2> QED BY <1>1, <2>2, <2>3
<1>2. ASSUME NEW r \in Requests, Fail(r) PROVE Agree'
  BY <1>2, Ended, Elsewhere DEF Fail
<1>3. CASE (SyncErase \/ SyncWrite) /\ conflict' = (conflict \/ Conflict')
  BY <1>3, SyncAgrees
<1>4. CASE FailSync
  BY <1>4 DEF FailSync
<1>5. CASE Restart
  BY <1>5, RestartAgrees DEF Restart
<1>6. CASE UNCHANGED vars
  BY <1>6 DEF vars, table, sync, Agree, Syncing, NothingLost, NothingGained, Owed, Passing,
              Fetched, Built, InForce, BeingLoaded, At
<1> QED BY <1>1, <1>2, <1>3, <1>4, <1>5, <1>6 DEF Next

\* At the start the table has what was granted and there is no enforcer.
LEMMA InitAgrees == Init => IInv
<1> SUFFICES ASSUME Init PROVE IInv
  OBVIOUS
<1>1. \A r \in Requests : req[r].pc = "idle"
  BY DEF Init, Idle
<1>2. Noted /\ ChangesReachEnforcer
  BY <1>1 DEF Init, Noted, Conflict, ChangesReachEnforcer, Loading, Changing, At
<1>3. Agree
  BY <1>1 DEF Init, Agree, NothingLost, NothingGained, Fetched, Built, InForce, At
<1> QED BY <1>2, <1>3, InitTyped DEF IInv

\* For any requests and any policies: when nothing is half way and no harmful
\* overlap or stop has been noted, the table has what was granted and so has an
\* enforcer that was loaded since the last sync.
THEOREM PolicyAgreement == Spec => []QuietAgreement
<1>1. IInv /\ [Next]_vars => IInv'
  BY StepTyped, StepNoted, StepReaches, StepAgrees DEF IInv
<1>2. IInv => QuietAgreement
  <2> SUFFICES ASSUME IInv, Quiet, ~conflict
               PROVE  store = granted /\ (enforcer # null /\ ~unaware =>
                                            model[enforcer] = granted)
    BY DEF QuietAgreement
  <2>1. \A y : ~Owed(y) /\ ~Passing(y)
    BY DEF Quiet, Changing, Owed, Passing, At
  <2>2. store \subseteq granted /\ granted \subseteq store
    BY <2>1 DEF Quiet, IInv, Agree, NothingLost, NothingGained
  <2>3. ~BeingLoaded
    BY DEF Quiet, Loading, BeingLoaded
  <2> QED BY <2>2, <2>3 DEF IInv, Agree, InForce
<1> QED BY InitAgrees, <1>1, <1>2, PTL DEF Spec
=============================================================================
