--------------------------- MODULE RateLimitProofs ---------------------------
(***************************************************************************)
(* Proofs about RateLimit, for any requests, any limit and any window.     *)
(***************************************************************************)
EXTENDS RateLimit, FiniteSetTheorems, TLAPS

\* The counter, its time to live and the requests have the right types.
LEMMA TypeStep ==
  ASSUME TypeOK, [Next]_vars PROVE TypeOK'
<1> USE LimitAssumption, WindowAssumption DEF TypeOK, Counts, Admits
<1>1. ASSUME NEW r \in Requests, Increment(r) PROVE TypeOK'
  <2>1. hits' \in Counts /\ (hits' = 0 => left' = 0)
    BY <1>1 DEF Increment
  <2>2. [pc |-> "ttl", hits |-> hits'] \in Request
    BY <2>1 DEF Request
  <2>3. admitted' \subseteq Admission
    <3>1. 0 \in 0 .. Window /\ (Admits(hits') => hits' \in 1 .. Limit)
      BY <1>1 DEF Increment
    <3>2. Admits(hits') => [life |-> 0, hit |-> hits', age |-> 0] \in Admission
      BY <3>1 DEF Admission
    <3> QED BY <1>1, <3>2 DEF Increment
  <2> QED BY <1>1, <2>1, <2>2, <2>3 DEF Increment
<1>2. ASSUME NEW r \in Requests, NEW pc \in {"expire", "answer"},
             req' = [req EXCEPT ![r].pc = pc]
      PROVE  req' \in [Requests -> Request]
  <2>1. [req[r] EXCEPT !.pc = pc] \in Request
    BY DEF Request
  <2> QED BY <1>2, <2>1
<1>3. ASSUME NEW r \in Requests, ReadTtl(r) PROVE TypeOK'
  <2>1. PICK pc \in {"expire", "answer"} : req' = [req EXCEPT ![r].pc = pc]
    BY <1>3 DEF ReadTtl
  <2> QED BY <1>2, <1>3, <2>1 DEF ReadTtl
<1>4. ASSUME NEW r \in Requests, SetExpiry(r) PROVE TypeOK'
  <2>1. left' \in 0 .. Window /\ (hits' = 0 => left' = 0)
    BY <1>4 DEF SetExpiry
  <2>2. lost' \in BOOLEAN
    BY <1>4 DEF SetExpiry
  <2>3. req' \in [Requests -> Request]
    BY <1>2, <1>4 DEF SetExpiry
  <2> QED BY <1>4, <2>1, <2>2, <2>3 DEF SetExpiry
<1>5. Idle \in Request
  BY DEF Idle, Request
<1>6. ASSUME NEW r \in Requests, Answer(r) PROVE TypeOK'
  BY <1>5, <1>6 DEF Answer, End
<1>7. ASSUME NEW r \in Requests, Fail(r) PROVE TypeOK'
  BY <1>5, <1>7 DEF Fail, End
<1>8. CASE Tick
  <2>1. /\ left' \in 0 .. Window /\ hits' \in Counts
        /\ hits' = 0 => left' = 0
    BY <1>8 DEF Tick
  <2>2. admitted' \subseteq Admission
    <3>1. ASSUME NEW a \in admitted, a.age < Window
          PROVE  /\ a.life \in Nat /\ a.life + 1 \in Nat /\ a.hit \in 1 .. Limit
                 /\ a.age + 1 \in 0 .. Window
      <4>1. a \in Admission
        OBVIOUS
      <4> QED BY <3>1, <4>1 DEF Admission
    <3>2. ASSUME NEW c \in admitted' PROVE c \in Admission
      <4>1. PICK a \in {b \in admitted : b.age < Window} :
              c = [life |-> IF left = 1 THEN a.life + 1 ELSE a.life,
                   hit |-> a.hit, age |-> a.age + 1]
        BY <1>8 DEF Tick
      <4> QED BY <3>1, <4>1 DEF Admission
    <3> QED BY <3>2
  <2> QED BY <1>8, <2>1, <2>2 DEF Tick
<1>9. CASE UNCHANGED vars
  BY <1>9 DEF vars
<1> QED BY <1>1, <1>3, <1>4, <1>6, <1>7, <1>8, <1>9 DEF Next

\* Type correctness: among others, a key that does not exist has no time to live.
THEOREM TypeCorrect == Spec => []TypeOK
<1>1. Init => TypeOK
  <2>1. Idle \in Request /\ 0 \in Counts /\ 0 \in 0 .. Window
    BY LimitAssumption, WindowAssumption DEF Counts, Idle, Request
  <2>2. Init => lost \in BOOLEAN
    BY DEF Init
  <2>3. Init => /\ req \in [Requests -> Request]
                /\ admitted \subseteq Admission
    BY <2>1 DEF Init
  <2> QED BY <2>1, <2>2, <2>3 DEF Init, TypeOK
<1> QED BY <1>1, TypeStep, PTL DEF Spec

\* The request that counts itself on a key without a time to live goes on to set
\* one; whoever reads the key before that goes on to set it too.
LEMMA ExpiryStep ==
  ASSUME TypeOK, ImmortalExplained, [Next]_vars PROVE ImmortalExplained'
<1> DEFINE Setting(r) == At(r, "ttl") \/ At(r, "expire")
<1> USE LimitAssumption, WindowAssumption DEF ImmortalExplained, TypeOK, Request, Counts
<1>1. ASSUME NEW r \in Requests, Increment(r) PROVE ImmortalExplained'
  <2>1. Setting(r)'
    BY <1>1 DEF Increment, At
  <2> QED BY <2>1
<1>2. ASSUME NEW r \in Requests, ReadTtl(r) PROVE ImmortalExplained'
  <2>1. hits > 0 /\ left = 0 => Setting(r)'
    BY <1>2 DEF ReadTtl, At
  <2> QED BY <1>2, <2>1 DEF ReadTtl
<1>3. ASSUME NEW r \in Requests, SetExpiry(r) PROVE ImmortalExplained'
  BY <1>3 DEF SetExpiry
<1>4. ASSUME NEW r \in Requests, Answer(r) \/ Fail(r) PROVE ImmortalExplained'
  <2>1. \A q \in Requests : q # r => (Setting(q)' <=> Setting(q))
    BY <1>4 DEF Answer, Fail, End, At
  <2>2. hits' = hits /\ left' = left
    BY <1>4 DEF Answer, Fail
  <2>3. CASE Setting(r)
    <3>1. hits > 0 /\ left = 0 => lost'
      BY <1>4, <2>3 DEF Answer, Fail, At
    <3> QED BY <2>2, <3>1
  <2>4. CASE ~Setting(r)
    <3>1. lost => lost'
      BY <1>4 DEF Answer, Fail
    <3> QED BY <2>1, <2>2, <2>4, <3>1
  <2> QED BY <2>3, <2>4
<1>5. CASE Tick
  <2>1. hits' > 0 /\ left' = 0 => hits > 0 /\ left = 0
    BY <1>5 DEF Tick
  <2>2. lost' = lost /\ \A q \in Requests : Setting(q)' <=> Setting(q)
    BY <1>5 DEF Tick, At
  <2> QED BY <2>1, <2>2
<1>6. CASE UNCHANGED vars
  BY <1>6 DEF vars, At
<1> QED BY <1>1, <1>2, <1>3, <1>4, <1>5, <1>6 DEF Next

\* A counter that would never expire is about to get its time to live, or the
\* request on the way to it was lost.
THEOREM Immortal == Spec => []ImmortalExplained
<1>1. Init => ImmortalExplained
  BY DEF Init, ImmortalExplained
<1> QED BY <1>1, TypeCorrect, ExpiryStep, PTL DEF Spec

-----------------------------------------------------------------------------
(***************************************************************************)
(* What is let in.  The requests let in within one window's length belong  *)
(* to the present counter and the one before it: before the present one    *)
(* runs out, the earlier one's are older than a window.                    *)
(***************************************************************************)
Lives ==
    \A a \in admitted :
        \/ a.life = 0 /\ a.hit <= hits
        \/ /\ a.life = 1 /\ a.age >= 1
           /\ left > 0 => a.age + left > Window

\* No two requests let in are the same hit of the same counter.
Distinct == \A a, b \in admitted : a.life = b.life /\ a.hit = b.hit => a = b

\* The fields of a request let in, of the sets they are in.
LEMMA AdmissionTypes ==
  ASSUME TypeOK, NEW a \in admitted
  PROVE  a.life \in Nat /\ a.hit \in 1 .. Limit /\ a.age \in 0 .. Window
BY DEF TypeOK, Admission

\* Every step keeps them: a request let in is the next hit of the counter, and time
\* takes as much from the counter as it adds to the ages.
LEMMA LivesStep ==
  ASSUME TypeOK, Lives, Distinct, [Next]_vars PROVE Lives' /\ Distinct'
<1> USE LimitAssumption, WindowAssumption DEF TypeOK, Counts
<1>1. ASSUME NEW r \in Requests, Increment(r) PROVE Lives' /\ Distinct'
  <2>1. left' = left /\ hits <= hits' /\ hits' \in Counts
    BY <1>1 DEF Increment, Admits
  <2>2. CASE admitted' = admitted
    <3>1. Lives'
      BY <2>1, <2>2, AdmissionTypes DEF Lives
    <3> QED BY <2>2, <3>1 DEF Distinct
  <2>3. CASE Admits(hits') /\ admitted' = admitted \union {[life |-> 0, hit |-> hits', age |-> 0]}
    <3> DEFINE new == [life |-> 0, hit |-> hits', age |-> 0]
    <3>1. new.life = 0 /\ new.hit = hits' /\ admitted' = admitted \union {new}
      BY <2>3
    <3>2. hits' = hits + 1
      BY <1>1, <2>3 DEF Increment, Admits
    <3> HIDE DEF new
    <3>3. Lives'
      BY <2>1, <3>1, AdmissionTypes DEF Lives
    <3>4. \A a \in admitted : a.life # new.life \/ a.hit # new.hit
      BY <3>1, <3>2, AdmissionTypes DEF Lives
    <3>5. Distinct'
      BY <3>1, <3>4 DEF Distinct
    <3> QED BY <3>3, <3>5
  <2> QED BY <1>1, <2>2, <2>3 DEF Increment
<1>2. ASSUME NEW r \in Requests, SetExpiry(r) PROVE Lives' /\ Distinct'
  <2>1. hits' = hits /\ admitted' = admitted /\ (left' = Window \/ left' = left)
    BY <1>2 DEF SetExpiry
  <2>2. Lives'
    BY <2>1, AdmissionTypes DEF Lives
  <2> QED BY <2>1, <2>2 DEF Distinct
<1>3. CASE Tick
  <2>1. ASSUME NEW c \in admitted'
        PROVE  \E a \in admitted : /\ a.age < Window /\ c.hit = a.hit /\ c.age = a.age + 1
                                   /\ c.life = IF left = 1 THEN a.life + 1 ELSE a.life
                                   /\ c = [life |-> c.life, hit |-> c.hit, age |-> c.age]
    BY <1>3 DEF Tick
  <2>2. /\ left' = IF left > 0 THEN left - 1 ELSE 0
        /\ hits' = IF left = 1 THEN 0 ELSE hits
    BY <1>3 DEF Tick
  <2>3. ASSUME NEW c \in admitted', NEW a \in admitted, a.age < Window, c.age = a.age + 1,
               c.hit = a.hit, c.life = IF left = 1 THEN a.life + 1 ELSE a.life
        PROVE  \/ c.life = 0 /\ c.hit <= hits'
               \/ /\ c.life = 1 /\ c.age >= 1
                  /\ left' > 0 => c.age + left' > Window
    BY <2>2, <2>3, AdmissionTypes DEF Lives
  <2>4. Lives'
    BY <2>1, <2>3 DEF Lives
  <2>5. ASSUME NEW c \in admitted', NEW d \in admitted', c.life = d.life, c.hit = d.hit
        PROVE  c = d
    <3>1. PICK a \in admitted : /\ a.age < Window /\ c.hit = a.hit /\ c.age = a.age + 1
                                /\ c.life = IF left = 1 THEN a.life + 1 ELSE a.life
                                /\ c = [life |-> c.life, hit |-> c.hit, age |-> c.age]
      BY <2>1
    <3>2. PICK b \in admitted : /\ b.age < Window /\ d.hit = b.hit /\ d.age = b.age + 1
                                /\ d.life = IF left = 1 THEN b.life + 1 ELSE b.life
                                /\ d = [life |-> d.life, hit |-> d.hit, age |-> d.age]
      BY <2>1
    <3>3. a.life = b.life /\ a.hit = b.hit
      BY <2>5, <3>1, <3>2, AdmissionTypes
    <3>4. c.age = d.age
      BY <3>1, <3>2, <3>3 DEF Distinct
    <3> QED BY <2>5, <3>1, <3>2, <3>4
  <2> QED BY <2>4, <2>5 DEF Distinct
<1>4. CASE UNCHANGED <<hits, left, admitted>>
  BY <1>4 DEF Lives, Distinct
<1> QED
  BY <1>1, <1>2, <1>3, <1>4 DEF Next, vars, ReadTtl, Answer, Fail

\* Within one window's length at most twice the limit is let in, whatever pexpire
\* comes late, is lost, or meets a later counter than its own.
THEOREM Admitted == Spec => []AdmittedBounded
<1>1. Init => Lives /\ Distinct
  BY DEF Init, Lives, Distinct
<1>2. TypeOK /\ Lives /\ Distinct => AdmittedBounded
  <2> SUFFICES ASSUME TypeOK, Lives, Distinct PROVE Cardinality(admitted) <= 2 * Limit
    BY DEF AdmittedBounded
  <2> DEFINE Places == (0 .. 1) \X (1 .. Limit)
             place == [a \in admitted |-> <<a.life, a.hit>>]
  <2>1. IsFiniteSet(Places) /\ Cardinality(Places) = 2 * Limit
    <3> DEFINE I == 0 .. 1
               J == 1 .. Limit
    <3>1. IsFiniteSet(I) /\ Cardinality(I) = 2
      <4>1. 0 \in Int /\ 1 \in Int
        OBVIOUS
      <4>2. IsFiniteSet(I) /\ Cardinality(I) = IF 0 > 1 THEN 0 ELSE 1 - 0 + 1
        BY <4>1, FS_Interval, Zenon
      <4> QED BY <4>2
    <3>2. IsFiniteSet(J) /\ Cardinality(J) = Limit
      <4>1. IsFiniteSet(J) /\ Cardinality(J) = IF 1 > Limit THEN 0 ELSE Limit - 1 + 1
        BY LimitAssumption, FS_Interval
      <4> QED BY <4>1, LimitAssumption
    <3> HIDE DEF I, J
    <3>3. IsFiniteSet(I \X J) /\ Cardinality(I \X J) = Cardinality(I) * Cardinality(J)
      BY <3>1, <3>2, FS_Product
    <3>4. Cardinality(I \X J) = 2 * Limit
      BY <3>1, <3>2, <3>3, LimitAssumption
    <3> QED BY <3>3, <3>4 DEF I, J, Places
  <2>2. \A a \in admitted : <<a.life, a.hit>> \in Places
    BY AdmissionTypes DEF Lives
  <2>3. place \in Injection(admitted, Places)
    <3>1. place \in [admitted -> Places]
      BY <2>2
    <3>2. ASSUME NEW a \in admitted, NEW b \in admitted, place[a] = place[b] PROVE a = b
      <4>1. a.life = b.life /\ a.hit = b.hit
        BY <3>2
      <4> QED BY <4>1 DEF Distinct
    <3> QED BY <3>1, <3>2 DEF Injection, IsInjective
  <2> HIDE DEF Places, place
  <2> QED BY <2>1, <2>3, FS_Injection
<1> QED BY <1>1, <1>2, TypeCorrect, LivesStep, PTL DEF Spec
=============================================================================
