------------------------ MODULE RestartPolicyProofs ------------------------
(***************************************************************************)
(* Theorems about the restart tracker, for every policy and every clock.   *)
(***************************************************************************)
EXTENDS RestartPolicy, NaturalsInduction, WellFoundedInduction, TLAPS

USE RestartAssumption

\* Every attempt counted is either a restart already allowed or the planned
\* one; without the exact balance the bound is not inductive.
Balance ==
    /\ policy.MaxAttempts \in Nat
    /\ attempts \in Nat
    /\ allowed \in Nat
    /\ planned \in BOOLEAN
    /\ attempts <= policy.MaxAttempts
    /\ planned => attempts = allowed + 1
    /\ ~planned => attempts = allowed

LEMMA BalanceInvariant == Spec => []Balance
<1>1. Init => Balance
  <2> SUFFICES ASSUME Init PROVE Balance
    OBVIOUS
  <2>1. policy \in [MaxAttempts : Nat, Base : Nat, Max : Nat]
    BY DEF Init
  <2>2. policy.MaxAttempts \in Nat
    BY <2>1
  <2>3. attempts = 0 /\ allowed = 0 /\ planned = FALSE
    BY DEF Init
  <2>4. 0 <= policy.MaxAttempts
    BY <2>2
  <2>5. attempts \in Nat /\ allowed \in Nat /\ attempts <= policy.MaxAttempts
    BY <2>3, <2>4
  <2>6. planned \in BOOLEAN /\ ~planned
    BY <2>3
  <2>7. attempts = allowed
    BY <2>3
  <2>8. QED
    BY <2>2, <2>5, <2>6, <2>7, Zenon DEF Balance
<1>2. Balance /\ [Next]_vars => Balance'
  <2> SUFFICES ASSUME Balance, [Next]_vars
               PROVE  Balance'
    OBVIOUS
  <2> USE DEF Balance
  <2>1. CASE Allow
    <3>1. /\ planned = TRUE
          /\ planned' = FALSE
          /\ allowed' = allowed + 1
          /\ attempts' = attempts
          /\ policy' = policy
      BY <2>1 DEF Allow
    <3>2. QED
      BY <3>1
  <2>2. CASE Plan
    <3>1. /\ planned = FALSE
          /\ planned' = TRUE
          /\ allowed' = allowed
          /\ attempts' = attempts + 1
          /\ attempts < policy.MaxAttempts
          /\ policy' = policy
      BY <2>2 DEF Plan
    <3>2. QED
      BY <3>1
  <2>3. CASE Delete
    <3>1. attempts' = 0 /\ allowed' = 0 /\ planned' = FALSE /\ policy' = policy
      BY <2>3 DEF Delete
    <3>2. attempts' \in Nat /\ allowed' \in Nat /\ attempts' <= policy'.MaxAttempts
      BY <3>1
    <3>3. planned' \in BOOLEAN /\ ~planned'
      BY <3>1
    <3>4. policy'.MaxAttempts \in Nat /\ attempts' = allowed'
      BY <3>1
    <3>5. QED
      BY <3>2, <3>3, <3>4, Zenon
  <2>4. CASE Wait \/ Refuse \/ AdvanceClock \/ UNCHANGED vars
    BY <2>4 DEF Wait, Refuse, AdvanceClock, vars, state
  <2>5. QED
    BY <2>1, <2>2, <2>3, <2>4 DEF Next
<1>3. QED
  BY <1>1, <1>2, PTL DEF Spec

\* Between two resets of its state the tracker allows at most MaxAttempts
\* restarts, for every policy.
THEOREM RestartsAreBounded == Spec => []RestartsBounded
<1>1. Balance => RestartsBounded
  <2> SUFFICES ASSUME Balance PROVE allowed <= policy.MaxAttempts
    BY DEF RestartsBounded
  <2>1. allowed <= attempts
    BY DEF Balance
  <2>2. policy.MaxAttempts \in Nat
    BY DEF Balance
  <2>3. QED
    BY <2>1, <2>2 DEF Balance
<1>2. QED
  BY <1>1, BalanceInvariant, PTL

\* The planned time is the backoff of the current attempt after its failure.
PlannedAtBackoff == planned => nextAt = lastFailAt + backoffFor(policy, attempts)

\* No restart is allowed before the backoff of its attempt has passed since
\* the failure that planned it.
THEOREM RestartsWait == Spec => NotBeforeBackoff
<1>1. Init => PlannedAtBackoff
  BY DEF Init, PlannedAtBackoff
<1>2. Balance /\ PlannedAtBackoff /\ [Next]_vars => PlannedAtBackoff'
  <2> SUFFICES ASSUME Balance, PlannedAtBackoff, [Next]_vars
               PROVE  PlannedAtBackoff'
    OBVIOUS
  <2>1. CASE Plan
    BY <2>1 DEF Plan, PlannedAtBackoff, backoffFor, Doubled, Cap, Base
  <2>2. CASE Allow \/ Delete
    BY <2>2 DEF Allow, Delete, PlannedAtBackoff
  <2>3. CASE Wait \/ Refuse \/ AdvanceClock \/ UNCHANGED vars
    <3>1. UNCHANGED <<policy, attempts, planned, nextAt, lastFailAt>>
      BY <2>3 DEF Wait, Refuse, AdvanceClock, vars, state
    <3>2. backoffFor(policy, attempts)' = backoffFor(policy, attempts)
      BY <3>1 DEF backoffFor, Doubled, Cap, Base
    <3>3. QED
      BY <3>1, <3>2 DEF PlannedAtBackoff
  <2>4. QED
    BY <2>1, <2>2, <2>3 DEF Next
<1>3. Balance /\ PlannedAtBackoff /\ [Next]_vars =>
        [ allowed' > allowed
            => ~(clock < lastFailAt + backoffFor(policy, attempts)) ]_vars
  <2> SUFFICES ASSUME Balance, PlannedAtBackoff, Next, allowed' > allowed
               PROVE  ~(clock < lastFailAt + backoffFor(policy, attempts))
    BY DEF vars
  <2>1. Allow
    BY DEF Balance, Next, Wait, Plan, Refuse, Delete, AdvanceClock, vars, state
  <2>2. QED
    BY <2>1 DEF Allow, PlannedAtBackoff
<1>4. QED
  BY <1>1, <1>2, <1>3, BalanceInvariant, PTL DEF Spec, NotBeforeBackoff

----------------------------------------------------------------------------
(* The loop of backoffFor.                                                 *)

\* Every set of naturals that is not empty has a least element: induction in
\* the form of a smallest counterexample.
LEMMA LeastElement ==
    ASSUME NEW T \in SUBSET Nat, T # {}
    PROVE  \E x \in T : \A y \in T : ~(y < x)
<1> DEFINE R == {ss \in Nat \X Nat : ss[1] < ss[2]}
<1>1. IsWellFoundedOn(OpToRel(<, Nat), Nat)
  BY NatLessThanWellFounded, Zenon
<1>2. IsWellFoundedOn(R, Nat)
  BY <1>1, Zenon DEF OpToRel
<1> HIDE DEF R
<1>3. \E x \in T : \A y \in T : ~(<<y, x>> \in R)
  BY <1>2, WFMin, Zenon
<1>4. ASSUME NEW x \in Nat, NEW y \in Nat, ~(<<y, x>> \in R) PROVE ~(y < x)
  BY <1>4 DEF R
<1>5. QED
  BY <1>3, <1>4

\* Half of the ceiling, rounded down.
Half(p) == Cap(p) \div 2

\* What the loop of backoffFor computes, with e the exact doublings.
Closed(p, e, i) ==
    IF i = 1 THEN e[1]
    ELSE IF e[i - 1] >= Half(p) THEN Cap(p) ELSE e[i]

LEMMA PolicyTypes ==
    ASSUME NEW p \in Policies
    PROVE  /\ Base(p) \in Nat \ {0}
           /\ Cap(p) \in Nat \ {0}
           /\ Half(p) \in Nat
           /\ Cap(p) = 2 * Half(p) \/ Cap(p) = 2 * Half(p) + 1
<1>1. p.Base \in Nat /\ p.Max \in Nat
  OBVIOUS
<1>2. Base(p) \in Nat \ {0} /\ Cap(p) \in Nat \ {0}
  BY <1>1 DEF Base, Cap
<1>3. \A m \in Nat : /\ m \div 2 \in Nat
                     /\ m = 2 * (m \div 2) \/ m = 2 * (m \div 2) + 1
  OBVIOUS
<1>4. QED
  BY <1>2, <1>3 DEF Half

\* The doublings grow, and with the ceiling reached once it stays reached.
LEMMA ClosedStep ==
    ASSUME NEW p \in Policies, NEW N \in Nat \ {0}, NEW e \in [1..N -> Nat],
           e[1] = Base(p), \A i \in 1..N : i # 1 => e[i] = 2 * e[i - 1],
           NEW i \in 1..N, i # 1
    PROVE  Closed(p, e, i) = IF Closed(p, e, i - 1) >= Half(p) THEN Cap(p)
                             ELSE 2 * Closed(p, e, i - 1)
<1>1. Half(p) \in Nat /\ Cap(p) \in Nat /\ Cap(p) >= Half(p)
  <2>1. Half(p) \in Nat /\ Cap(p) \in Nat \ {0} /\ (Cap(p) = 2 * Half(p) \/ Cap(p) = 2 * Half(p) + 1)
    BY PolicyTypes
  <2>2. QED
    BY <2>1
<1>2. i \in Int /\ i - 1 \in 1..N /\ e[i - 1] \in Nat /\ e[i] = 2 * e[i - 1]
  OBVIOUS
<1>3. CASE i - 1 = 1
  BY <1>1, <1>2, <1>3 DEF Closed
<1>4. CASE i - 1 # 1
  <2>1. i - 2 \in 1..N /\ e[i - 2] \in Nat /\ e[i - 1] = 2 * e[i - 2] /\ (i - 1) - 1 = i - 2
    BY <1>2, <1>4
  <2>2. Closed(p, e, i - 1) = IF e[i - 2] >= Half(p) THEN Cap(p) ELSE e[i - 1]
    BY <1>4, <2>1 DEF Closed
  <2>3. e[i - 2] >= Half(p) => e[i - 1] >= Half(p)
    BY <1>1, <1>2, <2>1
  <2>4. Closed(p, e, i) = IF e[i - 1] >= Half(p) THEN Cap(p) ELSE e[i]
    BY DEF Closed
  <2>5. QED
    BY <1>1, <1>2, <2>1, <2>2, <2>3, <2>4
<1>5. QED
  BY <1>3, <1>4

LEMMA DoubledIsClosed ==
    ASSUME NEW p \in Policies, NEW N \in Nat \ {0}, NEW e \in [1..N -> Nat],
           e[1] = Base(p), \A i \in 1..N : i # 1 => e[i] = 2 * e[i - 1]
    PROVE  Doubled(p, N) = Closed(p, e, N)
<1> DEFINE Body(d) == [i \in 1..N |->
                         IF i = 1 THEN Base(p)
                         ELSE IF d[i - 1] >= Half(p) THEN Cap(p) ELSE 2 * d[i - 1]]
           g == [i \in 1..N |-> Closed(p, e, i)]
           d == CHOOSE f : f = Body(f)
<1>1. ASSUME NEW i \in 1..N
      PROVE  g[i] = IF i = 1 THEN Base(p)
                    ELSE IF g[i - 1] >= Half(p) THEN Cap(p) ELSE 2 * g[i - 1]
  <2>1. CASE i = 1
    BY <2>1 DEF Closed
  <2>2. CASE i # 1
    <3>1. i - 1 \in 1..N
      BY <2>2
    <3>2. QED
      BY <2>2, <3>1, ClosedStep
  <2>3. QED
    BY <2>1, <2>2
<1>2. g = Body(g)
  BY <1>1
<1>3. d = Body(d)
  BY <1>2, Zenon
<1>4. Doubled(p, N) = d[N]
  BY DEF Doubled, Half
<1> HIDE DEF g, d
<1>5. \A i \in 1..N : d[i] = g[i]
  <2> DEFINE T == {i \in 1..N : d[i] # g[i]}
  <2>1. SUFFICES ASSUME T # {} PROVE FALSE
    OBVIOUS
  <2>2. PICK x \in T : \A y \in T : ~(y < x)
    <3>1. T \in SUBSET Nat
      OBVIOUS
    <3> HIDE DEF T
    <3>2. QED
      BY <2>1, <3>1, LeastElement
  <2>3. x \in 1..N /\ d[x] # g[x]
    OBVIOUS
  <2>4. d[x] = IF x = 1 THEN Base(p)
               ELSE IF d[x - 1] >= Half(p) THEN Cap(p) ELSE 2 * d[x - 1]
    BY <1>3, <2>3
  <2>5. ASSUME x # 1 PROVE d[x - 1] = g[x - 1]
    <3>1. x - 1 \in 1..N /\ x - 1 < x
      BY <2>3, <2>5
    <3>2. x - 1 \notin T
      BY <2>2, <3>1
    <3>3. QED
      BY <3>1, <3>2
  <2>6. QED
    BY <1>1, <2>3, <2>4, <2>5
<1>6. N \in 1..N
  OBVIOUS
<1>7. QED
  BY <1>4, <1>5, <1>6 DEF g

\* backoffFor is the base doubled once per attempt, capped, for every policy and
\* every attempt: e is the sequence of the exact doublings.  An odd ceiling may be
\* reached one doubling early.
THEOREM BackoffFormula ==
    ASSUME NEW p \in Policies, NEW N \in Nat \ {0}, NEW e \in [1..N -> Nat],
           e[1] = Base(p), \A i \in 1..N : i # 1 => e[i] = 2 * e[i - 1]
    PROVE  \/ backoffFor(p, N) = IF e[N] <= Cap(p) THEN e[N] ELSE Cap(p)
           \/ /\ Cap(p) = 2 * Half(p) + 1
              /\ backoffFor(p, N) = Cap(p) /\ e[N] = Cap(p) - 1
<1>1. backoffFor(p, N) = IF Closed(p, e, N) > Cap(p) THEN Cap(p) ELSE Closed(p, e, N)
  <2>1. ~(N < 1)
    OBVIOUS
  <2>2. Doubled(p, N) = Closed(p, e, N)
    BY DoubledIsClosed
  <2>3. backoffFor(p, N) = IF Doubled(p, N) > Cap(p) THEN Cap(p) ELSE Doubled(p, N)
    BY <2>1, Zenon DEF backoffFor
  <2>4. QED
    BY <2>2, <2>3
<1>2. Cap(p) \in Nat /\ Half(p) \in Nat /\ (Cap(p) = 2 * Half(p) \/ Cap(p) = 2 * Half(p) + 1)
  BY PolicyTypes
<1>3. CASE N = 1
  BY <1>1, <1>2, <1>3 DEF Closed
<1>4. CASE N # 1
  <2>1. e[N] \in Nat /\ e[N - 1] \in Nat /\ e[N] = 2 * e[N - 1]
    BY <1>4
  <2>2. Closed(p, e, N) = IF e[N - 1] >= Half(p) THEN Cap(p) ELSE e[N]
    BY <1>4 DEF Closed
  <2>3. CASE e[N - 1] >= Half(p)
    <3>1. backoffFor(p, N) = Cap(p)
      BY <1>1, <1>2, <2>2, <2>3
    <3>2. e[N] >= 2 * Half(p)
      BY <1>2, <2>1, <2>3
    <3>3. CASE Cap(p) = 2 * Half(p)
      BY <1>2, <2>1, <3>1, <3>2, <3>3
    <3>4. CASE Cap(p) = 2 * Half(p) + 1
      BY <1>2, <2>1, <3>1, <3>2, <3>4
    <3>5. QED
      BY <1>2, <3>3, <3>4
  <2>4. CASE ~(e[N - 1] >= Half(p))
    <3>1. e[N] <= Cap(p)
      BY <1>2, <2>1, <2>4
    <3>2. QED
      BY <1>1, <1>2, <2>1, <2>2, <2>4, <3>1
  <2>5. QED
    BY <2>3, <2>4
<1>5. QED
  BY <1>3, <1>4

\* The sequence of exact doublings exists, so that BackoffFormula says something
\* of every attempt.
LEMMA DoublingsExist ==
    ASSUME NEW b \in Nat, NEW N \in Nat \ {0}
    PROVE  \E e \in [1..N -> Nat] : e[1] = b /\ \A i \in 1..N : i # 1 => e[i] = 2 * e[i - 1]
<1> DEFINE Doubles(e, n) == /\ e \in [1..n -> Nat]
                            /\ e[1] = b
                            /\ \A i \in 1..n : i # 1 => e[i] = 2 * e[i - 1]
           T == {n \in Nat \ {0} : ~\E e : Doubles(e, n)}
<1>1. CASE T = {}
  <2>1. PICK e : Doubles(e, N)
    BY <1>1
  <2>2. QED
    BY <2>1
<1>2. CASE T # {}
  <2>1. PICK n \in T : \A m \in T : ~(m < n)
    <3>1. T \in SUBSET Nat
      OBVIOUS
    <3> HIDE DEF T
    <3>2. QED
      BY <1>2, <3>1, LeastElement
  <2>2. n \in Nat \ {0} /\ ~\E e : Doubles(e, n)
    OBVIOUS
  <2>3. CASE n = 1
    <3>1. Doubles([i \in 1..1 |-> b], 1)
      OBVIOUS
    <3> HIDE DEF Doubles
    <3>2. QED
      BY <2>2, <2>3, <3>1
  <2>4. CASE n # 1
    <3>1. n - 1 \in Nat \ {0} /\ n - 1 < n
      BY <2>2, <2>4
    <3>2. PICK e : Doubles(e, n - 1)
      BY <2>1, <3>1
    <3> DEFINE f == [i \in 1..n |-> IF i < n THEN e[i] ELSE 2 * e[n - 1]]
    <3>3. f \in [1..n -> Nat]
      BY <3>1, <3>2
    <3>4. f[1] = b
      BY <2>2, <2>4, <3>2
    <3>5. ASSUME NEW i \in 1..n, i # 1 PROVE f[i] = 2 * f[i - 1]
      BY <2>2, <3>2, <3>5
    <3>6. Doubles(f, n)
      BY <3>3, <3>4, <3>5
    <3> HIDE DEF Doubles, f
    <3>7. QED
      BY <2>2, <3>6
  <2>5. QED
    BY <2>3, <2>4
<1>3. QED
  BY <1>1, <1>2

LEMMA BackoffPositive ==
    ASSUME NEW p \in Policies, NEW N \in Nat \ {0}
    PROVE  backoffFor(p, N) \in Nat \ {0}
<1>1. Base(p) \in Nat \ {0} /\ Cap(p) \in Nat \ {0} /\ Half(p) \in Nat
  BY PolicyTypes
<1>2. PICK e \in [1..N -> Nat] : e[1] = Base(p) /\ \A i \in 1..N : i # 1 => e[i] = 2 * e[i - 1]
  BY <1>1, DoublingsExist
<1>3. \A i \in 1..N : e[i] # 0
  <2> DEFINE T == {i \in 1..N : e[i] = 0}
  <2>1. SUFFICES ASSUME T # {} PROVE FALSE
    OBVIOUS
  <2>2. PICK x \in T : \A y \in T : ~(y < x)
    <3>1. T \in SUBSET Nat
      OBVIOUS
    <3> HIDE DEF T
    <3>2. QED
      BY <2>1, <3>1, LeastElement
  <2>3. x \in 1..N /\ e[x] = 0 /\ x # 1
    BY <1>1, <1>2
  <2>4. x - 1 \in 1..N /\ x - 1 < x /\ e[x] = 2 * e[x - 1] /\ e[x - 1] \in Nat
    BY <1>2, <2>3
  <2>5. x - 1 \in T
    BY <2>3, <2>4
  <2>6. QED
    BY <2>2, <2>4, <2>5
<1>4. \/ backoffFor(p, N) = IF e[N] <= Cap(p) THEN e[N] ELSE Cap(p)
      \/ backoffFor(p, N) = Cap(p)
  BY <1>2, BackoffFormula
<1>5. e[N] \in Nat \ {0}
  BY <1>3
<1>6. QED
  BY <1>1, <1>4, <1>5

PolicyInv == policy \in Policies

LEMMA PolicyInvariant == Spec => []PolicyInv
<1>1. Init => PolicyInv
  BY DEF Init, PolicyInv
<1>2. PolicyInv /\ [Next]_vars => PolicyInv'
  BY DEF PolicyInv, Next, Wait, Allow, Plan, Refuse, Delete, AdvanceClock, vars, state
<1>3. QED
  BY <1>1, <1>2, PTL DEF Spec

\* The documented formula of backoffFor, for every policy.
THEOREM BackoffIsExact == Spec => []BackoffIsExponential
<1>1. ASSUME NEW p \in Policies, NEW attempt \in 1..6
      PROVE  LET exact == Base(p) * 2 ^ (attempt - 1)
                 d == backoffFor(p, attempt)
             IN  \/ d = IF exact <= Cap(p) THEN exact ELSE Cap(p)
                 \/ Cap(p) % 2 = 1 /\ d = Cap(p) /\ exact = Cap(p) - 1
  <2> DEFINE e == [i \in 1..attempt |-> Base(p) * 2 ^ (i - 1)]
  <2>1. Base(p) \in Nat /\ Cap(p) \in Nat /\ Half(p) \in Nat
    BY PolicyTypes
  <2>2. \A i \in 1..6 : 2 ^ (i - 1) \in Nat /\ (i # 1 => 2 ^ (i - 1) = 2 * 2 ^ ((i - 1) - 1))
    <3>1. ASSUME NEW i \in 1..6, NEW x, x = i - 1, NEW y, y = (i - 1) - 1
          PROVE  2 ^ x \in Nat /\ (i # 1 => 2 ^ x = 2 * 2 ^ y)
      <4>1. 2 ^ 0 = 1 /\ 2 ^ 1 = 2 /\ 2 ^ 2 = 4 /\ 2 ^ 3 = 8 /\ 2 ^ 4 = 16 /\ 2 ^ 5 = 32
        OBVIOUS
      <4>2. \/ i = 1 /\ x = 0
            \/ i = 2 /\ x = 1 /\ y = 0
            \/ i = 3 /\ x = 2 /\ y = 1
            \/ i = 4 /\ x = 3 /\ y = 2
            \/ i = 5 /\ x = 4 /\ y = 3
            \/ i = 6 /\ x = 5 /\ y = 4
        BY <3>1
      <4>3. CASE i = 1 /\ x = 0
        BY <4>1, <4>3
      <4>4. CASE i = 2 /\ x = 1 /\ y = 0
        <5>1. 2 ^ x = 2 /\ 2 ^ y = 1
          BY <4>1, <4>4, Zenon
        <5>2. QED
          BY <5>1
      <4>5. CASE i = 3 /\ x = 2 /\ y = 1
        <5>1. 2 ^ x = 4 /\ 2 ^ y = 2
          BY <4>1, <4>5, Zenon
        <5>2. QED
          BY <5>1
      <4>6. CASE i = 4 /\ x = 3 /\ y = 2
        <5>1. 2 ^ x = 8 /\ 2 ^ y = 4
          BY <4>1, <4>6, Zenon
        <5>2. QED
          BY <5>1
      <4>7. CASE i = 5 /\ x = 4 /\ y = 3
        <5>1. 2 ^ x = 16 /\ 2 ^ y = 8
          BY <4>1, <4>7, Zenon
        <5>2. QED
          BY <5>1
      <4>8. CASE i = 6 /\ x = 5 /\ y = 4
        <5>1. 2 ^ x = 32 /\ 2 ^ y = 16
          BY <4>1, <4>8, Zenon
        <5>2. QED
          BY <5>1
      <4>9. QED
        BY <4>2, <4>3, <4>4, <4>5, <4>6, <4>7, <4>8
    <3>2. QED
      BY <3>1
  <2>3. e \in [1..attempt -> Nat]
    <3>1. ASSUME NEW i \in 1..attempt PROVE Base(p) * 2 ^ (i - 1) \in Nat
      <4>1. i \in 1..6
        OBVIOUS
      <4>2. 2 ^ (i - 1) \in Nat
        BY <2>2, <4>1
      <4>3. \A x, y \in Nat : x * y \in Nat
        OBVIOUS
      <4>4. QED
        BY <2>1, <4>2, <4>3
    <3>2. QED
      BY <3>1
  <2>4. e[1] = Base(p)
    BY <2>1
  <2>5. ASSUME NEW i \in 1..attempt, i # 1 PROVE e[i] = 2 * e[i - 1]
    <3>1. i \in 1..6 /\ i - 1 \in 1..attempt /\ i - 1 \in 1..6
      BY <2>5
    <3>2. 2 ^ ((i - 1) - 1) \in Nat /\ 2 ^ (i - 1) = 2 * 2 ^ ((i - 1) - 1)
      BY <2>2, <2>5, <3>1
    <3>3. \A x, y, z \in Nat : y = 2 * z => x * y = 2 * (x * z)
      OBVIOUS
    <3>4. QED
      BY <2>1, <3>1, <3>2, <3>3
  <2>6. e[attempt] = Base(p) * 2 ^ (attempt - 1)
    OBVIOUS
  <2>7. attempt \in Nat \ {0}
    OBVIOUS
  <2> HIDE DEF e
  <2>8. \/ backoffFor(p, attempt) = IF e[attempt] <= Cap(p) THEN e[attempt] ELSE Cap(p)
        \/ /\ Cap(p) = 2 * Half(p) + 1
           /\ backoffFor(p, attempt) = Cap(p) /\ e[attempt] = Cap(p) - 1
    BY <2>3, <2>4, <2>5, <2>7, BackoffFormula
  <2>9. Cap(p) = 2 * Half(p) + 1 => Cap(p) % 2 = 1
    <3>1. \A c, h \in Nat : c = 2 * h + 1 => c % 2 = 1
      OBVIOUS
    <3>2. QED
      BY <2>1, <3>1
  <2>10. QED
    BY <2>6, <2>8, <2>9
<1>2. PolicyInv => BackoffIsExponential
  BY <1>1 DEF PolicyInv, BackoffIsExponential
<1>3. QED
  BY <1>2, PolicyInvariant, PTL

\* The clock, and the planned time; what is planned for a moment ahead of now
\* comes due by the clock alone.
ClockInv == clock \in Nat /\ nextAt \in Nat

\* The tracker implements what the reconcile loop relies on, for every policy:
\* the planned moment is ahead when it is planned, because no backoff is zero.
THEOREM TrackerRefines == Spec => ImplementsAbstractRestart
<1> USE DEF Abstract!vars
<1>1. Init => Abstract!Init /\ ClockInv
  BY DEF Init, Abstract!Init, ClockInv
<1>2. PolicyInv /\ Balance /\ ClockInv /\ [Next]_vars
        => [Abstract!Next]_(Abstract!vars) /\ ClockInv'
  <2> SUFFICES ASSUME PolicyInv, Balance, ClockInv, [Next]_vars
               PROVE  [Abstract!Next]_(Abstract!vars) /\ ClockInv'
    OBVIOUS
  <2> USE DEF ClockInv, Balance
  <2>1. CASE Allow
    BY <2>1 DEF Allow, Abstract!Next, Abstract!Take
  <2>2. CASE Plan
    <3>1. attempts + 1 \in Nat \ {0}
      OBVIOUS
    <3>2. backoffFor(policy, attempts + 1) \in Nat \ {0}
      BY <3>1, BackoffPositive DEF PolicyInv
    <3>3. nextAt' \in Nat /\ clock' \in Nat /\ clock' < nextAt'
      BY <2>2, <3>2 DEF Plan
    <3>4. QED
      BY <2>2, <3>3 DEF Plan, Abstract!Next, Abstract!Plan
  <2>3. CASE Delete
    BY <2>3 DEF Delete, Abstract!Next, Abstract!Reset
  <2>4. CASE AdvanceClock
    BY <2>4 DEF AdvanceClock, state, Abstract!Next, Abstract!Elapse
  <2>5. CASE Wait \/ Refuse \/ UNCHANGED vars
    BY <2>5 DEF Wait, Refuse, vars
  <2>6. QED
    BY <2>1, <2>2, <2>3, <2>4, <2>5 DEF Next
<1>3. QED
  BY <1>1, <1>2, BalanceInvariant, PolicyInvariant, PTL
     DEF Spec, ImplementsAbstractRestart, Abstract!Spec
============================================================================
