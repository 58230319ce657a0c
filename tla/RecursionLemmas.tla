-------------------------- MODULE RecursionLemmas --------------------------
(***************************************************************************)
(* Least elements, induction over the natural numbers and definition by    *)
(* recursion over an interval, stated about sets and functions only, so    *)
(* that a proof can cite them like any other fact.                         *)
(***************************************************************************)
EXTENDS Integers, WellFoundedInduction, TLAPS

\* Every set of natural numbers that has an element has a smallest one.
LEMMA LeastNat ==
    ASSUME NEW T \in SUBSET Nat, T # {}
    PROVE  \E m \in T : \A k \in T : m <= k
  <1> DEFINE R == OpToRel(<, Nat)
  <1>1. IsWellFoundedOn(R, Nat)
    BY NatLessThanWellFounded
  <1>2. \A x, y \in Nat : <<x, y>> \in R <=> x < y
    BY DEF OpToRel
  <1> HIDE DEF R
  <1>3. PICK m \in T : \A k \in T : ~(<<k, m>> \in R)
    BY <1>1, WFMin
  <1>4. \A k \in T : m <= k
    <2> TAKE k \in T
    <2>1. m \in Nat /\ k \in Nat
      OBVIOUS
    <2>2. ~(k < m)
      BY <1>2, <1>3, <2>1
    <2> QED BY <2>1, <2>2
  <1> QED BY <1>4

\* A bounded one has a largest.
LEMMA GreatestNat ==
    ASSUME NEW n \in Nat, NEW T \in SUBSET (0..n), T # {}
    PROVE  \E m \in T : \A k \in T : k <= m
  <1> DEFINE U == {n - k : k \in T}
  <1>1. U \in SUBSET Nat /\ U # {}
    <2>1. \A k \in T : n - k \in Nat
      OBVIOUS
    <2>2. PICK k \in T : TRUE
      OBVIOUS
    <2>3. n - k \in U
      OBVIOUS
    <2> QED BY <2>1, <2>3
  <1>2. PICK u \in U : \A k \in U : u <= k
    BY <1>1, LeastNat
  <1>3. PICK m \in T : u = n - m
    BY <1>2
  <1>4. ASSUME NEW k \in T PROVE k <= m
    <2>1. n - k \in U
      OBVIOUS
    <2>2. u <= n - k
      BY <1>2, <2>1
    <2>3. k \in 0..n /\ m \in 0..n
      OBVIOUS
    <2> QED BY <1>3, <2>2, <2>3
  <1> QED BY <1>4

\* A set that has 0 and, with each number, the next one, has them all.
LEMMA SetInduction ==
    ASSUME NEW S, 0 \in S, \A n \in Nat : n \in S => n + 1 \in S
    PROVE  Nat \subseteq S
  <1> SUFFICES ASSUME Nat \ S # {} PROVE FALSE
    OBVIOUS
  <1>1. PICK m \in Nat \ S : \A k \in Nat \ S : m <= k
    BY LeastNat
  <1>2. m # 0 /\ m - 1 \in Nat /\ m - 1 \in S
    BY <1>1
  <1> QED BY <1>1, <1>2

\* The same over an interval that begins with 0.
LEMMA IntervalInduction ==
    ASSUME NEW n \in Nat, NEW S, 0 \in S, \A k \in 1..n : k - 1 \in S => k \in S
    PROVE  0..n \subseteq S
  <1> DEFINE U == {k \in Nat : k <= n => k \in S}
  <1>1. 0 \in U
    OBVIOUS
  <1>2. ASSUME NEW k \in Nat, k \in U PROVE k + 1 \in U
    <2> SUFFICES ASSUME k + 1 <= n PROVE k + 1 \in S
      OBVIOUS
    <2>1. k + 1 \in 1..n /\ (k + 1) - 1 = k /\ k \in S
      BY <1>2
    <2> QED BY <2>1
  <1>3. Nat \subseteq U
    <2> HIDE DEF U
    <2> QED BY <1>1, <1>2, SetInduction
  <1> QED BY <1>3

\* n step functions over X, and the results f of taking them in turn from x0
StepFunctions(n, X) == [1..n -> [X -> X]]
IsRunOf(f, x0, n, F, X) ==
    f \in [0..n -> X] /\ f[0] = x0 /\ \A k \in 1..n : f[k] = F[k][f[k - 1]]

\* Step functions can be taken in turn.
LEMMA Recursion ==
    ASSUME NEW X, NEW x0 \in X, NEW n \in Nat, NEW F \in StepFunctions(n, X)
    PROVE  \E f : IsRunOf(f, x0, n, F, X)
  <1>0. F \in [1..n -> [X -> X]]
    BY DEF StepFunctions
  <1> DEFINE Upto(m, f) == f[0] = x0 /\ \A k \in 1..m : f[k] = F[k][f[k - 1]]
             S == {m \in Nat : \E f \in [0..m -> X] : Upto(m, f)}
  <1>1. 0 \in S
    <2>1. Upto(0, [k \in 0..0 |-> x0])
      OBVIOUS
    <2> QED BY <2>1
  <1>2. ASSUME NEW k \in 1..n, k - 1 \in S PROVE k \in S
    <2>1. PICK m \in Nat : m = k - 1 /\ k = m + 1
      OBVIOUS
    <2>2. PICK f \in [0..m -> X] : Upto(m, f)
      BY <1>2, <2>1
    <2> DEFINE g == [j \in 0 .. m + 1 |-> IF j = m + 1 THEN F[m + 1][f[m]] ELSE f[j]]
    <2>3. f[m] \in X /\ F[m + 1] \in [X -> X]
      BY <1>0, <2>1
    <2>4. g \in [0 .. m + 1 -> X]
      BY <2>3
    <2>5. g[0] = x0 /\ \A j \in 0..m : g[j] = f[j]
      BY <2>2
    <2>6. g[m + 1] = F[m + 1][g[m]]
      BY <2>5
    <2>7. \A j \in 1 .. m + 1 : j = m + 1 \/ (j \in 1..m /\ j - 1 \in 0..m /\ j \in 0..m)
      OBVIOUS
    <2>8. ASSUME NEW j \in 1 .. m + 1 PROVE g[j] = F[j][g[j - 1]]
      <3>1. CASE j = m + 1
        <4>1. j - 1 = m
          BY <3>1
        <4> QED BY <2>6, <3>1, <4>1
      <3>2. CASE j \in 1..m /\ j - 1 \in 0..m /\ j \in 0..m
        <4>1. g[j] = f[j] /\ g[j - 1] = f[j - 1]
          BY <2>5, <3>2
        <4> QED BY <2>2, <3>2, <4>1
      <3> QED BY <2>7, <3>1, <3>2
    <2>9. Upto(m + 1, g)
      BY <2>5, <2>8
    <2>10. m + 1 \in S
      <3> HIDE DEF g, Upto
      <3> QED BY <2>4, <2>9
    <2> QED BY <2>1, <2>10
  <1>3. n \in S
    <2> HIDE DEF S
    <2>1. 0..n \subseteq S
      BY <1>1, <1>2, IntervalInduction
    <2> QED BY <2>1
  <1>4. PICK f \in [0..n -> X] : Upto(n, f)
    BY <1>3
  <1>5. IsRunOf(f, x0, n, F, X)
    BY <1>4 DEF IsRunOf
  <1> QED BY <1>5
=============================================================================
