----------------------------- MODULE Induction -----------------------------
(***************************************************************************)
(* Induction for the proofs of the other modules.  The library states it   *)
(* for an operator, which the provers cannot instantiate; here it is       *)
(* stated for sets, from the well-foundedness of inclusion.  With it, what *)
(* a recursive function computes can be proved for every input.            *)
(***************************************************************************)
EXTENDS Integers, FiniteSetTheorems, TLAPS

\* A set of naturals that is not empty has a least member.
LEMMA LeastMember ==
  ASSUME NEW T \in SUBSET Nat, T # {}
  PROVE  \E m \in T : \A k \in T : m <= k
<1> DEFINE R     == StrictSubsetOrdering(Nat)
           Below == {0..n : n \in T}
<1>1. \A n \in Nat : 0..n \in FiniteSubsetsOf(Nat)
  BY FS_Interval DEF FiniteSubsetsOf
<1>2. Below \subseteq FiniteSubsetsOf(Nat) /\ Below # {}
  BY <1>1
<1>3. IsWellFoundedOn(R, FiniteSubsetsOf(Nat))
  BY FS_StrictSubsetOrderingWellFounded
<1>4. PICK x \in Below : \A y \in Below : ~ (<<y, x>> \in R)
  <2> HIDE DEF R, Below
  <2> QED
    BY <1>2, <1>3, WFMin
<1>5. PICK m \in T : x = 0..m
  OBVIOUS
<1>6. ASSUME NEW k \in T, k < m
      PROVE  FALSE
  <2>1. m \in Nat /\ k \in Nat
    OBVIOUS
  <2>2. (0..k) \subseteq (0..m) /\ m \in 0..m /\ m \notin 0..k
    BY <2>1, <1>6
  <2>3. 0..k # 0..m
    BY <2>2
  <2>4. 0..k \in SUBSET Nat /\ 0..m \in SUBSET Nat
    OBVIOUS
  <2>5. <<0..k, 0..m>> \in R
    BY <2>2, <2>3, <2>4 DEF StrictSubsetOrdering
  <2>6. QED
    BY <1>4, <1>5, <2>5
<1>7. QED
  BY <1>6

\* Induction up to a bound: a set with 0 and with the successor of each of its
\* members below n has everything up to n.
LEMMA Climb ==
  ASSUME NEW S, NEW n \in Nat, 0 \in S,
         \A k \in 0..(n - 1) : k \in S => k + 1 \in S
  PROVE  \A k \in 0..n : k \in S
<1> SUFFICES ASSUME {k \in 0..n : k \notin S} # {}
             PROVE  FALSE
  OBVIOUS
<1> DEFINE T == {k \in 0..n : k \notin S}
<1>1. PICK m \in T : \A k \in T : m <= k
  <2>1. T \in SUBSET Nat /\ T # {}
    OBVIOUS
  <2>2. QED
    BY <2>1, LeastMember
<1>2. m \in 1..n
  OBVIOUS
<1>3. m - 1 \in 0..(n - 1) /\ m - 1 \notin T
  BY <1>1, <1>2
<1>4. m - 1 \in S
  BY <1>3
<1>5. (m - 1) + 1 \in S
  BY <1>3, <1>4
<1>6. QED
  BY <1>2, <1>5

\* Powers of two are positive and double: as many as a set has subsets.
LEMMA PowerOfTwo ==
  /\ 2^1 = 2
  /\ \A n \in Nat : 2^n \in Nat \ {0} /\ 2^(n + 1) = 2 * 2^n
<1>1. ASSUME NEW n \in Nat
      PROVE  /\ IsFiniteSet(SUBSET (1..n)) /\ Cardinality(SUBSET (1..n)) = 2^n
             /\ Cardinality(SUBSET (1..n)) \in Nat \ {0}
  <2>1. IsFiniteSet(1..n) /\ Cardinality(1..n) = n
    BY FS_Interval
  <2>2. IsFiniteSet(SUBSET (1..n)) /\ Cardinality(SUBSET (1..n)) = 2^Cardinality(1..n)
    BY <2>1, FS_SUBSET
  <2>3. SUBSET (1..n) # {}
    OBVIOUS
  <2>4. QED
    BY <2>1, <2>2, <2>3, FS_EmptySet, FS_CardinalityType
<1>2. ASSUME NEW n \in Nat
      PROVE  Cardinality(SUBSET (1..(n + 1))) = Cardinality(SUBSET (1..n)) + Cardinality(SUBSET (1..n))
  <2> DEFINE Old == SUBSET (1..n)
             New == {T \cup {n + 1} : T \in Old}
             f   == [T \in Old |-> T \cup {n + 1}]
  <2>1. \A T \in Old : n + 1 \notin T
    OBVIOUS
  <2>2. f \in Bijection(Old, New)
    <3>1. f \in [Old -> New]
      OBVIOUS
    <3>2. \A T, U \in Old : f[T] = f[U] => T = U
      BY <2>1
    <3>3. \A t \in New : \E T \in Old : f[T] = t
      OBVIOUS
    <3>4. QED
      <4> HIDE DEF Old, New, f
      <4>1. QED
        BY <3>1, <3>2, <3>3 DEF Bijection, Injection, Surjection, IsInjective
  <2>3. IsFiniteSet(Old) /\ Cardinality(Old) \in Nat
    BY <1>1
  <2>4. IsFiniteSet(New) /\ Cardinality(New) = Cardinality(Old)
    <3> HIDE DEF Old, New, f
    <3>1. ExistsBijection(Old, New)
      BY <2>2, Zenon DEF ExistsBijection
    <3>2. QED
      BY <2>3, <3>1, FS_Bijection
  <2>5. Old \cap New = {}
    BY <2>1
  <2>6. SUBSET (1..(n + 1)) = Old \cup New
    <3>1. ASSUME NEW T \in SUBSET (1..(n + 1)) PROVE T \in Old \cup New
      <4>1. CASE n + 1 \in T
        <5>1. T \ {n + 1} \in Old /\ T = (T \ {n + 1}) \cup {n + 1}
          BY <4>1
        <5>2. QED
          BY <5>1
      <4>2. CASE n + 1 \notin T
        BY <4>2
      <4>3. QED
        BY <4>1, <4>2
    <3>2. ASSUME NEW T \in Old \cup New PROVE T \in SUBSET (1..(n + 1))
      <4>1. 1..n \subseteq 1..(n + 1) /\ n + 1 \in 1..(n + 1)
        OBVIOUS
      <4>2. QED
        BY <4>1
    <3>3. QED
      BY <3>1, <3>2
  <2>7. Cardinality(Old \cup New) = Cardinality(Old) + Cardinality(New) - Cardinality({})
    <3> HIDE DEF Old, New
    <3> QED
      BY <2>3, <2>4, <2>5, FS_Union
  <2>8. Cardinality(Old \cup New) = Cardinality(Old) + Cardinality(Old)
    <3> HIDE DEF Old, New
    <3>1. Cardinality({}) = 0
      BY FS_EmptySet
    <3>2. QED
      BY <2>3, <2>4, <2>7, <3>1
  <2>9. QED
    BY <2>6, <2>8, Zenon
<1>3. ASSUME NEW n \in Nat
      PROVE  2^n \in Nat \ {0} /\ 2^(n + 1) = 2 * 2^n
  <2>1. n + 1 \in Nat
    OBVIOUS
  <2>2. PICK c \in Nat \ {0} : c = Cardinality(SUBSET (1..n))
    BY <1>1
  <2>3. Cardinality(SUBSET (1..(n + 1))) = 2 * c
    BY <1>2, <2>2
  <2>4. 2^n = c /\ 2^(n + 1) = 2 * c
    BY <1>1, <2>1, <2>2, <2>3, Zenon
  <2>5. QED
    BY <2>2, <2>4, Zenon
<1>4. 2^1 = 2
  <2>1. SUBSET (1..1) = {{}} \cup {{1}}
    OBVIOUS
  <2>2. Cardinality({{}} \cup {{1}}) = 2
    <3>1. {1} \notin {{}}
      OBVIOUS
    <3>2. IsFiniteSet({{}}) /\ Cardinality({{}}) = 1
      BY FS_Singleton
    <3>3. Cardinality({{}} \cup {{1}}) = Cardinality({{}}) + 1
      BY <3>1, <3>2, FS_AddElement
    <3>4. QED
      BY <3>2, <3>3
  <2>3. QED
    BY <1>1, <2>1, <2>2, Zenon
<1>5. QED
  BY <1>3, <1>4

\* A larger exponent, a larger power.
LEMMA PowerGrows ==
  ASSUME NEW a \in Nat, NEW b \in Nat, a < b
  PROVE  2^a < 2^b /\ 2 * 2^a <= 2^b
<1> DEFINE S == {k \in Nat : 2^(a + 1) <= 2^((a + 1) + k)}
<1>1. 0 \in S
  <2>1. 2^(a + 1) \in Nat
    BY PowerOfTwo
  <2>2. (a + 1) + 0 = a + 1
    OBVIOUS
  <2>3. 2^((a + 1) + 0) = 2^(a + 1)
    BY <2>2, Zenon
  <2>4. PICK p \in Nat : p = 2^(a + 1)
    BY <2>1
  <2>5. 2^(a + 1) <= 2^((a + 1) + 0)
    <3>1. p <= p
      OBVIOUS
    <3>2. QED
      BY <2>3, <2>4, <3>1, Zenon
  <2>6. QED
    BY <2>5, Zenon
<1>2. ASSUME NEW k \in Nat, k \in S
      PROVE  k + 1 \in S
  <2> DEFINE n == (a + 1) + k
  <2>1. n \in Nat /\ (a + 1) + (k + 1) = n + 1 /\ k + 1 \in Nat /\ a + 1 \in Nat
    OBVIOUS
  <2>2. PICK p \in Nat, q \in Nat : p = 2^(a + 1) /\ q = 2^n
    BY <2>1, PowerOfTwo
  <2>3. p <= q
    BY <1>2, <2>2, Zenon
  <2>4. 2^(n + 1) = 2 * q
    BY <2>1, <2>2, PowerOfTwo, Zenon
  <2>5. 2^((a + 1) + (k + 1)) = 2 * q
    BY <2>1, <2>4, Zenon
  <2>6. p <= 2 * q
    BY <2>3
  <2>7. QED
    BY <2>1, <2>2, <2>5, <2>6, Zenon
<1>3. b - (a + 1) \in Nat /\ (a + 1) + (b - (a + 1)) = b /\ b - (a + 1) \in 0..(b - (a + 1))
  OBVIOUS
<1>4. b - (a + 1) \in S
  <2> HIDE DEF S
  <2>1. \A k \in 0..((b - (a + 1)) - 1) : k \in S => k + 1 \in S
    BY <1>2
  <2>2. QED
    BY <1>1, <1>3, <2>1, Climb
<1>5. 2^(a + 1) <= 2^b
  BY <1>3, <1>4, Zenon
<1>6. PICK p \in Nat \ {0}, q \in Nat : p = 2^a /\ q = 2^b
  BY PowerOfTwo
<1>7. 2 * p <= q
  <2>1. 2^(a + 1) = 2 * p
    BY <1>6, PowerOfTwo, Zenon
  <2>2. QED
    BY <1>5, <1>6, <2>1, Zenon
<1>8. p < q
  BY <1>7
<1>9. QED
  BY <1>6, <1>7, <1>8, Zenon

\* A recursion up to n that stays in a set has a solution there.
Runs(f, S, n, start, next) ==
    /\ f \in [0..n -> S] /\ f[0] = start
    /\ \A i \in 1..n : f[i] = next[<<f[i - 1], i>>]

LEMMA Recursion ==
  ASSUME NEW S, NEW n \in Nat, NEW start \in S, NEW next \in [S \X (1..n) -> S]
  PROVE  \E f : Runs(f, S, n, start, next)
<1> DEFINE Solves(f, k) == /\ f \in [0..k -> S] /\ f[0] = start
                           /\ \A i \in 1..k : f[i] = next[<<f[i - 1], i>>]
           Solved == {k \in 0..n : \E f \in [0..k -> S] : Solves(f, k)}
<1>1. 0 \in Solved
  <2> DEFINE f == [i \in 0..0 |-> start]
  <2>1. f \in [0..0 -> S] /\ f[0] = start
    OBVIOUS
  <2>2. 1..0 = {} /\ 0 \in 0..n
    OBVIOUS
  <2>3. QED
    <3> HIDE DEF f
    <3>1. QED
      BY <2>1, <2>2
<1>2. ASSUME NEW k \in 0..(n - 1), k \in Solved
      PROVE  k + 1 \in Solved
  <2>1. PICK g \in [0..k -> S] : Solves(g, k)
    BY <1>2
  <2> DEFINE f == [i \in 0..(k + 1) |-> IF i <= k THEN g[i] ELSE next[<<g[k], k + 1>>]]
  <2>2. /\ k \in Nat /\ k + 1 \in 1..n /\ g[k] \in S
        /\ \A i \in 0..k : i \in 0..(k + 1) /\ i <= k
    OBVIOUS
  <2>3. next[<<g[k], k + 1>>] \in S
    BY <2>2
  <2>4. f \in [0..(k + 1) -> S]
    BY <2>2, <2>3
  <2>5. \A i \in 0..k : f[i] = g[i]
    BY <2>2
  <2>6. f[k + 1] = next[<<g[k], k + 1>>]
    BY <2>2
  <2>7. f[0] = start
    BY <2>1, <2>2, <2>5
  <2>8. ASSUME NEW i \in 1..(k + 1)
        PROVE  f[i] = next[<<f[i - 1], i>>]
    <3> HIDE DEF f
    <3>1. i - 1 \in 0..k /\ (i \in 1..k \/ i = k + 1)
      BY <2>2
    <3>2. CASE i \in 1..k
      <4>1. i \in 0..k /\ g[i] = next[<<g[i - 1], i>>]
        BY <2>1, <3>2
      <4>2. QED
        BY <2>5, <3>1, <4>1
    <3>3. CASE i = k + 1
      <4>1. i - 1 = k
        BY <2>2, <3>3
      <4>2. QED
        BY <2>5, <2>6, <3>1, <3>3, <4>1
    <3>4. QED
      BY <3>1, <3>2, <3>3
  <2>9. k + 1 \in 0..n
    BY <2>2
  <2>10. QED
    <3> HIDE DEF f
    <3>1. QED
      BY <2>4, <2>7, <2>8, <2>9
<1>3. n \in Solved
  <2> HIDE DEF Solved
  <2>1. n \in 0..n
    OBVIOUS
  <2>2. QED
    BY <1>1, <1>2, <2>1, Climb
<1>4. QED
  BY <1>3 DEF Runs

\* Quotient and remainder.
LEMMA DivMod ==
  ASSUME NEW C \in Nat, C > 0, NEW a \in Nat
  PROVE  a = C * (a \div C) + (a % C) /\ a % C \in 0..(C - 1) /\ a \div C \in Nat
<1>1. a = C * (a \div C) + (a % C)
  BY SMT
<1>2. a % C \in 0..(C - 1) /\ a \div C \in Nat
  OBVIOUS
<1>3. QED
  BY <1>1, <1>2

LEMMA ModIs ==
  ASSUME NEW C \in Nat, C > 0, NEW k \in Nat, NEW m \in 0..(C - 1)
  PROVE  (C * k + m) % C = m
OBVIOUS

\* The place after a place.
LEMMA ModNext ==
  ASSUME NEW C \in Nat, C > 0, NEW a \in Nat
  PROVE  (a + 1) % C = IF (a % C) + 1 = C THEN 0 ELSE (a % C) + 1
<1> DEFINE k == a \div C
           m == a % C
<1>1. a = C * k + m /\ m \in 0..(C - 1) /\ k \in Nat
  BY DivMod
<1> HIDE DEF k, m
<1>2. CASE m + 1 = C
  <2>1. a + 1 = C * (k + 1) + 0 /\ 0 \in 0..(C - 1) /\ k + 1 \in Nat
    BY <1>1, <1>2
  <2>2. (C * (k + 1) + 0) % C = 0
    BY <2>1, ModIs
  <2>3. QED
    BY <2>1, <2>2, <1>2 DEF m
<1>3. CASE m + 1 # C
  <2>1. a + 1 = C * k + (m + 1) /\ m + 1 \in 0..(C - 1)
    BY <1>1, <1>3
  <2>2. (C * k + (m + 1)) % C = m + 1
    BY <2>1, <1>1, ModIs
  <2>3. QED
    BY <2>1, <2>2, <1>3 DEF m
<1>4. QED
  BY <1>2, <1>3

\* The remainder of a number within one period of its range.
LEMMA ModWithin ==
  ASSUME NEW C \in Nat, C > 0
  PROVE  /\ \A m \in 0..(C - 1) : m % C = m
         /\ \A m \in (1 - C)..(-1) : m % C = m + C
OBVIOUS

\* Two runs with the same start and the same steps are the same.
RunTo(f, n)    == f = [k \in 0..n |-> f[k]]
StepsAlike(f, g, n) == g[0] = f[0] /\ \A k \in 1..n : g[k - 1] = f[k - 1] => g[k] = f[k]

LEMMA RunsAgree ==
  ASSUME NEW n \in Nat, NEW f, NEW g, RunTo(f, n), RunTo(g, n), StepsAlike(f, g, n)
  PROVE  g = f
<1> DEFINE Same == {k \in 0..n : g[k] = f[k]}
<1>1. 0 \in Same
  BY DEF StepsAlike
<1>2. ASSUME NEW k \in 0..(n - 1), k \in Same
      PROVE  k + 1 \in Same
  <2>1. k + 1 \in 1..n /\ (k + 1) - 1 = k /\ k + 1 \in 0..n
    OBVIOUS
  <2>2. g[(k + 1) - 1] = f[(k + 1) - 1] => g[k + 1] = f[k + 1]
    BY <2>1 DEF StepsAlike
  <2>3. QED
    BY <1>2, <2>1, <2>2
<1>3. \A k \in 0..n : k \in Same
  <2> HIDE DEF Same
  <2>1. QED
    BY <1>1, <1>2, Climb
<1>4. QED
  BY <1>3 DEF RunTo
=============================================================================
