------------------------------- MODULE Induction -------------------------------
(***************************************************************************)
(* Induction over numbers and finite sets, powers of two, sums, and the    *)
(* existence of recursive functions. The provers cannot use an induction   *)
(* theorem whose parameter is an operator. The theorems about well-founded *)
(* relations that speak of sets lead to the same facts.                    *)
(***************************************************************************)
EXTENDS Integers, FiniteSetsExt, FiniteSetTheorems, WellFoundedInduction, TLAPS

\* Every set of naturals has a least element.
LEMMA LeastNatural ==
    ASSUME NEW T \in SUBSET Nat, T # {}
    PROVE  \E m \in T : \A n \in T : m <= n
<1>. DEFINE Intervals == {0..n : n \in T}
<1>1. Intervals \subseteq FiniteSubsetsOf(Nat) /\ Intervals # {}
  <2>1. ASSUME NEW n \in T PROVE 0..n \in FiniteSubsetsOf(Nat)
    <3>1. IsFiniteSet(0..n)
      BY FS_Interval
    <3>. QED
      BY <3>1 DEF FiniteSubsetsOf
  <2>. QED
    BY <2>1
<1>2. PICK x \in Intervals : \A y \in Intervals : <<y, x>> \notin StrictSubsetOrdering(Nat)
  <2>1. IsWellFoundedOn(StrictSubsetOrdering(Nat), FiniteSubsetsOf(Nat))
    BY FS_StrictSubsetOrderingWellFounded
  <2>. HIDE DEF Intervals
  <2>. QED
    BY <1>1, <2>1, WFMin
<1>3. PICK m \in T : x = 0..m
  BY <1>2
<1>4. ASSUME NEW n \in T, n < m PROVE FALSE
  <2>1. 0..n \in Intervals /\ 0..n \subseteq 0..m /\ m \in 0..m /\ m \notin 0..n
    BY <1>4
  <2>2. <<0..n, 0..m>> \in StrictSubsetOrdering(Nat)
    BY <2>1 DEF StrictSubsetOrdering
  <2>. QED
    BY <1>2, <1>3, <2>1, <2>2
<1>. QED
  BY <1>4

\* What holds of 0 and passes to the next number holds of every number.
LEMMA FromZero ==
    ASSUME NEW T, 0 \in T, \A n \in Nat : n \in T => n + 1 \in T
    PROVE  Nat \subseteq T
<1>. SUFFICES ASSUME Nat \ T # {} PROVE FALSE
  OBVIOUS
<1>. DEFINE U == Nat \ T
<1>1. PICK m \in U : \A n \in U : m <= n
  BY LeastNatural
<1>2. m \in Nat /\ m # 0 /\ m - 1 \in Nat /\ (m - 1) + 1 = m
  BY <1>1
<1>3. m - 1 \in T
  BY <1>1, <1>2
<1>. QED
  BY <1>1, <1>2, <1>3

-----------------------------------------------------------------------------
(* Powers of two count subsets.                                             *)

\* Powers of two are what one expects.
LEMMA Powers ==
    /\ 2^0 = 1
    /\ \A n \in Nat : 2^n \in Nat /\ 2^n >= 1 /\ 2^(n + 1) = 2 * 2^n
<1>1. ASSUME NEW S, IsFiniteSet(S)
      PROVE  IsFiniteSet(SUBSET S) /\ Cardinality(SUBSET S) = 2^Cardinality(S) /\ 2^Cardinality(S) \in Nat
  BY <1>1, FS_SUBSET, FS_CardinalityType
<1>2. ASSUME NEW n \in Nat
      PROVE  IsFiniteSet(1..n) /\ Cardinality(1..n) = n
  BY FS_Interval
<1>3. 2^0 = 1
  <2>1. IsFiniteSet({}) /\ Cardinality({}) = 0
    BY FS_EmptySet
  <2>2. SUBSET {} = {{}}
    OBVIOUS
  <2>3. Cardinality({{}}) = 1
    BY FS_Singleton
  <2>. QED
    BY <1>1, <2>1, <2>2, <2>3
<1>4. ASSUME NEW n \in Nat PROVE 2^n \in Nat
  BY <1>1, <1>2
<1>5. ASSUME NEW n \in Nat PROVE 2^(n + 1) = 2 * 2^n
  <2>. DEFINE m == n + 1
              Old == SUBSET (1..n)
              New == {A \union {m} : A \in Old}
              f == [A \in Old |-> A \union {m}]
  <2>1. IsFiniteSet(Old) /\ Cardinality(Old) = 2^n
    BY <1>1, <1>2
  <2>2. ExistsBijection(Old, New)
    <3>1. f \in [Old -> New] /\ \A A \in Old : f[A] = A \union {m}
      OBVIOUS
    <3>2. ASSUME NEW A \in Old, NEW B \in Old, f[A] = f[B] PROVE A = B
      <4>1. A = f[A] \ {m} /\ B = f[B] \ {m}
        BY <3>1
      <4>. QED
        BY <3>2, <4>1
    <3>3. ASSUME NEW B \in New PROVE \E A \in Old : f[A] = B
      OBVIOUS
    <3>. HIDE DEF f, Old, New
    <3>4. f \in Bijection(Old, New)
      BY <3>1, <3>2, <3>3 DEF Bijection, Injection, Surjection, IsInjective
    <3>. QED
      BY <3>4 DEF ExistsBijection
  <2>3. IsFiniteSet(New) /\ Cardinality(New) = 2^n
    BY <2>1, <2>2, FS_Bijection
  <2>4. Old \union New = SUBSET (1..m) /\ Old \cap New = {}
    <3>1. ASSUME NEW B \in SUBSET (1..m) PROVE B \in Old \union New
      <4>1. CASE m \notin B
        BY <3>1, <4>1
      <4>2. CASE m \in B
        <5>1. B \ {m} \in Old /\ B = (B \ {m}) \union {m}
          BY <3>1, <4>2
        <5>. QED
          BY <5>1
      <4>. QED
        BY <4>1, <4>2
    <3>2. ASSUME NEW A \in Old PROVE m \notin A /\ A \subseteq 1..m
      BY <3>2
    <3>3. Old \subseteq SUBSET (1..m) /\ New \subseteq SUBSET (1..m)
      <4>1. m \in 1..m
        OBVIOUS
      <4>. QED
        BY <3>2, <4>1
    <3>4. Old \cap New = {}
      BY <3>2
    <3>. HIDE DEF Old, New
    <3>. QED
      BY <3>1, <3>3, <3>4
  <2>5. Cardinality(SUBSET (1..m)) = 2^m
    <3>1. m \in Nat
      OBVIOUS
    <3>. HIDE DEF m
    <3>. QED
      BY <1>1, <1>2, <3>1
  <2>6. Cardinality(Old \union New) = Cardinality(Old) + Cardinality(New) - Cardinality({})
    BY <2>1, <2>3, <2>4, FS_Union
  <2>7. Cardinality({}) = 0 /\ 2^n \in Nat
    BY <1>4, FS_EmptySet
  <2>8. Cardinality(SUBSET (1..m)) = 2^n + 2^n
    <3>. HIDE DEF Old, New
    <3>1. Cardinality(SUBSET (1..m)) = 2^n + 2^n - 0
      BY <2>1, <2>3, <2>4, <2>6, <2>7, Zenon
    <3>2. \A k \in Nat : k + k - 0 = k + k
      OBVIOUS
    <3>. QED
      BY <2>7, <3>1, <3>2
  <2>. QED
    BY <2>5, <2>7, <2>8
<1>6. ASSUME NEW n \in Nat PROVE 2^n >= 1
  <2>. DEFINE T == {k \in Nat : 2^k >= 1}
  <2>1. 0 \in T
    BY <1>3
  <2>2. \A k \in Nat : k \in T => k + 1 \in T
    BY <1>4, <1>5
  <2>. HIDE DEF T
  <2>3. n \in T
    BY <2>1, <2>2, FromZero
  <2>. QED
    BY <2>3 DEF T
<1>. QED
  BY <1>3, <1>4, <1>5, <1>6

-----------------------------------------------------------------------------
(* Quotients and remainders.                                                *)

\* A quotient and its remainder.
LEMMA Division ==
    ASSUME NEW v \in Nat, NEW m \in Nat, m > 0
    PROVE  /\ v \div m \in Nat /\ v % m \in Nat /\ v % m < m
           /\ v = m * (v \div m) + (v % m)
OBVIOUS

\* There is only one quotient.
LEMMA Quotient ==
    ASSUME NEW m \in Nat, m > 0, NEW q \in Nat, NEW r \in Nat, r < m
    PROVE  (m * q + r) \div m = q /\ (m * q + r) % m = r
<1>. DEFINE v == m * q + r
            p == v \div m
            s == v % m
<1>1. v \in Nat /\ p \in Nat /\ s \in Nat /\ s < m /\ v = m * p + s
  <2>1. m * q \in Nat
    OBVIOUS
  <2>2. v \in Nat
    BY <2>1
  <2>. HIDE DEF v
  <2>. QED
    BY <2>2, Division
<1>2. m * p + s = m * q + r
  BY <1>1
<1>. HIDE DEF p, s, v
<1>3. ~(p < q)
  <2>1. SUFFICES ASSUME p < q PROVE FALSE
    OBVIOUS
  <2>2. m * (p + 1) <= m * q
    BY <1>1, <2>1
  <2>3. m * (p + 1) = m * p + m /\ m * p \in Nat /\ m * q \in Nat
    BY <1>1
  <2>. QED
    BY <1>1, <1>2, <2>2, <2>3
<1>4. ~(q < p)
  <2>1. SUFFICES ASSUME q < p PROVE FALSE
    OBVIOUS
  <2>2. m * (q + 1) <= m * p
    BY <1>1, <2>1
  <2>3. m * (q + 1) = m * q + m /\ m * p \in Nat /\ m * q \in Nat
    BY <1>1
  <2>. QED
    BY <1>1, <1>2, <2>2, <2>3
<1>5. p = q
  BY <1>1, <1>3, <1>4
<1>6. s = r
  <2>1. m * q \in Nat
    OBVIOUS
  <2>. QED
    BY <1>1, <1>2, <1>5, <2>1
<1>. QED
  BY <1>5, <1>6 DEF v, p, s

\* To divide by a product is to divide by one factor after the other.
LEMMA DivideTwice ==
    ASSUME NEW v \in Nat, NEW b \in Nat, b > 0, NEW m \in Nat, m > 0
    PROVE  v \div (b * m) = (v \div m) \div b
<1>. DEFINE w == v \div m
            r == v % m
            p == w \div b
            s == w % b
<1>1. w \in Nat /\ r \in Nat /\ r < m /\ v = m * w + r
  BY Division
<1>. HIDE DEF w, r
<1>2. p \in Nat /\ s \in Nat /\ s < b /\ w = b * p + s
  BY <1>1, Division
<1>. HIDE DEF p, s
<1>3. b * m \in Nat /\ b * m > 0 /\ m * s \in Nat /\ m * s + r \in Nat
  BY <1>1, <1>2
<1>4. v = (b * m) * p + (m * s + r)
  <2>1. m * w = m * (b * p) + m * s
    BY <1>2
  <2>2. m * (b * p) = (b * m) * p /\ (b * m) * p \in Nat
    BY <1>2
  <2>. QED
    BY <1>1, <1>3, <2>1, <2>2
<1>5. m * s + r < b * m
  <2>1. m * (s + 1) <= m * b
    BY <1>2
  <2>2. m * (s + 1) = m * s + m /\ m * b = b * m
    BY <1>2
  <2>. QED
    BY <1>1, <1>3, <2>1, <2>2
<1>6. v \div (b * m) = p
  <2>. DEFINE n == b * m
              e == m * s + r
  <2>1. n \in Nat /\ n > 0 /\ e \in Nat /\ e < n /\ v = n * p + e
    BY <1>3, <1>4, <1>5
  <2>. HIDE DEF n, e
  <2>2. v \div n = p
    BY <1>2, <2>1, Quotient
  <2>. QED
    BY <2>2 DEF n
<1>. QED
  BY <1>6 DEF w, p

-----------------------------------------------------------------------------
(* Sums over finite sets.                                                   *)

Sum(f, S) == MapThenSumSet(LAMBDA x : f[x], S)

\* The choice that the folds make.
Pick(s) == CHOOSE x \in s : TRUE

\* g adds up f over the sets of D, element by element.
AddsUp(g, f, D) ==
    \A s \in D : g[s] = IF s = {} THEN 0 ELSE f[Pick(s)] + g[s \ {Pick(s)}]

\* The recursive function of a fold that sums up f over subsets of S.
Folds(g, f, S) == g = [s \in SUBSET S |-> IF s = {} THEN 0 ELSE f[Pick(s)] + g[s \ {Pick(s)}]]

\* A nonempty set has its choice in it.
LEMMA Picked == ASSUME NEW s, s # {} PROVE Pick(s) \in s
BY DEF Pick

\* Removing an element takes one off the cardinality.
LEMMA OneLess ==
    ASSUME NEW s, IsFiniteSet(s), NEW x \in s
    PROVE  /\ IsFiniteSet(s \ {x}) /\ Cardinality(s) \in Nat /\ Cardinality(s \ {x}) \in Nat
           /\ Cardinality(s) = Cardinality(s \ {x}) + 1
<1>1. IsFiniteSet(s \ {x}) /\ Cardinality(s \ {x}) = Cardinality(s) - 1
  BY FS_RemoveElement
<1>2. Cardinality(s) \in Nat /\ Cardinality(s \ {x}) \in Nat
  BY <1>1, FS_CardinalityType
<1>. QED
  BY <1>1, <1>2

\* Such a function exists: it is built up by cardinality.
LEMMA SumExists ==
    ASSUME NEW f, NEW S, IsFiniteSet(S)
    PROVE  \E g : Folds(g, f, S)
<1>. DEFINE Up(n) == {s \in SUBSET S : Cardinality(s) <= n}
            T == {n \in Nat : \E g : AddsUp(g, f, Up(n))}
<1>0. ASSUME NEW s \in SUBSET S
      PROVE  IsFiniteSet(s) /\ Cardinality(s) \in Nat /\ Cardinality(s) <= Cardinality(S)
  BY FS_Subset, FS_CardinalityType
<1>1. 0 \in T
  <2>. DEFINE g == [s \in SUBSET S |-> 0]
  <2>1. \A s \in Up(0) : s = {}
    BY <1>0, FS_EmptySet
  <2>2. AddsUp(g, f, Up(0))
    <3>1. \A s \in Up(0) : s = {} /\ g[s] = 0
      BY <2>1
    <3>. HIDE DEF g, Up
    <3>. QED
      BY <3>1 DEF AddsUp
  <2>. QED
    BY <2>2
<1>2. ASSUME NEW n \in Nat, n \in T PROVE n + 1 \in T
  <2>1. PICK g : AddsUp(g, f, Up(n))
    BY <1>2
  <2>. DEFINE h == [s \in SUBSET S |-> IF s \in Up(n) THEN g[s] ELSE f[Pick(s)] + g[s \ {Pick(s)}]]
  <2>2. ASSUME NEW s \in Up(n + 1)
        PROVE  h[s] = IF s = {} THEN 0 ELSE f[Pick(s)] + h[s \ {Pick(s)}]
    <3>1. s \in SUBSET S /\ IsFiniteSet(s) /\ Cardinality(s) \in Nat /\ Cardinality(s) <= n + 1
      BY <1>0
    <3>2. CASE s = {}
      <4>1. s \in Up(n)
        BY <3>1, <3>2, FS_EmptySet
      <4>2. g[s] = 0
        BY <2>1, <3>2, <4>1 DEF AddsUp
      <4>. QED
        BY <3>1, <3>2, <4>1, <4>2
    <3>3. CASE s # {}
      <4>. DEFINE r == s \ {Pick(s)}
      <4>1. Pick(s) \in s
        BY <3>3, Picked
      <4>2. r \in SUBSET S /\ Cardinality(r) \in Nat /\ Cardinality(s) = Cardinality(r) + 1
        BY <3>1, <4>1, OneLess
      <4>3. r \in Up(n)
        BY <3>1, <4>2
      <4>4. h[r] = g[r]
        BY <4>2, <4>3
      <4>5. CASE s \in Up(n)
        <5>1. h[s] = g[s]
          BY <3>1, <4>5
        <5>2. g[s] = f[Pick(s)] + g[r]
          BY <2>1, <3>3, <4>5 DEF AddsUp
        <5>. QED
          BY <3>3, <4>4, <5>1, <5>2
      <4>6. CASE s \notin Up(n)
        <5>1. h[s] = f[Pick(s)] + g[r]
          BY <3>1, <4>6
        <5>. QED
          BY <3>3, <4>4, <5>1
      <4>. QED
        BY <4>5, <4>6
    <3>. QED
      BY <3>2, <3>3
  <2>3. AddsUp(h, f, Up(n + 1))
    <3>. HIDE DEF h, Up
    <3>. QED
      BY <2>2 DEF AddsUp
  <2>. HIDE DEF h, Up
  <2>. QED
    BY <2>3
<1>3. Cardinality(S) \in T
  <2>1. Cardinality(S) \in Nat
    BY FS_CardinalityType
  <2>. HIDE DEF T
  <2>. QED
    BY <1>1, <1>2, <2>1, FromZero
<1>4. PICK g : AddsUp(g, f, Up(Cardinality(S)))
  BY <1>3
<1>5. Up(Cardinality(S)) = SUBSET S
  BY <1>0
<1>. DEFINE h == [s \in SUBSET S |-> g[s]]
<1>6. ASSUME NEW s \in SUBSET S
      PROVE  h[s] = IF s = {} THEN 0 ELSE f[Pick(s)] + h[s \ {Pick(s)}]
  <2>1. g[s] = IF s = {} THEN 0 ELSE f[Pick(s)] + g[s \ {Pick(s)}]
    <3>. HIDE DEF Up
    <3>. QED
      BY <1>4, <1>5 DEF AddsUp
  <2>2. s \ {Pick(s)} \in SUBSET S
    OBVIOUS
  <2>. QED
    BY <2>1, <2>2
<1>7. Folds(h, f, S)
  <2>1. h = [s \in SUBSET S |-> h[s]]
    OBVIOUS
  <2>. HIDE DEF h
  <2>. QED
    BY <1>6, <2>1 DEF Folds
<1>. QED
  BY <1>7

\* A sum over a finite set is the value of such a function.
LEMMA SumIs ==
    ASSUME NEW f, NEW S, IsFiniteSet(S)
    PROVE  \E g : AddsUp(g, f, SUBSET S) /\ Sum(f, S) = g[S]
<1>1. Folds(CHOOSE g : Folds(g, f, S), f, S)
  BY SumExists, Zenon
<1>2. Sum(f, S) = (CHOOSE g : Folds(g, f, S))[S]
  BY DEF Sum, MapThenSumSet, MapThenFoldSet, Pick, Folds
<1>. DEFINE h == CHOOSE g : Folds(g, f, S)
<1>. HIDE DEF h
<1>3. AddsUp(h, f, SUBSET S)
  BY <1>1 DEF AddsUp, h, Folds
<1>. QED
  BY <1>2, <1>3 DEF h

\* What the cardinalities of a finite set's subsets are good for.
LEMMA Subsets ==
    ASSUME NEW S, IsFiniteSet(S), NEW s \in SUBSET S
    PROVE  /\ IsFiniteSet(s) /\ Cardinality(s) \in Nat /\ (Cardinality(s) = 0 <=> s = {})
           /\ \A x \in s : /\ s \ {x} \in SUBSET S
                           /\ Cardinality(s \ {x}) \in Nat /\ Cardinality(s) = Cardinality(s \ {x}) + 1
<1>1. IsFiniteSet(s)
  BY FS_Subset
<1>. QED
  BY <1>1, OneLess, FS_CardinalityType, FS_EmptySet

\* What holds of every finite set whose parts with one element less it holds of.
LEMMA SetInduction ==
    ASSUME NEW S, IsFiniteSet(S), NEW G,
           \A s \in SUBSET S : (\A x \in s : s \ {x} \in G) => s \in G
    PROVE  S \in G
<1>. DEFINE T == {n \in Nat : \A s \in SUBSET S : Cardinality(s) = n => s \in G}
<1>1. 0 \in T
  BY Subsets
<1>2. ASSUME NEW n \in Nat, n \in T PROVE n + 1 \in T
  <2>1. ASSUME NEW s \in SUBSET S, Cardinality(s) = n + 1 PROVE s \in G
    <3>1. ASSUME NEW x \in s PROVE s \ {x} \in SUBSET S /\ Cardinality(s \ {x}) = n
      <4>1. s \ {x} \in SUBSET S /\ Cardinality(s \ {x}) \in Nat /\ n + 1 = Cardinality(s \ {x}) + 1
        BY <2>1, Subsets
      <4>. QED
        BY <4>1
    <3>. QED
      BY <1>2, <3>1
  <2>. QED
    BY <2>1
<1>3. Cardinality(S) \in T
  <2>1. Cardinality(S) \in Nat
    BY FS_CardinalityType
  <2>. HIDE DEF T
  <2>. QED
    BY <1>1, <1>2, <2>1, FromZero
<1>. QED
  BY <1>3

\* Sums of naturals are naturals.
LEMMA FoldNat ==
    ASSUME NEW f, NEW S, IsFiniteSet(S), \A x \in S : f[x] \in Nat, NEW g, AddsUp(g, f, SUBSET S),
           NEW A \in SUBSET S
    PROVE  g[A] \in Nat
<1>. DEFINE G == {s \in SUBSET S : g[s] \in Nat}
<1>1. ASSUME NEW s \in SUBSET A, \A x \in s : s \ {x} \in G PROVE s \in G
  <2>1. CASE s = {}
    <3>1. g[{}] = 0
      BY DEF AddsUp
    <3>. QED
      BY <2>1, <3>1
  <2>2. CASE s # {}
    <3>1. Pick(s) \in s /\ f[Pick(s)] \in Nat
      BY <2>2, Picked
    <3>2. g[s] = f[Pick(s)] + g[s \ {Pick(s)}] /\ g[s \ {Pick(s)}] \in Nat
      BY <1>1, <2>2, <3>1 DEF AddsUp
    <3>. QED
      BY <3>1, <3>2
  <2>. QED
    BY <2>1, <2>2
<1>2. IsFiniteSet(A)
  BY FS_Subset
<1>3. A \in G
  <2>. HIDE DEF G
  <2>. QED
    BY <1>1, <1>2, SetInduction
<1>. QED
  BY <1>3

\* It does not matter which element is added last.
LEMMA AnyElement ==
    ASSUME NEW f, NEW S, IsFiniteSet(S), \A x \in S : f[x] \in Nat, NEW g, AddsUp(g, f, SUBSET S)
    PROVE  g[S] \in Nat /\ \A x \in S : g[S] = f[x] + g[S \ {x}]
<1>. DEFINE G == {s \in SUBSET S : \A x \in s : g[s] = f[x] + g[s \ {x}]}
<1>1. ASSUME NEW s \in SUBSET S, \A x \in s : s \ {x} \in G, NEW x \in s PROVE g[s] = f[x] + g[s \ {x}]
  <2>1. Pick(s) \in s /\ g[s] = f[Pick(s)] + g[s \ {Pick(s)}]
    BY Picked DEF AddsUp
  <2>2. CASE x # Pick(s)
    <3>. DEFINE c == Pick(s)
                r == (s \ {x}) \ {c}
    <3>1. (s \ {c}) \ {x} = r
      OBVIOUS
    <3>2. g[s \ {c}] = f[x] + g[(s \ {c}) \ {x}] /\ g[s \ {x}] = f[c] + g[r]
      BY <1>1, <2>1, <2>2
    <3>3. f[x] \in Nat /\ f[c] \in Nat /\ g[r] \in Nat
      BY <2>1, FoldNat
    <3>. HIDE DEF c, r
    <3>4. g[s] = f[c] + (f[x] + g[r])
      BY <2>1, <3>1, <3>2 DEF c
    <3>. QED
      BY <3>2, <3>3, <3>4
  <2>. QED
    BY <2>1, <2>2
<1>2. \A s \in SUBSET S : (\A x \in s : s \ {x} \in G) => s \in G
  BY <1>1
<1>3. S \in G
  <2>. HIDE DEF G
  <2>. QED
    BY <1>2, SetInduction
<1>. QED
  BY <1>3, FoldNat

\* Functions with the same values on a set have the same sum over it.
LEMMA SameFolds ==
    ASSUME NEW A, IsFiniteSet(A), NEW S, NEW R, A \subseteq S, A \subseteq R,
           NEW f, NEW g, AddsUp(g, f, SUBSET S), NEW e, NEW h, AddsUp(h, e, SUBSET R),
           \A x \in A : e[x] = f[x]
    PROVE  g[A] = h[A]
<1>. DEFINE G == {s \in SUBSET A : g[s] = h[s]}
<1>1. ASSUME NEW s \in SUBSET A, \A x \in s : s \ {x} \in G PROVE s \in G
  <2>1. CASE s = {}
    BY <2>1 DEF AddsUp
  <2>2. CASE s # {}
    <3>1. Pick(s) \in s
      BY <2>2, Picked
    <3>2. g[s] = f[Pick(s)] + g[s \ {Pick(s)}] /\ h[s] = e[Pick(s)] + h[s \ {Pick(s)}]
      BY <2>2 DEF AddsUp
    <3>. QED
      BY <1>1, <3>1, <3>2
  <2>. QED
    BY <2>1, <2>2
<1>2. A \in G
  <2>. HIDE DEF G
  <2>. QED
    BY <1>1, SetInduction
<1>. QED
  BY <1>2

\* Sums, one element at a time.
LEMMA SumRule ==
    ASSUME NEW f, NEW S, IsFiniteSet(S), \A x \in S : f[x] \in Nat
    PROVE  /\ Sum(f, S) \in Nat
           /\ S = {} => Sum(f, S) = 0
           /\ \A x \in S : Sum(f, S) = f[x] + Sum(f, S \ {x}) /\ Sum(f, S \ {x}) \in Nat
<1>1. PICK g : AddsUp(g, f, SUBSET S) /\ Sum(f, S) = g[S]
  BY SumIs
<1>2. Sum(f, S) \in Nat /\ (S = {} => Sum(f, S) = 0)
  <2>1. g[S] \in Nat
    BY <1>1, AnyElement
  <2>2. S \in SUBSET S
    OBVIOUS
  <2>. QED
    BY <1>1, <2>1, <2>2 DEF AddsUp
<1>3. ASSUME NEW x \in S PROVE Sum(f, S) = f[x] + Sum(f, S \ {x}) /\ Sum(f, S \ {x}) \in Nat
  <2>. DEFINE R == S \ {x}
  <2>1. IsFiniteSet(R) /\ R \in SUBSET S
    BY FS_Subset
  <2>2. PICK h : AddsUp(h, f, SUBSET R) /\ Sum(f, R) = h[R]
    BY <2>1, SumIs
  <2>3. g[R] = h[R]
    <3>. HIDE DEF R
    <3>. QED
      BY <1>1, <2>1, <2>2, SameFolds, SMTT(60)
  <2>4. g[S] = f[x] + g[R] /\ g[R] \in Nat
    BY <1>1, <2>1, AnyElement, FoldNat
  <2>. QED
    BY <1>1, <2>2, <2>3, <2>4
<1>. QED
  BY <1>2, <1>3

\* What a sum does not look at does not matter.
LEMMA SumSame ==
    ASSUME NEW f, NEW e, NEW S, IsFiniteSet(S), \A x \in S : e[x] = f[x]
    PROVE  Sum(e, S) = Sum(f, S)
<1>1. PICK g : AddsUp(g, f, SUBSET S) /\ Sum(f, S) = g[S]
  BY SumIs
<1>2. PICK h : AddsUp(h, e, SUBSET S) /\ Sum(e, S) = h[S]
  BY SumIs
<1>. QED
  BY <1>1, <1>2, SameFolds

\* A sum changes with the one value that changes.
LEMMA SumChange ==
    ASSUME NEW f, NEW e, NEW S, IsFiniteSet(S), NEW y \in S,
           \A x \in S : f[x] \in Nat /\ e[x] \in Nat,
           \A x \in S : x # y => e[x] = f[x]
    PROVE  Sum(e, S) + f[y] = Sum(f, S) + e[y] /\ Sum(e, S) \in Nat /\ Sum(f, S) \in Nat
<1>1. Sum(f, S) = f[y] + Sum(f, S \ {y}) /\ Sum(f, S \ {y}) \in Nat
  BY SumRule
<1>2. Sum(e, S) = e[y] + Sum(e, S \ {y}) /\ Sum(e, S \ {y}) \in Nat
  BY SumRule
<1>3. Sum(e, S \ {y}) = Sum(f, S \ {y})
  <2>1. IsFiniteSet(S \ {y})
    BY FS_Subset
  <2>. QED
    BY <2>1, SumSame
<1>. QED
  BY <1>1, <1>2, <1>3

\* Nothing adds up to nothing.
LEMMA SumZero ==
    ASSUME NEW f, NEW S, IsFiniteSet(S), \A x \in S : f[x] = 0
    PROVE  Sum(f, S) = 0
<1>1. PICK g : AddsUp(g, f, SUBSET S) /\ Sum(f, S) = g[S]
  BY SumIs
<1>. DEFINE z == [s \in SUBSET S |-> 0]
            e == [x \in S |-> 0]
<1>2. AddsUp(z, e, SUBSET S)
  <2>1. ASSUME NEW s \in SUBSET S PROVE z[s] = IF s = {} THEN 0 ELSE e[Pick(s)] + z[s \ {Pick(s)}]
    <3>1. z[s] = 0 /\ z[s \ {Pick(s)}] = 0
      OBVIOUS
    <3>2. s # {} => e[Pick(s)] = 0
      BY Picked
    <3>. HIDE DEF z, e
    <3>. QED
      BY <3>1, <3>2
  <2>. HIDE DEF z, e
  <2>. QED
    BY <2>1 DEF AddsUp
<1>3. z[S] = 0 /\ \A x \in S : e[x] = f[x]
  OBVIOUS
<1>. HIDE DEF z, e
<1>. QED
  BY <1>1, <1>2, <1>3, SameFolds

\* The sums over a part and over the rest add up.
LEMMA SumSplit ==
    ASSUME NEW f, NEW S, NEW R, IsFiniteSet(S), R \subseteq S, \A x \in S : f[x] \in Nat
    PROVE  Sum(f, S) = Sum(f, R) + Sum(f, S \ R)
<1>. DEFINE G == {s \in SUBSET R : Sum(f, s \union (S \ R)) = Sum(f, s) + Sum(f, S \ R)}
<1>1. IsFiniteSet(R) /\ IsFiniteSet(S \ R) /\ Sum(f, S \ R) \in Nat
  BY FS_Subset, SumRule
<1>2. ASSUME NEW s \in SUBSET R, \A x \in s : s \ {x} \in G PROVE s \in G
  <2>1. IsFiniteSet(s) /\ \A y \in s : f[y] \in Nat
    BY <1>1, FS_Subset
  <2>2. CASE s = {}
    <3>1. s \union (S \ R) = S \ R /\ Sum(f, s) = 0
      BY <2>1, <2>2, SumRule
    <3>. QED
      BY <1>1, <3>1
  <2>3. ASSUME NEW x \in s PROVE s \in G
    <3>. DEFINE r == s \ {x}
                u == s \union (S \ R)
    <3>1. Sum(f, r \union (S \ R)) = Sum(f, r) + Sum(f, S \ R)
      BY <1>2
    <3>2. Sum(f, s) = f[x] + Sum(f, r) /\ Sum(f, r) \in Nat /\ f[x] \in Nat
      <4>1. \A y \in s : Sum(f, s) = f[y] + Sum(f, s \ {y}) /\ Sum(f, s \ {y}) \in Nat
        BY <2>1, SumRule
      <4>. QED
        BY <2>1, <4>1
    <3>3. u \subseteq S /\ x \in u /\ u \ {x} = r \union (S \ R)
      OBVIOUS
    <3>4. IsFiniteSet(u) /\ \A y \in u : f[y] \in Nat
      BY <3>3, FS_Subset
    <3>5. Sum(f, u) = f[x] + Sum(f, u \ {x})
      <4>. HIDE DEF u
      <4>. QED
        BY <3>3, <3>4, SumRule
    <3>6. Sum(f, u) = Sum(f, s) + Sum(f, S \ R)
      <4>. HIDE DEF u, r
      <4>1. Sum(f, u) = f[x] + (Sum(f, r) + Sum(f, S \ R))
        BY <3>1, <3>3, <3>5
      <4>. QED
        BY <1>1, <3>2, <4>1
    <3>. QED
      BY <3>6
  <2>. QED
    BY <2>2, <2>3
<1>3. R \in G
  <2>. HIDE DEF G
  <2>. QED
    BY <1>1, <1>2, SetInduction
<1>4. R \union (S \ R) = S
  OBVIOUS
<1>. QED
  BY <1>3, <1>4

-----------------------------------------------------------------------------
(* Recursive functions: that they exist, and that a fold is one.            *)

\* h is the first n steps of an iteration of F from b.
Iterates(h, n, b, F) == h[0] = b /\ \A k \in 1..n : h[k] = F[k][h[k - 1]]

\* g iterates F from b over all the numbers.
Iterated(g, b, F) == g[0] = b /\ \A n \in Nat : g[n + 1] = F[n + 1][g[n]]

\* A function that iterates over the numbers exists.
LEMMA Iteration ==
    ASSUME NEW X, NEW b \in X, NEW F \in [Nat -> [X -> X]]
    PROVE  \E g \in [Nat -> X] : Iterated(g, b, F)
<1>. DEFINE T == {n \in Nat : \E h \in [Nat -> X] : Iterates(h, n, b, F)}
<1>1. 0 \in T
  <2>1. [n \in Nat |-> b] \in [Nat -> X] /\ Iterates([n \in Nat |-> b], 0, b, F)
    BY DEF Iterates
  <2>. QED
    BY <2>1
<1>2. ASSUME NEW n \in Nat, n \in T PROVE n + 1 \in T
  <2>1. PICK h \in [Nat -> X] : Iterates(h, n, b, F)
    BY <1>2
  <2>. DEFINE e == [k \in Nat |-> IF k = n + 1 THEN F[n + 1][h[n]] ELSE h[k]]
  <2>2. e \in [Nat -> X]
    OBVIOUS
  <2>3. ASSUME NEW k \in 1..n + 1 PROVE e[k] = F[k][e[k - 1]]
    <3>1. CASE k = n + 1
      BY <3>1
    <3>2. CASE k # n + 1
      <4>1. k \in 1..n /\ e[k] = h[k] /\ e[k - 1] = h[k - 1]
        BY <3>2
      <4>. QED
        BY <2>1, <4>1 DEF Iterates
    <3>. QED
      BY <3>1, <3>2
  <2>4. e[0] = b
    BY <2>1 DEF Iterates
  <2>. HIDE DEF e
  <2>5. Iterates(e, n + 1, b, F)
    BY <2>3, <2>4 DEF Iterates
  <2>. QED
    BY <2>2, <2>5
<1>3. \A n \in Nat : n \in T
  <2>. HIDE DEF T
  <2>. QED
    BY <1>1, <1>2, FromZero
<1>. DEFINE H(n) == CHOOSE h \in [Nat -> X] : Iterates(h, n, b, F)
<1>4. \A n \in Nat : H(n) \in [Nat -> X] /\ Iterates(H(n), n, b, F)
  BY <1>3
<1>. HIDE DEF H
<1>5. ASSUME NEW n \in Nat PROVE H(n + 1)[n] = H(n)[n]
  <2>. DEFINE S == {k \in Nat : k <= n => H(n + 1)[k] = H(n)[k]}
  <2>1. 0 \in S
    BY <1>4 DEF Iterates
  <2>2. ASSUME NEW k \in Nat, k \in S PROVE k + 1 \in S
    <3>1. ASSUME k + 1 <= n PROVE H(n + 1)[k + 1] = H(n)[k + 1]
      <4>1. k + 1 \in 1..n /\ k + 1 \in 1..n + 1 /\ (k + 1) - 1 = k /\ H(n + 1)[k] = H(n)[k]
        BY <2>2, <3>1
      <4>2. H(n + 1)[k + 1] = F[k + 1][H(n + 1)[k]]
        BY <1>4, <4>1 DEF Iterates
      <4>3. H(n)[k + 1] = F[k + 1][H(n)[k]]
        BY <1>4, <4>1 DEF Iterates
      <4>. QED
        BY <4>1, <4>2, <4>3
    <3>. QED
      BY <3>1
  <2>3. n \in S
    <3>. HIDE DEF S
    <3>. QED
      BY <2>1, <2>2, FromZero
  <2>. QED
    BY <2>3
<1>. DEFINE g == [n \in Nat |-> H(n)[n]]
<1>6. g \in [Nat -> X]
  BY <1>4
<1>7. g[0] = b
  BY <1>4 DEF Iterates
<1>8. ASSUME NEW n \in Nat PROVE g[n + 1] = F[n + 1][g[n]]
  <2>1. n + 1 \in 1..n + 1 /\ (n + 1) - 1 = n /\ n + 1 \in Nat
    OBVIOUS
  <2>2. H(n + 1)[n + 1] = F[n + 1][H(n + 1)[n]]
    BY <1>4, <2>1 DEF Iterates
  <2>. QED
    BY <1>5, <2>1, <2>2
<1>. HIDE DEF g
<1>9. Iterated(g, b, F)
  BY <1>7, <1>8 DEF Iterated
<1>. QED
  BY <1>6, <1>9

\* g starts from b and takes in the elements of the sets of D one by one, the last first:
\* F takes in one, C chooses the last.
Accumulates(g, D, b, F, C) == \A s \in D : g[s] = IF s = {} THEN b ELSE F[C[s]][g[s \ {C[s]}]]

\* C chooses an element of each set.
Chooses(C, S) == \A s \in SUBSET S : s # {} => C[s] \in s

\* Such a function exists for every finite set.
LEMMA Accumulation ==
    ASSUME NEW S, IsFiniteSet(S), NEW X, NEW b \in X, NEW F \in [S -> [X -> X]], NEW C, Chooses(C, S)
    PROVE  \E g \in [SUBSET S -> X] : Accumulates(g, SUBSET S, b, F, C)
<1>. DEFINE Below(n) == {s \in SUBSET S : Cardinality(s) <= n}
            Good(g, D) == Accumulates(g, D, b, F, C)
            T == {n \in Nat : \E g \in [SUBSET S -> X] : Good(g, Below(n))}
<1>1. 0 \in T
  <2>. DEFINE g == [s \in SUBSET S |-> b]
  <2>1. \A s \in Below(0) : s = {}
    BY Subsets
  <2>2. g \in [SUBSET S -> X] /\ \A s \in Below(0) : s = {} /\ g[s] = b
    BY <2>1
  <2>. HIDE DEF g, Below
  <2>3. Good(g, Below(0))
    BY <2>2 DEF Accumulates
  <2>. QED
    BY <2>2, <2>3
<1>2. ASSUME NEW n \in Nat, n \in T PROVE n + 1 \in T
  <2>1. PICK g \in [SUBSET S -> X] : Good(g, Below(n))
    BY <1>2
  <2>. DEFINE h == [s \in SUBSET S |-> IF s = {} THEN b
                                       ELSE IF s \in Below(n) THEN g[s] ELSE F[C[s]][g[s \ {C[s]}]]]
  <2>2. ASSUME NEW s \in SUBSET S, s # {}
        PROVE  C[s] \in s /\ s \ {C[s]} \in SUBSET S
    BY <2>2 DEF Chooses
  <2>3. h \in [SUBSET S -> X]
    <3>1. ASSUME NEW s \in SUBSET S, s # {} PROVE F[C[s]][g[s \ {C[s]}]] \in X
      BY <2>2, <3>1
    <3>. QED
      BY <3>1
  <2>4. ASSUME NEW s \in Below(n + 1), s # {} PROVE h[s] = F[C[s]][h[s \ {C[s]}]]
    <3>. DEFINE r == s \ {C[s]}
    <3>1. C[s] \in s /\ r \in SUBSET S /\ r \in Below(n)
      <4>1. s \in SUBSET S /\ Cardinality(s) \in Nat /\ Cardinality(s) <= n + 1
        BY Subsets
      <4>2. C[s] \in s /\ r \in SUBSET S
        BY <2>2, <2>4, <4>1
      <4>3. Cardinality(r) \in Nat /\ Cardinality(s) = Cardinality(r) + 1
        BY <4>1, <4>2, Subsets
      <4>. QED
        BY <4>1, <4>2, <4>3
    <3>2. h[r] = g[r]
      <4>1. {} \in Below(n)
        BY FS_EmptySet
      <4>2. g[{}] = b
        <5>. HIDE DEF Below
        <5>. QED
          BY <2>1, <4>1 DEF Accumulates
      <4>. QED
        BY <3>1, <4>2
    <3>3. s \in SUBSET S
      OBVIOUS
    <3>4. CASE s \in Below(n)
      <4>1. h[s] = g[s]
        BY <2>4, <3>3, <3>4
      <4>2. g[s] = F[C[s]][g[r]]
        <5>. HIDE DEF Below
        <5>. QED
          BY <2>1, <2>4, <3>4 DEF Accumulates
      <4>. QED
        BY <3>2, <4>1, <4>2
    <3>5. CASE s \notin Below(n)
      <4>1. h[s] = F[C[s]][g[r]]
        BY <2>4, <3>3, <3>5
      <4>. QED
        BY <3>2, <4>1
    <3>. QED
      BY <3>4, <3>5
  <2>5. h[{}] = b
    OBVIOUS
  <2>. HIDE DEF h, Below
  <2>6. Good(h, Below(n + 1))
    BY <2>4, <2>5 DEF Accumulates
  <2>. QED
    BY <2>3, <2>6
<1>3. Cardinality(S) \in T
  <2>1. Cardinality(S) \in Nat
    BY FS_CardinalityType
  <2>. HIDE DEF T
  <2>. QED
    BY <1>1, <1>2, <2>1, FromZero
<1>4. PICK g \in [SUBSET S -> X] : Good(g, Below(Cardinality(S)))
  BY <1>3
<1>5. Below(Cardinality(S)) = SUBSET S
  BY FS_Subset, FS_CardinalityType
<1>. HIDE DEF Below
<1>. QED
  BY <1>4, <1>5

\* g jumps ahead from place to place, as N says, and takes its value where it stops.
Jumping(g, S, Stop, B, N) == \A k \in S : g[k] = IF k \in Stop THEN B[k] ELSE g[N[k]]

\* Such a function exists when there is a place beyond which it stops.
LEMMA Jumps ==
    ASSUME NEW S \in SUBSET Nat, NEW L \in Nat, NEW X, NEW B \in [S -> X], NEW N, NEW Stop,
           \A k \in S : k >= L => k \in Stop,
           \A k \in S : k \notin Stop => N[k] \in S /\ N[k] > k
    PROVE  \E g \in [S -> X] : Jumping(g, S, Stop, B, N)
<1>. DEFINE Good(g, n) == \A k \in S : k + n >= L => g[k] = IF k \in Stop THEN B[k] ELSE g[N[k]]
            T == {n \in Nat : \E g \in [S -> X] : Good(g, n)}
<1>1. 0 \in T
  <2>1. Good(B, 0)
    OBVIOUS
  <2>. QED
    BY <2>1
<1>2. ASSUME NEW n \in Nat, n \in T PROVE n + 1 \in T
  <2>1. PICK g \in [S -> X] : Good(g, n)
    BY <1>2
  <2>. DEFINE h == [k \in S |-> IF k + n >= L THEN g[k] ELSE IF k \in Stop THEN B[k] ELSE g[N[k]]]
  <2>2. h \in [S -> X]
    OBVIOUS
  <2>3. ASSUME NEW k \in S, k + (n + 1) >= L
        PROVE  h[k] = IF k \in Stop THEN B[k] ELSE h[N[k]]
    <3>0. k \in Nat
      OBVIOUS
    <3>1. ASSUME k \notin Stop PROVE N[k] \in S /\ N[k] + n >= L
      <4>1. N[k] \in S /\ N[k] > k
        BY <3>1
      <4>2. N[k] \in Nat
        BY <4>1
      <4>. QED
        BY <2>3, <3>0, <4>1, <4>2
    <3>2. k \notin Stop => h[N[k]] = g[N[k]]
      BY <3>1
    <3>3. k + n >= L => g[k] = IF k \in Stop THEN B[k] ELSE g[N[k]]
      BY <2>1
    <3>. QED
      BY <3>2, <3>3
  <2>. HIDE DEF h
  <2>4. Good(h, n + 1)
    BY <2>3
  <2>. QED
    BY <2>2, <2>4
<1>3. L \in T
  <2>. HIDE DEF T
  <2>. QED
    BY <1>1, <1>2, FromZero
<1>4. PICK g \in [S -> X] : Good(g, L)
  BY <1>3
<1>. QED
  BY <1>4 DEF Jumping

\* The least element of a non-empty set of numbers is in it and below the rest.
LEMMA MinIsMember ==
    ASSUME NEW S \in SUBSET Nat, S # {}
    PROVE  /\ Min(S) \in S
           /\ \A x \in S : Min(S) <= x
<1>1. PICK x \in S : \A y \in S : ~(<<y, x>> \in OpToRel(<, Nat))
  BY NatLessThanWellFounded, WFMin, Zenon
<1>2. \A y \in S : ~(y < x)
  BY <1>1, Zenon DEF OpToRel
<1>3. \A y \in S : x <= y
  BY <1>2
<1>. QED
  BY <1>3 DEF Min

\* The least and the greatest element of an interval are its ends.
LEMMA IntervalEnds ==
    ASSUME NEW m \in Nat, NEW n \in Nat, m <= n
    PROVE  Max(m..n) = n /\ Min(m..n) = m
<1>1. \A x \in m..n : (\A y \in m..n : x >= y) <=> x = n
  OBVIOUS
<1>2. Max(m..n) \in m..n /\ \A y \in m..n : Max(m..n) >= y
  <2>1. n \in m..n /\ \A y \in m..n : n >= y
    OBVIOUS
  <2>. QED
    BY <2>1 DEF Max
<1>3. m..n \in SUBSET Nat /\ m \in m..n
  OBVIOUS
<1>4. Min(m..n) \in m..n /\ Min(m..n) <= m
  BY <1>3, MinIsMember
<1>. QED
  BY <1>1, <1>2, <1>4

\* The greatest element of a non-empty set of numbers with a bound is in it.
LEMMA MaxIsMember ==
    ASSUME NEW n \in Nat, NEW S \in SUBSET (0..n), S # {}
    PROVE  Max(S) \in S
<1>. DEFINE Bounds == {b \in Nat : \A x \in S : b >= x}
<1>1. n \in Bounds
  OBVIOUS
<1>2. PICK b \in Bounds : \A c \in Bounds : b <= c
  BY <1>1, LeastNatural
<1>3. b \in S
  <2>1. SUFFICES ASSUME b \notin S PROVE FALSE
    OBVIOUS
  <2>2. PICK x \in S : TRUE
    OBVIOUS
  <2>3. x \in Nat /\ b \in Nat /\ b > x
    BY <1>2, <2>1
  <2>4. b - 1 \in Bounds
    BY <1>2, <2>1, <2>3
  <2>. QED
    BY <1>2, <2>3, <2>4
<1>. QED
  BY <1>2, <1>3 DEF Max
=============================================================================
