---------------------------- MODULE NumberLemmas -----------------------------
(***************************************************************************)
(* Facts about integers that the proofs about the grid's index arithmetic  *)
(* and about numbered visibilities rest on, and about sums and folds over  *)
(* finite sets, by well-founded induction on the set.                      *)
(***************************************************************************)
EXTENDS Integers, FiniteSets, FiniteSetTheorems, WellFoundedInduction, TLAPS, Sums

(***************************************************************************)
(* Division with remainder.                                                *)
(***************************************************************************)
LEMMA Division ==
  ASSUME NEW d \in Int, NEW m \in Nat \ {0}
  PROVE  /\ d \div m \in Int
         /\ d % m \in 0 .. m - 1
         /\ d = m * (d \div m) + (d % m)
  BY SMT

(***************************************************************************)
(* The remainder of a number from -m to m - 1.                             *)
(***************************************************************************)
LEMMA SignedResidue ==
  ASSUME NEW m \in Nat \ {0}, NEW d \in Int, -m <= d, d < m
  PROVE  d % m = IF d < 0 THEN d + m ELSE d
<1> DEFINE q == d \div m
           r == d % m
<1>1. q \in Int /\ r \in 0 .. m - 1 /\ d = m * q + r
  BY Division
<1> HIDE DEF q, r
<1>2. CASE q >= 1
  <2>1. m * q >= m
    BY <1>1, <1>2, SMT
  <2> QED BY <2>1, <1>1, SMT
<1>3. CASE q = 0
  BY <1>1, <1>3 DEF r
<1>4. CASE q = -1
  <2>1. m * q = -m
    BY <1>4
  <2> QED BY <2>1, <1>1 DEF r
<1>5. CASE q <= -2
  <2>1. m * q <= -(2 * m)
    BY <1>1, <1>5, SMT
  <2> QED BY <2>1, <1>1, SMT
<1> QED BY <1>1, <1>2, <1>3, <1>4, <1>5

(***************************************************************************)
(* Two numbers below m that are congruent modulo m are equal.              *)
(***************************************************************************)
LEMMA ResidueUnique ==
  ASSUME NEW m \in Nat \ {0}, NEW q \in 0 .. m - 1, NEW r \in 0 .. m - 1,
         NEW a \in Int, NEW b \in Int, q + m * a = r + m * b
  PROVE  q = r
<1>1. CASE a = b
  BY <1>1, SMT
<1>2. CASE a >= b + 1
  <2>1. m * a >= m * (b + 1)
    BY <1>2, SMT
  <2>2. m * (b + 1) = m * b + m
    BY SMT
  <2> QED BY <2>1, <2>2, SMT
<1>3. CASE b >= a + 1
  <2>1. m * b >= m * (a + 1)
    BY <1>3, SMT
  <2>2. m * (a + 1) = m * a + m
    BY SMT
  <2> QED BY <2>1, <2>2, SMT
<1> QED BY <1>1, <1>2, <1>3, SMT

\* A multiple of m that is smaller than m in absolute value is 0.
LEMMA SmallMultiple ==
  ASSUME NEW m \in Nat \ {0}, NEW a \in Int, m * a > -m, m * a < m
  PROVE  a = 0
<1>1. CASE a >= 1
  <2>1. m * a >= m * 1
    BY <1>1, SMT
  <2> QED BY <2>1
<1>2. CASE a <= -1
  <2>1. m * a <= m * (-1)
    BY <1>2, SMT
  <2> QED BY <2>1
<1> QED BY <1>1, <1>2

(***************************************************************************)
(* Of a set of natural numbers one is the least: the interval that ends at *)
(* it is a smallest one among the finite sets 0 .. k.                      *)
(***************************************************************************)
LEMMA LeastNatural ==
  ASSUME NEW S, S \subseteq Nat, S # {}
  PROVE  \E k \in S : \A m \in S : k <= m
<1> DEFINE upto == {0 .. k : k \in S}
           R    == StrictSubsetOrdering(Nat)
<1>1. upto \subseteq FiniteSubsetsOf(Nat) /\ upto # {}
  <2>1. ASSUME NEW k \in S PROVE 0 .. k \in FiniteSubsetsOf(Nat)
    <3>1. k \in Nat
      OBVIOUS
    <3>2. IsFiniteSet(0 .. k)
      BY <3>1, FS_Interval
    <3> QED BY <3>1, <3>2 DEF FiniteSubsetsOf
  <2> QED BY <2>1
<1>2. IsWellFoundedOn(R, FiniteSubsetsOf(Nat))
  BY FS_StrictSubsetOrderingWellFounded
<1>3. PICK x \in upto : \A y \in upto : <<y, x>> \notin R
  <2> HIDE DEF upto, R
  <2> QED BY <1>1, <1>2, WFMin
<1>4. PICK k \in S : x = 0 .. k
  OBVIOUS
<1>5. ASSUME NEW m \in S, m < k PROVE FALSE
  <2>1. m \in Nat /\ k \in Nat
    OBVIOUS
  <2>2. 0 .. m \subseteq 0 .. k /\ k \in 0 .. k /\ k \notin 0 .. m
    BY <1>5, <2>1
  <2>3. <<0 .. m, 0 .. k>> \in R
    BY <2>1, <2>2 DEF StrictSubsetOrdering
  <2> QED BY <1>3, <1>4, <2>3
<1> QED BY <1>5

(***************************************************************************)
(* Finitely many numbers have a smallest and a greatest one.               *)
(***************************************************************************)
LEMMA Extremes ==
  ASSUME NEW n \in Nat \ {0}, NEW f, \A i \in 0 .. n - 1 : f[i] \in Int
  PROVE  \E lo, hi \in 0 .. n - 1 : \A i \in 0 .. n - 1 : f[lo] <= f[i] /\ f[i] <= f[hi]
<1> DEFINE Has(m) == \E lo, hi \in 0 .. m - 1 : \A i \in 0 .. m - 1 : f[lo] <= f[i] /\ f[i] <= f[hi]
           without == {m \in 1 .. n : ~ Has(m)}
<1>1. ASSUME without # {} PROVE FALSE
  <2>1. PICK m \in without : \A k \in without : m <= k
    <3>1. without \subseteq Nat
      OBVIOUS
    <3> HIDE DEF without
    <3> QED BY <1>1, <3>1, LeastNatural
  <2>2. m \in 1 .. n /\ ~ Has(m)
    OBVIOUS
  <2>3. CASE m = 1
    <3>1. 0 \in 0 .. m - 1 /\ \A i \in 0 .. m - 1 : i = 0
      BY <2>3
    <3>2. f[0] \in Int
      OBVIOUS
    <3>3. \A i \in 0 .. m - 1 : f[0] <= f[i] /\ f[i] <= f[0]
      <4> TAKE i \in 0 .. m - 1
      <4>1. i = 0
        BY <3>1
      <4> QED BY <3>2, <4>1
    <3>4. Has(m)
      BY <3>1, <3>3
    <3> QED BY <2>2, <3>4
  <2>4. CASE m > 1
    <3>1. m - 1 \in 1 .. n /\ m - 1 \notin without
      <4> HIDE DEF without, Has
      <4> QED BY <2>1, <2>2, <2>4
    <3>2. Has(m - 1)
      <4> HIDE DEF Has
      <4> QED BY <3>1
    <3>3. PICK lo \in 0 .. m - 2, hi \in 0 .. m - 2 : \A i \in 0 .. m - 2 : f[lo] <= f[i] /\ f[i] <= f[hi]
      <4>1. (m - 1) - 1 = m - 2
        BY <2>2
      <4> QED BY <3>2, <4>1
    <3>4. /\ lo \in 0 .. m - 1 /\ hi \in 0 .. m - 1 /\ m - 1 \in 0 .. m - 1
          /\ f[lo] \in Int /\ f[hi] \in Int /\ f[m - 1] \in Int
          /\ \A i \in 0 .. m - 1 : f[i] \in Int /\ (i = m - 1 \/ i \in 0 .. m - 2)
      BY <2>2, <2>4
    <3> DEFINE low  == IF f[m - 1] < f[lo] THEN m - 1 ELSE lo
               high == IF f[m - 1] > f[hi] THEN m - 1 ELSE hi
    <3>5. low \in 0 .. m - 1 /\ high \in 0 .. m - 1
      BY <3>4
    <3>6. /\ f[low] \in Int /\ f[low] <= f[m - 1] /\ f[low] <= f[lo]
          /\ f[high] \in Int /\ f[m - 1] <= f[high] /\ f[hi] <= f[high]
      BY <3>4
    <3> HIDE DEF low, high
    <3>7. \A i \in 0 .. m - 1 : f[low] <= f[i] /\ f[i] <= f[high]
      <4> TAKE i \in 0 .. m - 1
      <4>1. f[i] \in Int /\ (i = m - 1 \/ i \in 0 .. m - 2)
        BY <3>4
      <4>2. CASE i = m - 1
        BY <3>6, <4>2
      <4>3. CASE i \in 0 .. m - 2
        BY <3>3, <3>4, <3>6, <4>1, <4>3
      <4> QED BY <4>1, <4>2, <4>3
    <3> QED BY <2>2, <3>5, <3>7
  <2> QED BY <2>2, <2>3, <2>4
<1>2. Has(n)
  <2> HIDE DEF Has
  <2> QED BY <1>1
<1> QED BY <1>2

(***************************************************************************)
(* A set of natural numbers that contains 0, and with each number the next *)
(* one, contains all.                                                      *)
(***************************************************************************)
LEMMA AllNaturals ==
  ASSUME NEW S, 0 \in S, \A k \in Nat : k \in S => k + 1 \in S
  PROVE  Nat \subseteq S
<1> SUFFICES ASSUME Nat \ S # {} PROVE FALSE
  OBVIOUS
<1>1. PICK k \in Nat \ S : \A m \in Nat \ S : k <= m
  BY LeastNatural
<1>2. k # 0 /\ k \in Nat
  OBVIOUS
<1>3. k - 1 \in Nat /\ k - 1 \in S
  BY <1>1, <1>2
<1>4. (k - 1) + 1 \in S
  BY <1>3
<1> QED BY <1>2, <1>4

(***************************************************************************)
(* A set of integers with an upper bound has a greatest one.               *)
(***************************************************************************)
LEMMA Greatest ==
  ASSUME NEW S, S \subseteq Int, S # {}, NEW b \in Int, \A x \in S : x <= b
  PROVE  \E k \in S : \A m \in S : m <= k
<1> DEFINE D == {b - x : x \in S}
<1>1. D \subseteq Nat /\ D # {}
  <2>1. ASSUME NEW x \in S PROVE b - x \in Nat
    <3>1. x \in Int /\ x <= b
      OBVIOUS
    <3> QED BY <3>1
  <2> QED BY <2>1
<1>2. PICK d \in D : \A m \in D : d <= m
  <2> HIDE DEF D
  <2> QED BY <1>1, LeastNatural
<1>3. PICK k \in S : d = b - k
  OBVIOUS
<1>4. ASSUME NEW m \in S PROVE m <= k
  <2>1. b - m \in D
    OBVIOUS
  <2>2. b - k <= b - m
    <3> HIDE DEF D
    <3> QED BY <1>2, <1>3, <2>1
  <2> QED BY <2>2
<1> QED BY <1>4

(***************************************************************************)
(* How many members of an interval are smaller than one of them.           *)
(***************************************************************************)
LEMMA CountBelow ==
  ASSUME NEW a \in Int, NEW b \in Int, NEW k \in Int, a <= k, k <= b + 1
  PROVE  /\ {l \in a .. b : l < k} = a .. k - 1
         /\ IsFiniteSet({l \in a .. b : l < k})
         /\ Cardinality({l \in a .. b : l < k}) = k - a
<1>1. {l \in a .. b : l < k} = a .. k - 1
  OBVIOUS
<1>2. IsFiniteSet(a .. k - 1) /\ Cardinality(a .. k - 1) = IF a > k - 1 THEN 0 ELSE (k - 1) - a + 1
  BY FS_Interval
<1>3. Cardinality(a .. k - 1) = k - a
  BY <1>2
<1> QED BY <1>1, <1>2, <1>3

------------------------------------------------------------------------------
(***************************************************************************)
(* Induction over the subsets of a finite set.                             *)
(***************************************************************************)
LEMMA SubsetInduction ==
  ASSUME NEW S, IsFiniteSet(S), NEW G,
         \A t \in SUBSET S : (\A u \in SUBSET t : u # t => u \in G) => t \in G
  PROVE  (SUBSET S) \subseteq G
<1> DEFINE Bad == (SUBSET S) \ G
           R   == StrictSubsetOrdering(S)
<1> SUFFICES ASSUME Bad # {} PROVE FALSE
  OBVIOUS
<1>1. Bad \subseteq FiniteSubsetsOf(S)
  BY FS_Subset DEF FiniteSubsetsOf
<1>2. IsWellFoundedOn(R, FiniteSubsetsOf(S))
  BY FS_StrictSubsetOrderingWellFounded
<1>3. PICK t \in Bad : \A u \in Bad : <<u, t>> \notin R
  <2> HIDE DEF Bad, R
  <2> QED BY <1>1, <1>2, WFMin
<1>4. ASSUME NEW u \in SUBSET t, u # t PROVE u \in G
  BY <1>3, <1>4 DEF StrictSubsetOrdering
<1> QED BY <1>4

------------------------------------------------------------------------------
\* The recursive function in the definition of SumOf.
IsSum(f, w, S) ==
  f = [s \in SUBSET S |-> IF s = {} THEN 0
                          ELSE w[CHOOSE x \in s : TRUE] + f[s \ {CHOOSE x \in s : TRUE}]]

LEMMA SumExists ==
  ASSUME NEW S, IsFiniteSet(S), NEW w
  PROVE  \E f : IsSum(f, w, S)
<1> DEFINE D(m) == {s \in SUBSET S : Cardinality(s) <= m}
           Has(m) == \E f : f = [s \in D(m) |-> IF s = {} THEN 0
                                  ELSE w[CHOOSE x \in s : TRUE] + f[s \ {CHOOSE x \in s : TRUE}]]
           Ms == {m \in Nat : Has(m)}
<1>1. \A s \in SUBSET S : IsFiniteSet(s) /\ Cardinality(s) \in Nat
  BY FS_Subset, FS_CardinalityType
<1>2. Has(0)
  <2> DEFINE f == [s \in D(0) |-> 0]
  <2>1. \A s \in D(0) : s = {}
    BY <1>1, FS_EmptySet
  <2>2. f = [s \in D(0) |-> IF s = {} THEN 0
                            ELSE w[CHOOSE x \in s : TRUE] + f[s \ {CHOOSE x \in s : TRUE}]]
    <3> HIDE DEF D
    <3> QED BY <2>1
  <2> QED BY <2>2
<1>3. ASSUME NEW m \in Nat, Has(m) PROVE Has(m + 1)
  <2>1. PICK f : f = [s \in D(m) |-> IF s = {} THEN 0
                                  ELSE w[CHOOSE x \in s : TRUE] + f[s \ {CHOOSE x \in s : TRUE}]]
    BY <1>3
  <2> DEFINE g == [s \in D(m + 1) |-> IF s = {} THEN 0
                                  ELSE w[CHOOSE x \in s : TRUE] + f[s \ {CHOOSE x \in s : TRUE}]]
  <2>2. ASSUME NEW s \in D(m + 1), s # {}
        PROVE  g[s \ {CHOOSE x \in s : TRUE}] = f[s \ {CHOOSE x \in s : TRUE}]
    <3> DEFINE c == CHOOSE x \in s : TRUE
               r == s \ {c}
    <3>1. c \in s
      BY <2>2
    <3>2. IsFiniteSet(s) /\ Cardinality(s) \in Nat /\ Cardinality(s) <= m + 1
      BY <1>1
    <3>3. r \in SUBSET S /\ Cardinality(r) = Cardinality(s) - 1
      BY <3>1, <3>2, FS_RemoveElement
    <3> HIDE DEF c, r
    <3>4. r \in D(m) /\ r \in D(m + 1)
      BY <3>2, <3>3, <1>1
    <3>5. g[r] = f[r]
      <4> HIDE DEF D
      <4> QED BY <2>1, <3>4
    <3> QED BY <3>5 DEF r, c
  <2>3. g = [s \in D(m + 1) |-> IF s = {} THEN 0
                                  ELSE w[CHOOSE x \in s : TRUE] + g[s \ {CHOOSE x \in s : TRUE}]]
    <3>1. ASSUME NEW s \in D(m + 1)
          PROVE  (IF s = {} THEN 0 ELSE w[CHOOSE x \in s : TRUE] + f[s \ {CHOOSE x \in s : TRUE}])
               = (IF s = {} THEN 0 ELSE w[CHOOSE x \in s : TRUE] + g[s \ {CHOOSE x \in s : TRUE}])
      <4> HIDE DEF g, D
      <4> QED BY <2>2
    <3> DEFINE e(s) == IF s = {} THEN 0 ELSE w[CHOOSE x \in s : TRUE] + g[s \ {CHOOSE x \in s : TRUE}]
               d(s) == IF s = {} THEN 0 ELSE w[CHOOSE x \in s : TRUE] + f[s \ {CHOOSE x \in s : TRUE}]
    <3>2. \A s \in D(m + 1) : d(s) = e(s)
      BY <3>1
    <3>3. g = [s \in D(m + 1) |-> d(s)]
      OBVIOUS
    <3>4. g = [s \in D(m + 1) |-> e(s)]
      <4> HIDE DEF g, d, e, D
      <4> QED BY <3>2, <3>3
    <3> QED BY <3>4
  <2> HIDE DEF g, D
  <2> QED BY <2>3
<1>4. Nat \subseteq Ms
  <2>1. 0 \in Ms
    <3> HIDE DEF Has
    <3> QED BY <1>2
  <2>2. \A k \in Nat : k \in Ms => k + 1 \in Ms
    <3> HIDE DEF Has
    <3> QED BY <1>3
  <2> HIDE DEF Ms
  <2> QED BY <2>1, <2>2, AllNaturals
<1>5. Has(Cardinality(S))
  <2>1. Cardinality(S) \in Nat
    BY FS_CardinalityType
  <2> HIDE DEF Has
  <2> QED BY <1>4, <2>1
<1>6. D(Cardinality(S)) = SUBSET S
  <2>1. \A s \in SUBSET S : Cardinality(s) <= Cardinality(S)
    BY FS_Subset
  <2> QED BY <2>1
<1> HIDE DEF D
<1> QED BY <1>5, <1>6 DEF IsSum

LEMMA SumUnique ==
  ASSUME NEW S, IsFiniteSet(S), NEW w, NEW f, NEW g, IsSum(f, w, S), IsSum(g, w, S)
  PROVE  f = g
<1> DEFINE G == {t \in SUBSET S : f[t] = g[t]}
<1>1. ASSUME NEW t \in SUBSET S, \A u \in SUBSET t : u # t => u \in G
      PROVE  t \in G
  <2>1. CASE t = {}
    BY <2>1 DEF IsSum
  <2>2. CASE t # {}
    <3> DEFINE c == CHOOSE x \in t : TRUE
    <3>1. c \in t
      BY <2>2
    <3> HIDE DEF c
    <3>2. t \ {c} \in G
      BY <1>1, <3>1
    <3>3. f[t] = w[c] + f[t \ {c}] /\ g[t] = w[c] + g[t \ {c}]
      BY <2>2 DEF IsSum, c
    <3> QED BY <3>2, <3>3
  <2> QED BY <2>1, <2>2
<1>2. SUBSET S \subseteq G
  <2> HIDE DEF G
  <2> QED BY <1>1, SubsetInduction
<1>3. \A t \in SUBSET S : f[t] = g[t]
  BY <1>2
<1> DEFINE d(s) == IF s = {} THEN 0 ELSE w[CHOOSE x \in s : TRUE] + f[s \ {CHOOSE x \in s : TRUE}]
           e(s) == IF s = {} THEN 0 ELSE w[CHOOSE x \in s : TRUE] + g[s \ {CHOOSE x \in s : TRUE}]
<1>4. f = [s \in SUBSET S |-> d(s)] /\ g = [s \in SUBSET S |-> e(s)]
  BY DEF IsSum
<1> HIDE DEF d, e
<1> QED BY <1>3, <1>4

LEMMA SumIs ==
  ASSUME NEW S, IsFiniteSet(S), NEW w, NEW f, IsSum(f, w, S), NEW t \in SUBSET S
  PROVE  SumOf(w, t) = f[t]
<1> DEFINE g == CHOOSE h : IsSum(h, w, t)
           r == [s \in SUBSET t |-> f[s]]
<1>1. SumOf(w, t) = g[t]
  BY DEF SumOf, MapThenSumSet, MapThenFoldSet, IsSum
<1>2. IsFiniteSet(t)
  BY FS_Subset
<1>3. IsSum(g, w, t)
  BY <1>2, SumExists
<1>4. IsSum(r, w, t)
  <2> DEFINE d(s) == IF s = {} THEN 0 ELSE w[CHOOSE x \in s : TRUE] + r[s \ {CHOOSE x \in s : TRUE}]
  <2>1. ASSUME NEW s \in SUBSET t PROVE f[s] = d(s)
    <3>1. CASE s = {}
      BY <3>1 DEF IsSum
    <3>2. CASE s # {}
      <4> DEFINE c == CHOOSE x \in s : TRUE
      <4>1. c \in s
        BY <3>2
      <4>2. f[s] = w[c] + f[s \ {c}]
        BY <3>2 DEF IsSum
      <4>3. r[s \ {c}] = f[s \ {c}]
        OBVIOUS
      <4> QED BY <3>2, <4>2, <4>3
    <3> QED BY <3>1, <3>2
  <2>2. r = [s \in SUBSET t |-> d(s)]
    <3> HIDE DEF d
    <3> QED BY <2>1
  <2> QED BY <2>2 DEF IsSum
<1> HIDE DEF g, r
<1>5. g = r
  BY <1>2, <1>3, <1>4, SumUnique
<1> QED BY <1>1, <1>5 DEF r

------------------------------------------------------------------------------
(***************************************************************************)
(* What the sum of a function over a finite set is.                        *)
(***************************************************************************)
LEMMA SumEmpty ==
  ASSUME NEW w
  PROVE  SumOf(w, {}) = 0
<1>1. IsFiniteSet({})
  BY FS_EmptySet
<1>2. PICK f : IsSum(f, w, {})
  BY <1>1, SumExists
<1>3. SumOf(w, {}) = f[{}]
  BY <1>1, <1>2, SumIs
<1> QED BY <1>2, <1>3 DEF IsSum

LEMMA SumChosen ==
  ASSUME NEW S, IsFiniteSet(S), NEW w, S # {}
  PROVE  \E c \in S : SumOf(w, S) = w[c] + SumOf(w, S \ {c})
<1> DEFINE c == CHOOSE x \in S : TRUE
<1>1. PICK f : IsSum(f, w, S)
  BY SumExists
<1>2. c \in S
  OBVIOUS
<1>3. f[S] = w[c] + f[S \ {c}]
  BY <1>1 DEF IsSum
<1> HIDE DEF c
<1>4. SumOf(w, S) = f[S] /\ SumOf(w, S \ {c}) = f[S \ {c}]
  BY <1>1, SumIs
<1> QED BY <1>2, <1>3, <1>4

LEMMA SumIsInt ==
  ASSUME NEW S, IsFiniteSet(S), NEW w, \A x \in S : w[x] \in Int
  PROVE  SumOf(w, S) \in Int
<1> DEFINE G == {t \in SUBSET S : SumOf(w, t) \in Int}
<1>1. ASSUME NEW t \in SUBSET S, \A u \in SUBSET t : u # t => u \in G
      PROVE  t \in G
  <2>1. CASE t = {}
    BY <2>1, SumEmpty
  <2>2. CASE t # {}
    <3>1. IsFiniteSet(t)
      BY FS_Subset
    <3>2. PICK c \in t : SumOf(w, t) = w[c] + SumOf(w, t \ {c})
      BY <2>2, <3>1, SumChosen
    <3>3. t \ {c} \in G
      BY <1>1
    <3> QED BY <3>2, <3>3
  <2> QED BY <2>1, <2>2
<1>2. (SUBSET S) \subseteq G
  <2> HIDE DEF G
  <2> QED BY <1>1, SubsetInduction
<1> QED BY <1>2

\* Any element can be taken out first.
LEMMA SumRemove ==
  ASSUME NEW S, IsFiniteSet(S), NEW w, \A x \in S : w[x] \in Int, NEW y \in S
  PROVE  SumOf(w, S) = w[y] + SumOf(w, S \ {y})
<1> DEFINE G == {t \in SUBSET S : \A x \in t : SumOf(w, t) = w[x] + SumOf(w, t \ {x})}
<1>1. ASSUME NEW t \in SUBSET S, \A u \in SUBSET t : u # t => u \in G
      PROVE  t \in G
  <2> SUFFICES ASSUME NEW x \in t PROVE SumOf(w, t) = w[x] + SumOf(w, t \ {x})
    OBVIOUS
  <2>1. IsFiniteSet(t)
    BY FS_Subset
  <2>2. PICK c \in t : SumOf(w, t) = w[c] + SumOf(w, t \ {c})
    BY <2>1, SumChosen
  <2>3. CASE x # c
    <3>1. t \ {c} \in G /\ t \ {x} \in G
      BY <1>1
    <3>2. SumOf(w, t \ {c}) = w[x] + SumOf(w, (t \ {c}) \ {x})
      BY <2>3, <3>1
    <3>3. SumOf(w, t \ {x}) = w[c] + SumOf(w, (t \ {x}) \ {c})
      BY <2>3, <3>1
    <3>4. (t \ {c}) \ {x} = (t \ {x}) \ {c}
      OBVIOUS
    <3>5. IsFiniteSet((t \ {x}) \ {c})
      BY <2>1, FS_Subset
    <3>6. SumOf(w, (t \ {x}) \ {c}) \in Int
      BY <3>5, SumIsInt
    <3>7. w[x] \in Int /\ w[c] \in Int
      OBVIOUS
    <3>8. PICK d : d = SumOf(w, (t \ {x}) \ {c})
      OBVIOUS
    <3>9. SumOf(w, t \ {c}) = w[x] + d
      BY <3>2, <3>4, <3>8
    <3>10. SumOf(w, t \ {x}) = w[c] + d /\ d \in Int
      BY <3>3, <3>6, <3>8
    <3> QED BY ONLY <2>2, <3>7, <3>9, <3>10, SMT
  <2> QED BY <2>2, <2>3
<1>2. (SUBSET S) \subseteq G
  <2> HIDE DEF G
  <2> QED BY <1>1, SubsetInduction
<1> QED BY <1>2

LEMMA SumAdd ==
  ASSUME NEW S, IsFiniteSet(S), NEW w, NEW y, y \notin S, \A x \in S \union {y} : w[x] \in Int
  PROVE  SumOf(w, S \union {y}) = w[y] + SumOf(w, S)
<1>1. IsFiniteSet(S \union {y}) /\ (S \union {y}) \ {y} = S
  BY FS_AddElement
<1>2. SumOf(w, S \union {y}) = w[y] + SumOf(w, (S \union {y}) \ {y})
  BY <1>1, SumRemove
<1> QED BY <1>1, <1>2

\* w is a linear combination of u and v.
IsLinear(w, u, v, S, a, b, c) ==
  \A x \in S : u[x] \in Int /\ v[x] \in Int /\ w[x] = a * u[x] + b * v[x] + c

LEMMA SumLinear ==
  ASSUME NEW S, IsFiniteSet(S), NEW u, NEW v, NEW w, NEW a \in Int, NEW b \in Int, NEW c \in Int,
         IsLinear(w, u, v, S, a, b, c)
  PROVE  SumOf(w, S) = a * SumOf(u, S) + b * SumOf(v, S) + c * Cardinality(S)
<1>0. \A x \in S : u[x] \in Int /\ v[x] \in Int /\ w[x] = a * u[x] + b * v[x] + c
  BY DEF IsLinear
<1> DEFINE G == {t \in SUBSET S :
                   SumOf(w, t) = a * SumOf(u, t) + b * SumOf(v, t) + c * Cardinality(t)}
<1>1. ASSUME NEW t \in SUBSET S, \A r \in SUBSET t : r # t => r \in G
      PROVE  t \in G
  <2>1. CASE t = {}
    <3>1. SumOf(u, {}) = 0 /\ SumOf(v, {}) = 0 /\ SumOf(w, {}) = 0
      BY SumEmpty
    <3>2. Cardinality({}) = 0
      BY FS_EmptySet
    <3> QED BY <2>1, <3>1, <3>2
  <2>2. CASE t # {}
    <3>1. PICK y \in t : TRUE
      BY <2>2
    <3>2. IsFiniteSet(t)
      BY FS_Subset
    <3>3. u[y] \in Int /\ v[y] \in Int /\ w[y] = a * u[y] + b * v[y] + c
      BY <1>0
    <3>4. \A x \in t : u[x] \in Int /\ v[x] \in Int /\ w[x] \in Int
      BY <1>0
    <3>5. SumOf(u, t) = u[y] + SumOf(u, t \ {y})
      BY <3>2, <3>4, SumRemove
    <3>6. SumOf(v, t) = v[y] + SumOf(v, t \ {y})
      BY <3>2, <3>4, SumRemove
    <3>7. SumOf(w, t) = w[y] + SumOf(w, t \ {y})
      BY <3>2, <3>4, SumRemove
    <3>8. t \ {y} \in G
      BY <1>1
    <3>9. SumOf(w, t \ {y}) = a * SumOf(u, t \ {y}) + b * SumOf(v, t \ {y}) + c * Cardinality(t \ {y})
      BY <3>8
    <3>10. /\ IsFiniteSet(t \ {y}) /\ Cardinality(t \ {y}) = Cardinality(t) - 1
           /\ Cardinality(t) \in Nat
      BY <3>2, FS_RemoveElement, FS_CardinalityType
    <3>11. SumOf(u, t \ {y}) \in Int /\ SumOf(v, t \ {y}) \in Int
      BY <3>4, <3>10, SumIsInt
    <3> DEFINE su == SumOf(u, t \ {y})
               sv == SumOf(v, t \ {y})
               n  == Cardinality(t)
               p  == u[y]
               q  == v[y]
    <3> HIDE DEF G
    <3>12. a * (p + su) + b * (q + sv) + c * n
             = (a * p + b * q + c) + (a * su + b * sv + c * (n - 1))
      <4>1. su \in Int /\ sv \in Int /\ n \in Int /\ p \in Int /\ q \in Int
        BY <3>3, <3>10, <3>11
      <4> HIDE DEF su, sv, n, p, q
      <4> QED BY <4>1, SMT
    <3>13. SumOf(w, t) = a * SumOf(u, t) + b * SumOf(v, t) + c * Cardinality(t)
      BY <3>3, <3>5, <3>6, <3>7, <3>9, <3>10, <3>12
    <3> QED BY <3>13 DEF G
  <2> QED BY <2>1, <2>2
<1>2. (SUBSET S) \subseteq G
  <2> HIDE DEF G
  <2> QED BY <1>1, SubsetInduction
<1> QED BY <1>2

\* Equal functions have equal sums.
LEMMA SumSame ==
  ASSUME NEW S, IsFiniteSet(S), NEW v, NEW w, \A x \in S : v[x] \in Int /\ w[x] = v[x]
  PROVE  SumOf(w, S) = SumOf(v, S)
<1>1. SumOf(w, S) = 1 * SumOf(v, S) + 0 * SumOf(v, S) + 0 * Cardinality(S)
  <2>1. IsLinear(w, v, v, S, 1, 0, 0)
    BY DEF IsLinear
  <2> QED BY <2>1, SumLinear
<1>2. SumOf(v, S) \in Int /\ Cardinality(S) \in Nat
  BY SumIsInt, FS_CardinalityType
<1> QED BY <1>1, <1>2

LEMMA SumUnion ==
  ASSUME NEW A, IsFiniteSet(A), NEW B, IsFiniteSet(B), A \cap B = {}, NEW w,
         \A x \in A \union B : w[x] \in Int
  PROVE  SumOf(w, A \union B) = SumOf(w, A) + SumOf(w, B)
<1> DEFINE G == {t \in SUBSET B : SumOf(w, A \union t) = SumOf(w, A) + SumOf(w, t)}
<1>1. ASSUME NEW t \in SUBSET B, \A r \in SUBSET t : r # t => r \in G
      PROVE  t \in G
  <2>1. CASE t = {}
    <3>1. A \union t = A /\ SumOf(w, t) = 0
      BY <2>1, SumEmpty
    <3>2. SumOf(w, A) \in Int
      BY SumIsInt
    <3>3. SumOf(w, A \union t) = SumOf(w, A)
      BY <3>1
    <3> QED BY <3>1, <3>2, <3>3
  <2>2. CASE t # {}
    <3>1. PICK y \in t : TRUE
      BY <2>2
    <3>2. IsFiniteSet(t) /\ IsFiniteSet(t \ {y})
      BY FS_Subset
    <3>3. IsFiniteSet(A \union (t \ {y}))
      BY <3>2, FS_Union
    <3>4. SumOf(w, t) = w[y] + SumOf(w, t \ {y})
      BY <3>2, SumRemove
    <3>5. y \notin A \union (t \ {y}) /\ A \union t = (A \union (t \ {y})) \union {y}
      OBVIOUS
    <3>6. SumOf(w, (A \union (t \ {y})) \union {y}) = w[y] + SumOf(w, A \union (t \ {y}))
      BY <3>3, <3>5, SumAdd
    <3>7. SumOf(w, A \union (t \ {y})) = SumOf(w, A) + SumOf(w, t \ {y})
      BY <1>1
    <3>8. w[y] \in Int /\ SumOf(w, A) \in Int /\ SumOf(w, t \ {y}) \in Int
      BY <3>2, SumIsInt
    <3>9. SumOf(w, A \union t) = w[y] + SumOf(w, A \union (t \ {y}))
      BY <3>5, <3>6
    <3>10. SumOf(w, A \union t) = SumOf(w, A) + SumOf(w, t)
      BY ONLY <3>4, <3>7, <3>8, <3>9, SMT
    <3> QED BY <3>10
  <2> QED BY <2>1, <2>2
<1>2. (SUBSET B) \subseteq G
  <2> HIDE DEF G
  <2> QED BY <1>1, SubsetInduction
<1> QED BY <1>2

LEMMA SumMonotone ==
  ASSUME NEW S, IsFiniteSet(S), NEW u, NEW v,
         \A x \in S : u[x] \in Int /\ v[x] \in Int /\ u[x] <= v[x]
  PROVE  SumOf(u, S) <= SumOf(v, S)
<1> DEFINE G == {t \in SUBSET S : SumOf(u, t) <= SumOf(v, t)}
<1>1. ASSUME NEW t \in SUBSET S, \A r \in SUBSET t : r # t => r \in G
      PROVE  t \in G
  <2>1. CASE t = {}
    <3>1. SumOf(u, {}) = 0 /\ SumOf(v, {}) = 0
      BY SumEmpty
    <3> QED BY <2>1, <3>1
  <2>2. CASE t # {}
    <3>1. PICK y \in t : TRUE
      BY <2>2
    <3>2. IsFiniteSet(t) /\ IsFiniteSet(t \ {y})
      BY FS_Subset
    <3>3. SumOf(u, t) = u[y] + SumOf(u, t \ {y})
      BY <3>2, SumRemove
    <3>4. SumOf(v, t) = v[y] + SumOf(v, t \ {y})
      BY <3>2, SumRemove
    <3>5. SumOf(u, t \ {y}) \in Int
      BY <3>2, SumIsInt
    <3>6. SumOf(v, t \ {y}) \in Int
      BY <3>2, SumIsInt
    <3>7. SumOf(u, t \ {y}) <= SumOf(v, t \ {y})
      BY <1>1
    <3>8. u[y] \in Int /\ v[y] \in Int /\ u[y] <= v[y]
      OBVIOUS
    <3>9. SumOf(u, t) <= SumOf(v, t)
      BY ONLY <3>3, <3>4, <3>5, <3>6, <3>7, <3>8, SMT
    <3> QED BY <3>9
  <2> QED BY <2>1, <2>2
<1>2. (SUBSET S) \subseteq G
  <2> HIDE DEF G
  <2> QED BY <1>1, SubsetInduction
<1> QED BY <1>2

LEMMA SumConstant ==
  ASSUME NEW S, IsFiniteSet(S), NEW w, NEW c \in Int, \A x \in S : w[x] = c
  PROVE  SumOf(w, S) = c * Cardinality(S)
<1> DEFINE G == {t \in SUBSET S : SumOf(w, t) = c * Cardinality(t)}
<1>1. ASSUME NEW t \in SUBSET S, \A r \in SUBSET t : r # t => r \in G
      PROVE  t \in G
  <2>1. CASE t = {}
    BY <2>1, SumEmpty, FS_EmptySet
  <2>2. CASE t # {}
    <3>1. PICK y \in t : TRUE
      BY <2>2
    <3>2. IsFiniteSet(t)
      BY FS_Subset
    <3>3. Cardinality(t \ {y}) = Cardinality(t) - 1 /\ Cardinality(t) \in Nat
      BY <3>2, FS_RemoveElement, FS_CardinalityType
    <3>4. \A x \in t : w[x] \in Int
      OBVIOUS
    <3>5. SumOf(w, t) = w[y] + SumOf(w, t \ {y})
      BY <3>2, <3>4, SumRemove
    <3>6. w[y] = c /\ SumOf(w, t \ {y}) = c * Cardinality(t \ {y})
      BY <1>1
    <3> DEFINE n == Cardinality(t)
    <3>7. c + c * (n - 1) = c * n
      <4>1. n \in Nat
        BY <3>3
      <4> HIDE DEF n
      <4> QED BY <4>1, SMT
    <3> QED BY <3>3, <3>5, <3>6, <3>7
  <2> QED BY <2>1, <2>2
<1>2. (SUBSET S) \subseteq G
  <2> HIDE DEF G
  <2> QED BY <1>1, SubsetInduction
<1> QED BY <1>2

\* A sum lies between the number of its terms times the least of them, and the greatest.
LEMMA SumBounds ==
  ASSUME NEW S, IsFiniteSet(S), NEW w, NEW lo \in Int, NEW hi \in Int,
         \A x \in S : w[x] \in Int /\ lo <= w[x] /\ w[x] <= hi
  PROVE  /\ lo * Cardinality(S) <= SumOf(w, S)
         /\ SumOf(w, S) <= hi * Cardinality(S)
<1> DEFINE l == [x \in S |-> lo]
           h == [x \in S |-> hi]
<1>1. \A x \in S : l[x] = lo /\ h[x] = hi
  OBVIOUS
<1> HIDE DEF l, h
<1>2. SumOf(l, S) <= SumOf(w, S)
  BY <1>1, SumMonotone
<1>3. SumOf(w, S) <= SumOf(h, S)
  BY <1>1, SumMonotone
<1>4. SumOf(l, S) = lo * Cardinality(S)
  BY <1>1, SumConstant
<1>5. SumOf(h, S) = hi * Cardinality(S)
  BY <1>1, SumConstant
<1> QED BY <1>2, <1>3, <1>4, <1>5

\* Arguments at which the function is 0 do not count.
LEMMA SumWithout ==
  ASSUME NEW S, IsFiniteSet(S), NEW T \in SUBSET S, NEW w, \A x \in S : w[x] \in Int,
         \A x \in S \ T : w[x] = 0
  PROVE  SumOf(w, S) = SumOf(w, T)
<1>1. IsFiniteSet(T) /\ IsFiniteSet(S \ T) /\ T \cap (S \ T) = {} /\ T \union (S \ T) = S
  BY FS_Subset
<1>2. SumOf(w, T \union (S \ T)) = SumOf(w, T) + SumOf(w, S \ T)
  BY <1>1, SumUnion
<1>3. SumOf(w, S \ T) = 0 * Cardinality(S \ T)
  BY <1>1, SumConstant
<1>4. SumOf(w, S \ T) \in Int /\ SumOf(w, T) \in Int /\ Cardinality(S \ T) \in Nat
  BY <1>1, SumIsInt, FS_CardinalityType
<1>5. SumOf(w, S \ T) = 0
  BY <1>3, <1>4
<1> QED BY <1>1, <1>2, <1>4, <1>5

\* The number of members of a subset is the sum of an indicator function.
LEMMA SumCounts ==
  ASSUME NEW S, IsFiniteSet(S), NEW T \in SUBSET S, NEW w,
         \A x \in S : w[x] = IF x \in T THEN 1 ELSE 0
  PROVE  SumOf(w, S) = Cardinality(T)
<1>1. SumOf(w, S) = SumOf(w, T)
  BY SumWithout
<1>2. IsFiniteSet(T) /\ Cardinality(T) \in Nat
  BY FS_Subset, FS_CardinalityType
<1>3. SumOf(w, T) = 1 * Cardinality(T)
  BY <1>2, SumConstant
<1> QED BY <1>1, <1>2, <1>3

\* Cauchy's inequality: the square of a sum is at most the number of its terms times
\* the sum of their squares.
LEMMA SumSquares ==
  ASSUME NEW S, IsFiniteSet(S), NEW w, NEW q, \A x \in S : w[x] \in Int /\ q[x] = w[x] * w[x]
  PROVE  SumOf(w, S) * SumOf(w, S) <= Cardinality(S) * SumOf(q, S)
<1> DEFINE G == {t \in SUBSET S : SumOf(w, t) * SumOf(w, t) <= Cardinality(t) * SumOf(q, t)}
<1>0. \A x \in S : q[x] \in Int /\ q[x] >= 0
  <2> TAKE x \in S
  <2>1. PICK k : k = w[x]
    OBVIOUS
  <2>2. k \in Int /\ k * k \in Int /\ k * k >= 0
    <3>1. k \in Int
      BY <2>1
    <3>2. k * k \in Int
      BY <3>1
    <3>3. CASE k >= 0
      BY <3>1, <3>3, SMT
    <3>4. CASE k <= 0
      BY <3>1, <3>4, SMT
    <3> QED BY <3>1, <3>2, <3>3, <3>4
  <2> QED BY <2>1, <2>2
<1>1. ASSUME NEW t \in SUBSET S, \A r \in SUBSET t : r # t => r \in G
      PROVE  t \in G
  <2>1. CASE t = {}
    BY <2>1, SumEmpty, FS_EmptySet
  <2>2. CASE t # {}
    <3>1. PICK y \in t : TRUE
      BY <2>2
    <3>2. IsFiniteSet(t) /\ IsFiniteSet(t \ {y})
      BY FS_Subset
    <3>3. Cardinality(t \ {y}) = Cardinality(t) - 1 /\ Cardinality(t \ {y}) \in Nat
      BY <3>2, FS_RemoveElement, FS_CardinalityType
    <3>4. SumOf(w, t) = w[y] + SumOf(w, t \ {y})
      BY <3>2, SumRemove
    <3>5. SumOf(q, t) = q[y] + SumOf(q, t \ {y})
      BY <1>0, <3>2, SumRemove
    <3>6. t \ {y} \in G
      BY <1>1
    <3> DEFINE n == Cardinality(t \ {y})
               s == SumOf(w, t \ {y})
               z == SumOf(q, t \ {y})
               p == w[y]
               off == [x \in t \ {y} |-> (w[x] - p) * (w[x] - p)]
    <3>7. SumOf(off, t \ {y}) = 1 * z + (-2 * p) * s + (p * p) * n
      <4>0. p \in Int
        OBVIOUS
      <4>1. \A x \in t \ {y} : /\ q[x] \in Int /\ w[x] \in Int
                              /\ off[x] = 1 * q[x] + (-2 * p) * w[x] + p * p
        <5> TAKE x \in t \ {y}
        <5>1. PICK k \in Int : k = w[x]
          OBVIOUS
        <5>2. (k - p) * (k - p) = 1 * (k * k) + (-2 * p) * k + p * p
          <6> HIDE DEF p
          <6> QED BY <4>0, SMT
        <5>3. off[x] = (k - p) * (k - p) /\ q[x] = k * k
          BY <5>1
        <5> HIDE DEF off, p
        <5> QED BY <1>0, <5>1, <5>2, <5>3
      <4>2. 1 \in Int /\ -2 * p \in Int /\ p * p \in Int
        <5> HIDE DEF p
        <5> QED BY <4>0
      <4>3. PICK o \in Int, a \in Int, b \in Int : o = 1 /\ a = -2 * p /\ b = p * p
        BY <4>2
      <4> HIDE DEF off, p
      <4>4. IsLinear(off, q, w, t \ {y}, o, a, b)
        BY <4>1, <4>3 DEF IsLinear
      <4>5. SumOf(off, t \ {y}) = o * z + a * s + b * n
        BY <3>2, <4>4, SumLinear
      <4> QED BY <4>3, <4>5
    <3>8. 0 <= SumOf(off, t \ {y})
      <4>1. \A x \in t \ {y} : off[x] \in Int /\ 0 <= off[x]
        <5> TAKE x \in t \ {y}
        <5>1. PICK k : k = w[x] - p
          OBVIOUS
        <5>2. k \in Int
          BY <5>1
        <5>3. k * k \in Int /\ 0 <= k * k
          <6>1. CASE k >= 0
            BY <5>2, <6>1, SMT
          <6>2. CASE k <= 0
            BY <5>2, <6>2, SMT
          <6> QED BY <5>2, <6>1, <6>2
        <5> QED BY <5>1, <5>3
      <4>0. PICK c \in Int : c = 0
        OBVIOUS
      <4> DEFINE zero == [x \in t \ {y} |-> c]
      <4>2. \A x \in t \ {y} : zero[x] = c
        OBVIOUS
      <4> HIDE DEF zero, off
      <4>3. SumOf(zero, t \ {y}) <= SumOf(off, t \ {y})
        BY <3>2, <4>0, <4>1, <4>2, SumMonotone
      <4>4. SumOf(zero, t \ {y}) = c * Cardinality(t \ {y})
        BY <3>2, <4>2, SumConstant
      <4> QED BY <3>3, <4>0, <4>3, <4>4
    <3>9. s * s <= n * z
      BY <3>6
    <3>10. s \in Int /\ z \in Int /\ p \in Int /\ n \in Nat /\ q[y] = p * p
      BY <1>0, <3>2, <3>3, SumIsInt
    <3>11. (p + s) * (p + s) <= (n + 1) * (p * p + z)
      <4>1. 0 <= 1 * z + (-2 * p) * s + (p * p) * n
        BY <3>7, <3>8
      <4> HIDE DEF s, z, p, n, off
      <4> QED BY ONLY <3>9, <3>10, <4>1, SMT
    <3>12. SumOf(w, t) = p + s /\ SumOf(q, t) = p * p + z /\ Cardinality(t) = n + 1
      <4>1. IsFiniteSet(t) /\ Cardinality(t) \in Nat
        BY <3>2, FS_CardinalityType
      <4> QED BY <3>3, <3>4, <3>5, <3>10, <4>1
    <3> QED BY <3>11, <3>12
  <2> QED BY <2>1, <2>2
<1>2. (SUBSET S) \subseteq G
  <2> HIDE DEF G
  <2> QED BY <1>1, SubsetInduction
<1> QED BY <1>2

\* A one-to-one image of a finite set has as many elements.
LEMMA ImageOneToOne ==
  ASSUME NEW S, IsFiniteSet(S), NEW f, \A x, y \in S : f[x] = f[y] => x = y
  PROVE  /\ IsFiniteSet({f[x] : x \in S})
         /\ Cardinality({f[x] : x \in S}) = Cardinality(S)
<1> DEFINE T == {f[x] : x \in S}
           g == [x \in S |-> f[x]]
<1>1. g \in Surjection(S, T)
  BY DEF Surjection
<1>2. g \in Injection(S, T)
  BY DEF Injection, IsInjective
<1> HIDE DEF g, T
<1>3. IsFiniteSet(T) /\ Cardinality(T) = Cardinality(S)
  BY <1>1, <1>2, FS_Surjection
<1> QED BY <1>3 DEF T

\* A sum over a one-to-one image is taken over the arguments.
LEMMA SumImage ==
  ASSUME NEW S, IsFiniteSet(S), NEW f, \A x, y \in S : f[x] = f[y] => x = y,
         NEW w, NEW v, \A x \in S : v[x] \in Int /\ v[x] = w[f[x]]
  PROVE  SumOf(w, {f[x] : x \in S}) = SumOf(v, S)
<1> DEFINE T(t) == {f[x] : x \in t}
           G == {t \in SUBSET S : SumOf(w, T(t)) = SumOf(v, t)}
<1>1. ASSUME NEW t \in SUBSET S, \A r \in SUBSET t : r # t => r \in G
      PROVE  t \in G
  <2>1. CASE t = {}
    <3>1. T(t) = {}
      BY <2>1
    <3>2. SumOf(w, {}) = 0 /\ SumOf(v, {}) = 0
      BY SumEmpty
    <3> QED BY <2>1, <3>1, <3>2
  <2>2. CASE t # {}
    <3>1. PICK y \in t : TRUE
      BY <2>2
    <3>2. IsFiniteSet(t) /\ IsFiniteSet(T(t))
      BY FS_Subset, ImageOneToOne
    <3>3. T(t) \ {f[y]} = T(t \ {y}) /\ f[y] \in T(t)
      BY <3>1
    <3>4. \A z \in T(t) : w[z] \in Int
      OBVIOUS
    <3>5. SumOf(w, T(t \ {y})) = SumOf(v, t \ {y})
      BY <1>1, <3>1
    <3>6. \A x \in t : v[x] \in Int
      OBVIOUS
    <3>7. w[f[y]] = v[y]
      BY <3>1
    <3> HIDE DEF T
    <3>8. SumOf(w, T(t)) = w[f[y]] + SumOf(w, T(t) \ {f[y]})
      BY <3>2, <3>3, <3>4, SumRemove
    <3>9. SumOf(v, t) = v[y] + SumOf(v, t \ {y})
      BY <3>1, <3>2, <3>6, SumRemove
    <3>10. SumOf(w, T(t)) = SumOf(v, t)
      BY <3>3, <3>5, <3>7, <3>8, <3>9
    <3> QED BY <3>10
  <2> QED BY <2>1, <2>2
<1>2. (SUBSET S) \subseteq G
  <2> HIDE DEF G
  <2> QED BY <1>1, SubsetInduction
<1>3. S \in G
  BY <1>2
<1> QED BY <1>3

LEMMA ModAdd ==
  ASSUME NEW m \in Nat \ {0}, NEW y \in Int
  PROVE  (y + m) % m = y % m
<1> DEFINE z == y + m
<1>1. y \div m \in Int /\ y % m \in 0 .. m - 1 /\ y = m * (y \div m) + (y % m)
  BY Division
<1>2. z \in Int
  OBVIOUS
<1> HIDE DEF z
<1>3. z \div m \in Int /\ z % m \in 0 .. m - 1 /\ z = m * (z \div m) + (z % m)
  BY <1>2, Division
<1>4. PICK q \in 0 .. m - 1, a \in Int : q = y % m /\ y = m * a + q
  BY <1>1
<1>5. PICK r \in 0 .. m - 1, b \in Int : r = z % m /\ z = m * b + r
  BY <1>3
<1>6. z = y + m /\ m * (a + 1) = m * a + m /\ m * a \in Int /\ m * b \in Int
  BY <1>4, <1>5 DEF z
<1>7. q + m * (a + 1) = r + m * b
  <2>1. q \in Int /\ r \in Int /\ m \in Int
    OBVIOUS
  <2>2. PICK u \in Int, v \in Int, w \in Int : u = m * a /\ v = m * b /\ w = m * (a + 1)
    BY <1>6, <2>1
  <2>3. w = u + m /\ y = u + q /\ z = v + r /\ z = y + m
    BY <1>4, <1>5, <1>6, <2>2
  <2>4. q + w = r + v
    BY ONLY q \in Int, r \in Int, m \in Int, u \in Int, v \in Int, w \in Int, y \in Int, <2>3
  <2> QED BY <2>2, <2>4
<1>8. q = r
  <2>1. a + 1 \in Int
    OBVIOUS
  <2> QED BY <1>7, <2>1, ResidueUnique
<1> QED BY <1>4, <1>5, <1>8 DEF z

(***************************************************************************)
(* The recursive function of a fold over a finite set exists.              *)
(***************************************************************************)
\* The recursive function in the definition of a fold: F[x] is what x does to the result so far.
IsFold(f, F, b, S) ==
  f = [s \in SUBSET S |-> IF s = {} THEN b
                          ELSE F[CHOOSE x \in s : TRUE][f[s \ {CHOOSE x \in s : TRUE}]]]

LEMMA FoldExists ==
  ASSUME NEW S, IsFiniteSet(S), NEW F, NEW b
  PROVE  \E f : IsFold(f, F, b, S)
<1> DEFINE D(m) == {s \in SUBSET S : Cardinality(s) <= m}
           Has(m) == \E f : f = [s \in D(m) |-> IF s = {} THEN b
                                  ELSE F[CHOOSE x \in s : TRUE][f[s \ {CHOOSE x \in s : TRUE}]]]
           Ms == {m \in Nat : Has(m)}
<1>1. \A s \in SUBSET S : IsFiniteSet(s) /\ Cardinality(s) \in Nat
  BY FS_Subset, FS_CardinalityType
<1>2. Has(0)
  <2> DEFINE f == [s \in D(0) |-> b]
  <2>1. \A s \in D(0) : s = {}
    BY <1>1, FS_EmptySet
  <2>2. f = [s \in D(0) |-> IF s = {} THEN b
                            ELSE F[CHOOSE x \in s : TRUE][f[s \ {CHOOSE x \in s : TRUE}]]]
    <3> HIDE DEF D
    <3> QED BY <2>1
  <2> QED BY <2>2
<1>3. ASSUME NEW m \in Nat, Has(m) PROVE Has(m + 1)
  <2>1. PICK f : f = [s \in D(m) |-> IF s = {} THEN b
                                  ELSE F[CHOOSE x \in s : TRUE][f[s \ {CHOOSE x \in s : TRUE}]]]
    BY <1>3
  <2> DEFINE g == [s \in D(m + 1) |-> IF s = {} THEN b
                                  ELSE F[CHOOSE x \in s : TRUE][f[s \ {CHOOSE x \in s : TRUE}]]]
  <2>2. ASSUME NEW s \in D(m + 1), s # {}
        PROVE  g[s \ {CHOOSE x \in s : TRUE}] = f[s \ {CHOOSE x \in s : TRUE}]
    <3> DEFINE c == CHOOSE x \in s : TRUE
               r == s \ {c}
    <3>1. c \in s
      BY <2>2
    <3>2. IsFiniteSet(s) /\ Cardinality(s) \in Nat /\ Cardinality(s) <= m + 1
      BY <1>1
    <3>3. r \in SUBSET S /\ Cardinality(r) = Cardinality(s) - 1
      BY <3>1, <3>2, FS_RemoveElement
    <3> HIDE DEF c, r
    <3>4. r \in D(m) /\ r \in D(m + 1)
      BY <3>2, <3>3, <1>1
    <3>5. g[r] = f[r]
      <4> HIDE DEF D
      <4> QED BY <2>1, <3>4
    <3> QED BY <3>5 DEF r, c
  <2>3. g = [s \in D(m + 1) |-> IF s = {} THEN b
                                  ELSE F[CHOOSE x \in s : TRUE][g[s \ {CHOOSE x \in s : TRUE}]]]
    <3>1. ASSUME NEW s \in D(m + 1)
          PROVE  (IF s = {} THEN b ELSE F[CHOOSE x \in s : TRUE][f[s \ {CHOOSE x \in s : TRUE}]])
               = (IF s = {} THEN b ELSE F[CHOOSE x \in s : TRUE][g[s \ {CHOOSE x \in s : TRUE}]])
      <4> HIDE DEF g, D
      <4> QED BY <2>2
    <3> DEFINE e(s) == IF s = {} THEN b ELSE F[CHOOSE x \in s : TRUE][g[s \ {CHOOSE x \in s : TRUE}]]
               d(s) == IF s = {} THEN b ELSE F[CHOOSE x \in s : TRUE][f[s \ {CHOOSE x \in s : TRUE}]]
    <3>2. \A s \in D(m + 1) : d(s) = e(s)
      BY <3>1
    <3>3. g = [s \in D(m + 1) |-> d(s)]
      OBVIOUS
    <3>4. g = [s \in D(m + 1) |-> e(s)]
      <4> HIDE DEF g, d, e, D
      <4> QED BY <3>2, <3>3
    <3> QED BY <3>4
  <2> HIDE DEF g, D
  <2> QED BY <2>3
<1>4. Nat \subseteq Ms
  <2>1. 0 \in Ms
    <3> HIDE DEF Has
    <3> QED BY <1>2
  <2>2. \A k \in Nat : k \in Ms => k + 1 \in Ms
    <3> HIDE DEF Has
    <3> QED BY <1>3
  <2> HIDE DEF Ms
  <2> QED BY <2>1, <2>2, AllNaturals
<1>5. Has(Cardinality(S))
  <2>1. Cardinality(S) \in Nat
    BY FS_CardinalityType
  <2> HIDE DEF Has
  <2> QED BY <1>4, <2>1
<1>6. D(Cardinality(S)) = SUBSET S
  <2>1. \A s \in SUBSET S : Cardinality(s) <= Cardinality(S)
    BY FS_Subset
  <2> QED BY <2>1
<1>7. PICK f : f = [s \in D(Cardinality(S)) |-> IF s = {} THEN b
                            ELSE F[CHOOSE x \in s : TRUE][f[s \ {CHOOSE x \in s : TRUE}]]]
  BY <1>5
<1> HIDE DEF D
<1>8. IsFold(f, F, b, S)
  BY <1>6, <1>7 DEF IsFold
<1> QED BY <1>8
==============================================================================
