--------------------------- MODULE Statistics_proofs --------------------------
(***************************************************************************)
(* The median that mat_binmedian returns is exact, that of                 *)
(* mat_median_binapprox is within half a bin, and the running sums of      *)
(* estimate_rms are those of the samples that sigma clipping leaves: for   *)
(* every number of bins and of samples, and any data whose range is small  *)
(* enough for the number of a bin to be an int.                            *)
(***************************************************************************)
EXTENDS EstimateRms, NumberLemmas

\* The arguments of the functions.
DataOK ==
  LET size == Cardinality(Samples)
  IN  size \in Nat \ {0} /\ data \in [0 .. size - 1 -> Int]

\* No bin of an interval that is not narrower than 1/MinRangeInv has a number that is not an int.
Narrow == \A s, t \in Samples : (data[s] - data[t]) * N * MinRangeInv + N <= IntMax

------------------------------------------------------------------------------
(* Integers.                                                                *)

(***************************************************************************)
(* A set of integers that is bounded below has a least member.             *)
(***************************************************************************)
LEMMA Lowest ==
  ASSUME NEW S, S \subseteq Int, S # {}, NEW b \in Int, \A x \in S : b <= x
  PROVE  \E k \in S : \A m \in S : k <= m
<1> DEFINE M == {-x : x \in S}
<1>1. M \subseteq Int /\ M # {} /\ -b \in Int /\ \A y \in M : y <= -b
  <2>1. \A x \in S : x \in Int /\ -x \in Int /\ -x <= -b
    OBVIOUS
  <2>2. \A y \in M : y \in Int /\ y <= -b
    BY <2>1
  <2>3. M # {}
    OBVIOUS
  <2> HIDE DEF M
  <2> QED BY <2>2, <2>3
<1>2. \A x \in S : -x \in M
  OBVIOUS
<1> HIDE DEF M
<1>3. PICK k \in M : \A y \in M : y <= k
  BY <1>1, Greatest
<1>4. PICK x \in S : k = -x
  BY DEF M
<1>5. \A m \in S : x <= m
  BY <1>2, <1>3, <1>4
<1> QED BY <1>5

LEMMA Half ==
  ASSUME NEW n \in Nat
  PROVE  n \div 2 \in Nat /\ n % 2 \in {0, 1} /\ n = 2 * (n \div 2) + (n % 2)
BY SMT

LEMMA HalfInside ==
  ASSUME NEW n \in Nat, n > 1
  PROVE  n \div 2 \in Int /\ 0 < n \div 2 /\ n \div 2 < n
BY SMT

LEMMA SquareBounds ==
  ASSUME NEW a \in Int, NEW b \in Nat, a * a <= b * b
  PROVE  -b <= a /\ a <= b
<1>1. ASSUME NEW x \in Nat, x > b PROVE x * x > b * b
  <2>1. PICK d \in Nat \ {0} : x = b + d
    <3>1. x - b \in Nat \ {0} /\ x = b + (x - b)
      BY <1>1
    <3> QED BY <3>1
  <2>2. (b + d) * (b + d) = b * b + 2 * (b * d) + d * d
    BY SMT
  <2>3. b * d \in Nat /\ d * d \in Nat \ {0} /\ b * b \in Nat
    BY SMT
  <2> QED BY <2>1, <2>2, <2>3
<1>2. a * a = (-a) * (-a)
  BY SMT
<1>3. a > b => FALSE
  BY <1>1
<1>4. -a > b => FALSE
  BY <1>1, <1>2
<1> QED BY <1>3, <1>4

(***************************************************************************)
(* The least and the greatest of finite sets of integers.                  *)
(***************************************************************************)
LEMMA MinIs ==
  ASSUME NEW S, NEW k \in S, S \subseteq Int, \A m \in S : k <= m
  PROVE  Min(S) = k
<1>1. Min(S) \in S /\ \A m \in S : Min(S) <= m
  <2>1. \E x \in S : \A m \in S : x <= m
    OBVIOUS
  <2>2. Min(S) = CHOOSE x \in S : \A m \in S : x <= m
    BY DEF Min
  <2> QED BY <2>1, <2>2
<1>2. PICK x : x = Min(S)
  OBVIOUS
<1>3. x \in Int /\ k \in Int /\ x <= k /\ k <= x
  BY <1>1, <1>2
<1> QED BY <1>2, <1>3

LEMMA MaxIs ==
  ASSUME NEW S, NEW k \in S, S \subseteq Int, \A m \in S : m <= k
  PROVE  Max(S) = k
<1>1. Max(S) \in S /\ \A m \in S : Max(S) >= m
  <2>1. \E x \in S : \A m \in S : x >= m
    OBVIOUS
  <2>2. Max(S) = CHOOSE x \in S : \A m \in S : x >= m
    BY DEF Max
  <2> QED BY <2>1, <2>2
<1>2. PICK x : x = Max(S)
  OBVIOUS
<1>3. x \in Int /\ k \in Int /\ x <= k /\ k <= x
  BY <1>1, <1>2
<1> QED BY <1>2, <1>3

------------------------------------------------------------------------------
(* The loops over the samples.                                              *)

LEMMA DataFacts ==
  ASSUME DataOK
  PROVE  /\ num_elems \in Nat \ {0} /\ Samples = 0 .. num_elems - 1
         /\ IsFiniteSet(Samples) /\ Cardinality(Samples) = num_elems
         /\ \A s \in Samples : data[s] \in Int
<1>1. num_elems \in Nat \ {0} /\ data \in [0 .. num_elems - 1 -> Int]
  BY DEF DataOK, num_elems
<1>2. Samples = 0 .. num_elems - 1
  BY <1>1 DEF Samples
<1>3. IsFiniteSet(Samples)
  BY <1>1, <1>2, FS_Interval
<1> QED BY <1>1, <1>2, <1>3 DEF num_elems

(***************************************************************************)
(* An unrolled loop processes every sample of its range once.              *)
(***************************************************************************)
LEMMA UnrolledParts ==
  ASSUME NEW b \in Int, NEW e \in Int, b <= e, NEW step \in Nat \ {0}
  PROVE  LET parts == Unrolled(b, e, step)
         IN  parts[1] \cap parts[2] = {} /\ parts[1] \union parts[2] = b .. e - 1
<1>1. CASE e - b > 2 * step
  <2> DEFINE q == (e - b - 1) \div step
             rest == b + step * q
  <2>1. q \in Int /\ (e - b - 1) % step \in 0 .. step - 1 /\ e - b - 1 = step * q + ((e - b - 1) % step)
    BY Division
  <2>2. PICK r \in 0 .. step - 1 : r = (e - b - 1) % step
    BY <2>1
  <2> HIDE DEF q
  <2>3. rest \in Int
    BY <2>1, SMT
  <2>4. b <= rest /\ rest <= e - 1
    <3>1. PICK z \in Int : z = step * q
      BY <2>1, SMT
    <3>2. e - b - 1 = z + r /\ rest = b + z
      BY <2>1, <2>2, <3>1
    <3> HIDE DEF rest
    <3> QED BY <1>1, <2>2, <3>1, <3>2
  <2>5. Unrolled(b, e, step) = <<b .. rest - 1, rest .. e - 1>>
    BY <1>1 DEF Unrolled, q
  <2> HIDE DEF rest
  <2> QED BY <2>3, <2>4, <2>5
<1>2. CASE ~ (e - b > 2 * step)
  BY <1>2 DEF Unrolled
<1> QED BY <1>1, <1>2

(***************************************************************************)
(* However the samples are divided into ranges, each of them is processed  *)
(* once.                                                                   *)
(***************************************************************************)
LEMMA SumOverRanges ==
  ASSUME DataOK, NEW grain \in Nat \ {0}, NEW ranges \in Ranges(grain), NEW w, NEW f,
         \A s \in Samples : f[s] \in Int,
         \A r \in ranges : w[r] = SumOf(f, r[1] .. r[2] - 1)
  PROVE  SumOf(w, ranges) = SumOf(f, Samples)
<1> DEFINE n == num_elems
<1>1. n \in Nat \ {0} /\ Samples = 0 .. n - 1 /\ IsFiniteSet(Samples)
  BY DataFacts
<1>2. ranges = {<<0, n>>} \/ (n > grain /\ ranges = {<<0, n \div 2>>, <<n \div 2, n>>})
  BY DEF Ranges
<1>3. \A r, x : IsFiniteSet({r}) /\ {} \union {r} = {r}
  BY FS_Singleton
<1>4. IsFiniteSet({}) /\ SumOf(w, {}) = 0
  BY FS_EmptySet, SumEmpty
<1> HIDE DEF n
<1>5. CASE ranges = {<<0, n>>}
  <2>1. w[<<0, n>>] = SumOf(f, Samples) /\ w[<<0, n>>] \in Int
    BY <1>1, <1>5, SumIsInt
  <2>2. SumOf(w, {} \union {<<0, n>>}) = w[<<0, n>>] + SumOf(w, {})
    BY <1>4, <2>1, SumAdd
  <2> QED BY <1>3, <1>4, <1>5, <2>1, <2>2
<1>6. CASE n > grain /\ ranges = {<<0, n \div 2>>, <<n \div 2, n>>}
  <2>1. PICK h \in Int : h = n \div 2 /\ 0 < h /\ h < n
    <3>1. n \in Nat /\ n > 1
      BY <1>1, <1>6
    <3>2. n \div 2 \in Int /\ 0 < n \div 2 /\ n \div 2 < n
      BY <3>1, HalfInside
    <3> QED BY <3>2
  <2>2. PICK a : a = <<0, h>>
    OBVIOUS
  <2>13. PICK b : b = <<h, n>>
    OBVIOUS
  <2>14. a[1] = 0 /\ a[2] = h /\ b[1] = h /\ b[2] = n /\ a # b
    BY <2>1, <2>2, <2>13
  <2>3. ranges = {b} \union {a} /\ a \notin {b}
    BY <1>6, <2>1, <2>2, <2>13, <2>14
  <2>4. /\ 0 .. h - 1 \subseteq Samples /\ h .. n - 1 \subseteq Samples
        /\ (0 .. h - 1) \cap (h .. n - 1) = {} /\ Samples = (0 .. h - 1) \union (h .. n - 1)
    BY <1>1, <2>1
  <2>15. IsFiniteSet(0 .. h - 1) /\ IsFiniteSet(h .. n - 1)
    BY <1>1, <2>4, FS_Subset
  <2>5. w[a] = SumOf(f, 0 .. h - 1) /\ w[b] = SumOf(f, h .. n - 1)
    BY <2>3, <2>14
  <2>6. w[a] \in Int /\ w[b] \in Int
    <3>1. SumOf(f, 0 .. h - 1) \in Int
      BY <2>4, <2>15, SumIsInt
    <3>2. SumOf(f, h .. n - 1) \in Int
      BY <2>4, <2>15, SumIsInt
    <3> QED BY <2>5, <3>1, <3>2
  <2>7. SumOf(w, {b}) = w[b]
    <3>1. SumOf(w, {} \union {b}) = w[b] + SumOf(w, {})
      BY <1>4, <2>6, SumAdd
    <3> QED BY <1>3, <1>4, <2>6, <3>1
  <2>8. SumOf(w, {b} \union {a}) = w[a] + SumOf(w, {b})
    BY <1>3, <2>3, <2>6, SumAdd
  <2>9. SumOf(f, (0 .. h - 1) \union (h .. n - 1)) = SumOf(f, 0 .. h - 1) + SumOf(f, h .. n - 1)
    BY <2>4, <2>15, SumUnion
  <2> QED BY <2>3, <2>4, <2>5, <2>6, <2>7, <2>8, <2>9
<1> QED BY <1>2, <1>5, <1>6

LEMMA RangesInside ==
  ASSUME DataOK, NEW grain \in Nat \ {0}, NEW ranges \in Ranges(grain), NEW r \in ranges
  PROVE  r[1] \in Int /\ r[2] \in Int /\ r[1] <= r[2] /\ r[1] .. r[2] - 1 \subseteq Samples
<1> DEFINE n == num_elems
<1>1. n \in Nat \ {0} /\ Samples = 0 .. n - 1
  BY DataFacts
<1>2. r = <<0, n>> \/ r = <<0, n \div 2>> \/ r = <<n \div 2, n>>
  BY DEF Ranges
<1>3. PICK h \in Int : h = n \div 2 /\ 0 <= h /\ h <= n
  <2>1. n \div 2 \in Nat /\ n % 2 \in {0, 1} /\ n = 2 * (n \div 2) + (n % 2)
    BY <1>1, Half
  <2> QED BY <1>1, <2>1
<1> HIDE DEF n
<1> QED BY <1>1, <1>2, <1>3

(***************************************************************************)
(* CountOver and SumOver: the size of a set of samples, and a sum over     *)
(* all samples.                                                            *)
(***************************************************************************)
LEMMA SumOverAll ==
  ASSUME DataOK, NEW grain \in Nat \ {0}, NEW ranges \in Ranges(grain), NEW step \in Nat \ {0}, NEW f,
         \A s \in Samples : f[s] \in Int
  PROVE  SumOver(ranges, step, f) = SumOf(f, Samples)
<1> DEFINE w == [r \in ranges |->
                   LET parts == Unrolled(r[1], r[2], step)
                   IN  SumOf(f, parts[1]) + SumOf(f, parts[2])]
<1>1. ASSUME NEW r \in ranges PROVE w[r] = SumOf(f, r[1] .. r[2] - 1)
  <2>1. PICK parts : parts = Unrolled(r[1], r[2], step)
    OBVIOUS
  <2>2. r[1] \in Int /\ r[2] \in Int /\ r[1] <= r[2] /\ r[1] .. r[2] - 1 \subseteq Samples
    BY RangesInside
  <2>3. parts[1] \cap parts[2] = {} /\ parts[1] \union parts[2] = r[1] .. r[2] - 1
    BY <2>1, <2>2, UnrolledParts
  <2>4. IsFiniteSet(parts[1]) /\ IsFiniteSet(parts[2])
    <3>1. IsFiniteSet(Samples)
      BY DataFacts
    <3> QED BY <2>2, <2>3, <3>1, FS_Subset
  <2>5. SumOf(f, parts[1] \union parts[2]) = SumOf(f, parts[1]) + SumOf(f, parts[2])
    BY <2>2, <2>3, <2>4, SumUnion
  <2> QED BY <2>1, <2>3, <2>5
<1>2. SumOver(ranges, step, f) = SumOf(w, ranges)
  BY DEF SumOver
<1> HIDE DEF w
<1> QED BY <1>1, <1>2, SumOverRanges

LEMMA CountOverAll ==
  ASSUME DataOK, NEW grain \in Nat \ {0}, NEW ranges \in Ranges(grain), NEW step \in Nat \ {0},
         NEW S \in SUBSET Samples
  PROVE  CountOver(ranges, step, S) = Cardinality(S)
<1> DEFINE f == [s \in Samples |-> IF s \in S THEN 1 ELSE 0]
           w == [r \in ranges |->
                   LET parts == Unrolled(r[1], r[2], step)
                   IN  Cardinality(parts[1] \cap S) + Cardinality(parts[2] \cap S)]
<1>1. \A s \in Samples : f[s] = (IF s \in S THEN 1 ELSE 0) /\ f[s] \in Int
  OBVIOUS
<1>2. IsFiniteSet(Samples)
  BY DataFacts
<1> HIDE DEF f
<1>3. ASSUME NEW r \in ranges PROVE w[r] = SumOf(f, r[1] .. r[2] - 1)
  <2>1. PICK parts : parts = Unrolled(r[1], r[2], step)
    OBVIOUS
  <2>2. r[1] \in Int /\ r[2] \in Int /\ r[1] <= r[2] /\ r[1] .. r[2] - 1 \subseteq Samples
    BY RangesInside
  <2>3. parts[1] \cap parts[2] = {} /\ parts[1] \union parts[2] = r[1] .. r[2] - 1
    BY <2>1, <2>2, UnrolledParts
  <2>4. /\ parts[1] \subseteq Samples /\ parts[2] \subseteq Samples
        /\ IsFiniteSet(parts[1]) /\ IsFiniteSet(parts[2])
    BY <1>2, <2>2, <2>3, FS_Subset
  <2>5. ASSUME NEW p, p \subseteq Samples, IsFiniteSet(p) PROVE SumOf(f, p) = Cardinality(p \cap S)
    <3>1. p \cap S \in SUBSET p /\ \A x \in p : f[x] = IF x \in p \cap S THEN 1 ELSE 0
      BY <1>1, <2>5
    <3> QED BY <2>5, <3>1, SumCounts
  <2>6. SumOf(f, parts[1] \union parts[2]) = SumOf(f, parts[1]) + SumOf(f, parts[2])
    BY <1>1, <2>2, <2>3, <2>4, SumUnion
  <2>7. w[r] = Cardinality(parts[1] \cap S) + Cardinality(parts[2] \cap S)
    BY <2>1
  <2> QED BY <2>3, <2>4, <2>5, <2>6, <2>7
<1>4. CountOver(ranges, step, S) = SumOf(w, ranges)
  BY DEF CountOver
<1> HIDE DEF w
<1>5. SumOf(w, ranges) = SumOf(f, Samples)
  BY <1>1, <1>3, SumOverRanges
<1>6. SumOf(f, Samples) = Cardinality(S)
  BY <1>1, <1>2, SumCounts
<1> QED BY <1>4, <1>5, <1>6

------------------------------------------------------------------------------
(* Ranks.                                                                   *)

Under(S, v)  == {s \in S : data[s] < v}
AtMost(S, v) == {s \in S : data[s] <= v}

\* v is the k-th smallest sample of S.
IsRanked(S, k, v) ==
  /\ v \in {data[s] : s \in S}
  /\ Cardinality(Under(S, v)) < k
  /\ k <= Cardinality(AtMost(S, v))

LEMMA Counts ==
  ASSUME NEW S, IsFiniteSet(S), NEW A, A \subseteq S
  PROVE  IsFiniteSet(A) /\ Cardinality(A) \in Nat /\ Cardinality(A) <= Cardinality(S)
BY FS_Subset, FS_CardinalityType

LEMMA Together ==
  ASSUME NEW A, IsFiniteSet(A), NEW B, IsFiniteSet(B), A \cap B = {}
  PROVE  IsFiniteSet(A \union B) /\ Cardinality(A \union B) = Cardinality(A) + Cardinality(B)
<1>1. Cardinality(A \cap B) = 0
  BY FS_EmptySet
<1>2. Cardinality(A) \in Nat /\ Cardinality(B) \in Nat
  BY FS_CardinalityType
<1>3. /\ IsFiniteSet(A \union B)
      /\ Cardinality(A \union B) = Cardinality(A) + Cardinality(B) - Cardinality(A \cap B)
  BY FS_Union
<1>4. PICK c : c = Cardinality(A \cap B)
  OBVIOUS
<1>5. c = 0 /\ Cardinality(A \union B) = Cardinality(A) + Cardinality(B) - c
  BY <1>1, <1>3, <1>4
<1> QED BY <1>2, <1>3, <1>5

LEMMA RankCounts ==
  ASSUME DataOK, NEW S, S \subseteq Samples, NEW v
  PROVE  /\ IsFiniteSet(S) /\ Cardinality(S) \in Nat
         /\ Under(S, v) \subseteq S /\ AtMost(S, v) \subseteq S
         /\ Cardinality(Under(S, v)) \in Nat /\ Cardinality(AtMost(S, v)) \in Nat
<1>1. IsFiniteSet(S) /\ Cardinality(S) \in Nat
  BY DataFacts, Counts
<1>2. Under(S, v) \subseteq S /\ AtMost(S, v) \subseteq S
  BY DEF Under, AtMost
<1> QED BY <1>1, <1>2, Counts

(***************************************************************************)
(* Two values of the same rank are equal.                                  *)
(***************************************************************************)
LEMMA RankNotBelow ==
  ASSUME DataOK, NEW S, S \subseteq Samples, NEW k \in Int, NEW v \in Int, NEW w \in Int,
         k <= Cardinality(AtMost(S, v)), Cardinality(Under(S, w)) < k
  PROVE  w <= v
<1> SUFFICES ASSUME v < w PROVE FALSE
  OBVIOUS
<1>1. AtMost(S, v) \subseteq Under(S, w)
  <2>1. \A s \in S : data[s] \in Int
    BY DataFacts
  <2> QED BY <2>1 DEF AtMost, Under
<1>2. Cardinality(AtMost(S, v)) <= Cardinality(Under(S, w))
  BY <1>1, RankCounts, Counts
<1> QED BY <1>2, RankCounts

LEMMA RankExists ==
  ASSUME DataOK, NEW S, S \subseteq Samples, NEW k \in 1 .. Cardinality(S)
  PROVE  \E v : IsRanked(S, k, v)
<1>1. /\ num_elems \in Nat \ {0} /\ Samples = 0 .. num_elems - 1
      /\ \A s \in Samples : data[s] \in Int
  BY DataFacts
<1>2. PICK lo \in Samples, hi \in Samples : \A s \in Samples : data[lo] <= data[s] /\ data[s] <= data[hi]
  <2>1. PICK n \in Nat \ {0} : n = num_elems
    BY <1>1
  <2>2. \E lo, hi \in 0 .. n - 1 : \A i \in 0 .. n - 1 : data[lo] <= data[i] /\ data[i] <= data[hi]
    BY <1>1, <2>1, Extremes
  <2> QED BY <1>1, <2>1, <2>2
<1>3. Cardinality(S) \in Nat /\ IsFiniteSet(S) /\ k \in Int /\ k >= 1 /\ k <= Cardinality(S)
  BY RankCounts
<1>4. S # {}
  BY <1>3, FS_EmptySet
<1> DEFINE values == {data[s] : s \in S}
           enough == {v \in values : k <= Cardinality(AtMost(S, v))}
<1>5. values \subseteq Int /\ values # {}
      /\ \A v \in values : data[lo] <= v /\ v <= data[hi]
  BY <1>1, <1>2, <1>4
<1>6. PICK top \in values : \A v \in values : v <= top
  <2> HIDE DEF values
  <2> QED BY <1>1, <1>5, Greatest
<1>7. top \in enough
  <2>1. AtMost(S, top) = S
    BY <1>6 DEF AtMost
  <2> QED BY <1>3, <2>1
<1>8. PICK v \in enough : \A w \in enough : v <= w
  <2>1. enough \subseteq values /\ enough # {}
    BY <1>7
  <2>2. enough \subseteq Int /\ \A w \in enough : data[lo] <= w
    BY <1>5, <2>1
  <2> HIDE DEF enough
  <2> QED BY <1>1, <2>1, <2>2, Lowest
<1>9. v \in values /\ v \in Int /\ k <= Cardinality(AtMost(S, v))
  BY <1>5, <1>8
<1>10. Cardinality(Under(S, v)) < k
  <2>1. CASE Under(S, v) = {}
    BY <1>3, <2>1, FS_EmptySet
  <2>2. CASE Under(S, v) # {}
    <3> DEFINE less == {data[s] : s \in Under(S, v)}
    <3>1. less \subseteq Int /\ less # {} /\ \A w \in less : w <= v
      <4>1. \A s \in Under(S, v) : s \in S /\ data[s] \in Int /\ data[s] <= v
        BY <1>1, <1>9 DEF Under
      <4> QED BY <2>2, <4>1
    <3>2. PICK u \in less : \A w \in less : w <= u
      <4> HIDE DEF less
      <4> QED BY <1>9, <3>1, Greatest
    <3>3. u \in values /\ u \in Int /\ u < v
      BY <1>1, <3>2 DEF Under
    <3>4. AtMost(S, u) = Under(S, v)
      <4>1. \A s \in S : data[s] \in Int /\ (data[s] < v <=> data[s] <= u)
        BY <1>1, <1>9, <3>2, <3>3 DEF Under
      <4> QED BY <4>1 DEF AtMost, Under
    <3>5. u \notin enough
      BY <1>8, <1>9, <3>3
    <3>6. ~ (k <= Cardinality(AtMost(S, u)))
      BY <3>3, <3>5
    <3> QED BY <1>3, <3>4, <3>6, RankCounts
  <2> QED BY <2>1, <2>2
<1> QED BY <1>9, <1>10 DEF IsRanked

LEMMA RankedIs ==
  ASSUME DataOK, NEW S, S \subseteq Samples, NEW k \in 1 .. Cardinality(S)
  PROVE  /\ IsRanked(S, k, Ranked(S, k)) /\ Ranked(S, k) \in Int
         /\ \A v : IsRanked(S, k, v) => v = Ranked(S, k)
<1>1. \A s \in S : data[s] \in Int
  BY DataFacts
<1>2. Cardinality(S) \in Nat /\ k \in Int
  BY RankCounts
<1>3. Ranked(S, k) = CHOOSE v \in {data[s] : s \in S} :
                       Cardinality(Under(S, v)) < k /\ k <= Cardinality(AtMost(S, v))
  BY DEF Ranked, Under, AtMost
<1>4. IsRanked(S, k, Ranked(S, k))
  BY <1>3, RankExists DEF IsRanked
<1>5. \A v : IsRanked(S, k, v) => v \in Int
  BY <1>1 DEF IsRanked
<1>6. ASSUME NEW v, IsRanked(S, k, v) PROVE v = Ranked(S, k)
  <2>1. PICK w : w = Ranked(S, k)
    OBVIOUS
  <2>2. v \in Int /\ w \in Int
    BY <1>4, <1>5, <1>6, <2>1
  <2>3. v <= w /\ w <= v
    BY <1>2, <1>4, <1>6, <2>1, <2>2, RankNotBelow DEF IsRanked
  <2> QED BY <2>1, <2>2, <2>3
<1> QED BY <1>4, <1>5, <1>6

(***************************************************************************)
(* The samples of P, which follow those of L and precede all others, keep  *)
(* their order: a rank in P is one that is larger by the size of L.        *)
(***************************************************************************)
LEMMA RankedPart ==
  ASSUME DataOK, NEW S, S \subseteq Samples, NEW P, P \subseteq S, NEW L, L \subseteq S,
         L \cap P = {},
         \A s \in L, t \in P : data[s] < data[t],
         \A s \in S \ (L \union P), t \in P : data[t] < data[s],
         NEW k \in 1 .. Cardinality(P)
  PROVE  /\ Cardinality(L) + k \in 1 .. Cardinality(S)
         /\ Ranked(S, Cardinality(L) + k) = Ranked(P, k)
<1>1. \A s \in S : data[s] \in Int
  BY DataFacts
<1>2. /\ IsFiniteSet(S) /\ IsFiniteSet(P) /\ IsFiniteSet(L)
      /\ Cardinality(S) \in Nat /\ Cardinality(P) \in Nat /\ Cardinality(L) \in Nat
  BY RankCounts
<1>3. \A A, B : IsFiniteSet(A) /\ IsFiniteSet(B) /\ A \cap B = {}
                  => Cardinality(A \union B) = Cardinality(A) + Cardinality(B)
  BY Together
<1>4. Cardinality(L) + k \in 1 .. Cardinality(S)
  <2>1. Cardinality(L \union P) <= Cardinality(S)
    BY <1>2, Counts
  <2>2. Cardinality(L \union P) = Cardinality(L) + Cardinality(P)
    BY <1>2, <1>3
  <2> QED BY <1>2, <2>1, <2>2
<1>5. PICK v : v = Ranked(P, k)
  OBVIOUS
<1>6. IsRanked(P, k, v) /\ v \in Int
  BY <1>5, RankedIs
<1>7. PICK t \in P : v = data[t]
  BY <1>6 DEF IsRanked
<1>8. Under(S, v) = L \union Under(P, v) /\ L \cap Under(P, v) = {}
  <2>1. \A s \in L : data[s] < v
    BY <1>7
  <2>2. \A s \in S : data[s] < v => s \in L \union P
    <3> SUFFICES ASSUME NEW s \in S, data[s] < v, s \notin L \union P PROVE FALSE
      OBVIOUS
    <3>1. v < data[s]
      BY <1>7
    <3> QED BY <1>1, <1>6, <3>1
  <2> QED BY <2>1, <2>2 DEF Under
<1>9. AtMost(S, v) = L \union AtMost(P, v) /\ L \cap AtMost(P, v) = {}
  <2>1. \A s \in L : data[s] <= v
    <3> SUFFICES ASSUME NEW s \in L PROVE data[s] <= v
      OBVIOUS
    <3>1. data[s] < v
      BY <1>7
    <3> QED BY <1>1, <1>6, <3>1
  <2>2. \A s \in S : data[s] <= v => s \in L \union P
    <3> SUFFICES ASSUME NEW s \in S, data[s] <= v, s \notin L \union P PROVE FALSE
      OBVIOUS
    <3>1. v < data[s]
      BY <1>7
    <3> QED BY <1>1, <1>6, <3>1
  <2> QED BY <2>1, <2>2 DEF AtMost
<1>10. /\ Cardinality(Under(S, v)) = Cardinality(L) + Cardinality(Under(P, v))
       /\ Cardinality(AtMost(S, v)) = Cardinality(L) + Cardinality(AtMost(P, v))
  <2>1. IsFiniteSet(Under(P, v)) /\ IsFiniteSet(AtMost(P, v))
    BY <1>2, RankCounts, Counts
  <2> QED BY <1>2, <1>3, <1>8, <1>9, <2>1
<1>11. IsRanked(S, Cardinality(L) + k, v)
  <2>1. v \in {data[s] : s \in S}
    BY <1>7
  <2>2. Cardinality(Under(P, v)) \in Nat /\ Cardinality(AtMost(P, v)) \in Nat
    BY RankCounts
  <2>3. Cardinality(Under(P, v)) < k /\ k <= Cardinality(AtMost(P, v))
    BY <1>6 DEF IsRanked
  <2> QED BY <1>2, <1>10, <2>1, <2>2, <2>3 DEF IsRanked
<1> QED BY <1>4, <1>5, <1>11, RankedIs

(***************************************************************************)
(* Nothing lies between a sample and the next.                             *)
(***************************************************************************)
LEMMA RanksAdjacent ==
  ASSUME DataOK, NEW S, S \subseteq Samples, NEW k \in Int,
         k \in 1 .. Cardinality(S), k + 1 \in 1 .. Cardinality(S)
  PROVE  /\ Ranked(S, k) <= Ranked(S, k + 1)
         /\ \A s \in S : data[s] <= Ranked(S, k) \/ Ranked(S, k + 1) <= data[s]
<1>1. \A s \in S : data[s] \in Int
  BY DataFacts
<1>2. PICK v, w : v = Ranked(S, k) /\ w = Ranked(S, k + 1)
  OBVIOUS
<1>3. IsRanked(S, k, v) /\ v \in Int
  BY <1>2, RankedIs
<1>4. PICK m \in Int : m = k + 1
  OBVIOUS
<1>5. IsRanked(S, m, w) /\ w \in Int
  BY <1>2, <1>4, RankedIs
<1>6. /\ Cardinality(Under(S, v)) < k /\ k <= Cardinality(AtMost(S, v))
      /\ Cardinality(Under(S, w)) < m /\ m <= Cardinality(AtMost(S, w))
  BY <1>3, <1>5 DEF IsRanked
<1>7. v <= w
  <2>1. k <= Cardinality(AtMost(S, w))
    BY <1>4, <1>6, RankCounts
  <2> QED BY <1>3, <1>5, <1>6, <2>1, RankNotBelow
<1>8. ASSUME NEW s \in S, v < data[s], data[s] < w PROVE FALSE
  <2>1. AtMost(S, v) \union {s} \subseteq Under(S, w)
    BY <1>1, <1>3, <1>5, <1>8 DEF AtMost, Under
  <2>2. s \notin AtMost(S, v)
    BY <1>1, <1>3, <1>8 DEF AtMost
  <2>3. IsFiniteSet(AtMost(S, v)) /\ IsFiniteSet(Under(S, w))
    BY RankCounts, Counts
  <2>4. Cardinality(AtMost(S, v) \union {s}) = Cardinality(AtMost(S, v)) + 1
    BY <2>2, <2>3, FS_AddElement
  <2>5. Cardinality(AtMost(S, v) \union {s}) <= Cardinality(Under(S, w))
    BY <2>1, <2>3, Counts
  <2> QED BY <1>4, <1>6, <2>4, <2>5, RankCounts
<1> QED BY <1>1, <1>2, <1>3, <1>5, <1>7, <1>8

------------------------------------------------------------------------------
(* Bins.                                                                    *)

Intervals == [l : Int, w : Nat \ {0}, den : Nat \ {0}]

\* v is between leftend and rightend.
Between(v, iv) == iv.l <= v * iv.den /\ v * iv.den <= iv.l + iv.w

\* The interval is not narrower than BINMEDIAN_MIN_RANGE.
Wide(iv) == iv.den <= iv.w * MinRangeInv

\* The bins of the samples are in the order of the samples.
Ordered(iv) ==
  \A s, t \in Samples : /\ Bin(data[s], iv) \in Int
                        /\ data[s] <= data[t] => Bin(data[s], iv) <= Bin(data[t], iv)

(***************************************************************************)
(* int(x / y), where the quotient is an int.                               *)
(***************************************************************************)
LEMMA TruncatedIs ==
  ASSUME NEW x \in Int, NEW y \in Nat \ {0}, -(IntMax * y) <= x, x <= IntMax * y
  PROVE  LET q == Truncated(x, y)
         IN  /\ q \in Int
             /\ x >= 0 => q >= 0 /\ q * y <= x /\ x < (q + 1) * y
             /\ x < 0 => q <= 0 /\ x <= q * y /\ (q - 1) * y < x
<1>1. IntMax \in Nat
  BY BinMedianAssumption
<1>2. ASSUME NEW p \in Int, 0 <= p, p <= IntMax * y
      PROVE  /\ p \div y \in 0 .. IntMax
             /\ (p \div y) * y <= p /\ p < (p \div y + 1) * y
  <2>1. p \div y \in Int /\ p % y \in 0 .. y - 1 /\ p = y * (p \div y) + (p % y)
    BY Division
  <2>2. PICK d \in Int : d = p \div y
    BY <2>1
  <2>3. PICK r \in 0 .. y - 1 : r = p % y
    BY <2>1
  <2>4. p = y * d + r
    BY <2>1, <2>2, <2>3
  <2>5. d * y <= p /\ p < (d + 1) * y
    BY <2>4, SMT
  <2>6. d >= 0
    <3>1. ASSUME d <= -1 PROVE FALSE
      <4>1. y * d <= y * (-1)
        BY <3>1, SMT
      <4> QED BY <1>2, <2>4, <4>1
    <3> QED BY <3>1
  <2>7. d <= IntMax
    <3>1. ASSUME d >= IntMax + 1 PROVE FALSE
      <4>1. y * d >= y * (IntMax + 1)
        BY <1>1, <3>1, SMT
      <4>2. y * (IntMax + 1) = IntMax * y + y
        BY <1>1, SMT
      <4>3. IntMax * y \in Int /\ y * d \in Int
        BY <1>1, SMT
      <4> QED BY <1>2, <2>4, <4>1, <4>2, <4>3
    <3> QED BY <1>1, <3>1
  <2> QED BY <1>1, <2>2, <2>5, <2>6, <2>7
<1>3. CASE x >= 0
  <2>1. PICK d : d = x \div y
    OBVIOUS
  <2>2. d \in 0 .. IntMax /\ d * y <= x /\ x < (d + 1) * y
    BY <1>2, <1>3, <2>1
  <2>3. Truncated(x, y) = d
    BY <1>1, <1>3, <2>1, <2>2 DEF Truncated
  <2> QED BY <1>3, <2>2, <2>3
<1>4. CASE x < 0
  <2>1. PICK p \in Int : p = -x
    OBVIOUS
  <2>2. PICK d : d = p \div y
    OBVIOUS
  <2>3. 0 <= p /\ p <= IntMax * y
    <3>1. IntMax * y \in Int
      BY <1>1, SMT
    <3> QED BY <1>4, <2>1, <3>1
  <2>4. d \in 0 .. IntMax /\ d * y <= p /\ p < (d + 1) * y
    BY <1>2, <2>2, <2>3
  <2>5. Truncated(x, y) = -d
    <3>1. (-x) \div y = d
      BY <2>1, <2>2
    <3>2. -d <= IntMax /\ -d >= -IntMax - 1
      BY <1>1, <2>4
    <3> QED BY <1>1, <1>4, <2>4, <3>1, <3>2 DEF Truncated
  <2>6. PICK q \in Int : q = -d
    BY <2>4
  <2>7. q * y = -(d * y) /\ (q - 1) * y = -((d + 1) * y) /\ d * y \in Int /\ (d + 1) * y \in Int
    BY <2>4, <2>6, SMT
  <2>8. q <= 0 /\ x <= q * y /\ (q - 1) * y < x
    BY <2>1, <2>4, <2>6, <2>7
  <2> QED BY <1>4, <2>5, <2>6, <2>8
<1> QED BY <1>3, <1>4

LEMMA TruncatedOrder ==
  ASSUME NEW y \in Nat \ {0},
         NEW x \in Int, -(IntMax * y) <= x, x <= IntMax * y,
         NEW z \in Int, -(IntMax * y) <= z, z <= IntMax * y, x <= z
  PROVE  Truncated(x, y) <= Truncated(z, y)
<1>1. PICK q, r : q = Truncated(x, y) /\ r = Truncated(z, y)
  OBVIOUS
<1>2. /\ q \in Int
      /\ x >= 0 => q >= 0 /\ q * y <= x /\ x < (q + 1) * y
      /\ x < 0 => q <= 0 /\ x <= q * y /\ (q - 1) * y < x
  BY <1>1, TruncatedIs
<1>3. /\ r \in Int
      /\ z >= 0 => r >= 0 /\ r * y <= z /\ z < (r + 1) * y
      /\ z < 0 => r <= 0 /\ z <= r * y /\ (r - 1) * y < z
  BY <1>1, TruncatedIs
<1>4. ASSUME NEW a \in Int, NEW b \in Int, a * y < b * y PROVE a < b
  <2> SUFFICES ASSUME b <= a PROVE FALSE
    OBVIOUS
  <2>1. b * y <= a * y /\ a * y \in Int /\ b * y \in Int
    BY SMT
  <2> QED BY <1>4, <2>1
<1>5. q * y \in Int /\ (q - 1) * y \in Int /\ r * y \in Int /\ (r + 1) * y \in Int
  BY <1>2, <1>3, SMT
<1>6. CASE x >= 0
  <2>1. q * y < (r + 1) * y
    BY <1>2, <1>3, <1>5, <1>6
  <2> QED BY <1>1, <1>2, <1>3, <1>4, <2>1
<1>7. CASE x < 0 /\ z >= 0
  BY <1>1, <1>2, <1>3, <1>7
<1>8. CASE z < 0
  <2>1. (q - 1) * y < r * y
    BY <1>2, <1>3, <1>5, <1>8
  <2> QED BY <1>1, <1>2, <1>3, <1>4, <2>1
<1> QED BY <1>6, <1>7, <1>8

(***************************************************************************)
(* The samples of a narrow range have bins whose numbers are ints, in any  *)
(* wide interval that one of them is in.                                   *)
(***************************************************************************)
LEMMA BinsOrdered ==
  ASSUME DataOK, Narrow, NEW iv \in Intervals, Wide(iv), NEW t \in Samples, Between(data[t], iv)
  PROVE  Ordered(iv)
<1>1. \A s \in Samples : data[s] \in Int
  BY DataFacts
<1>2. N \in Nat \ {0} /\ MinRangeInv \in Nat \ {0} /\ IntMax \in Nat
  BY BinMedianAssumption
<1>3. PICK l \in Int, w \in Nat \ {0}, d \in Nat \ {0} : l = iv.l /\ w = iv.w /\ d = iv.den
  BY DEF Intervals
<1>4. PICK m \in Nat \ {0} : m = MinRangeInv
  BY <1>2
<1> DEFINE x(s) == (data[s] * d - l) * N
<1>5. ASSUME NEW s \in Samples
      PROVE  x(s) \in Int /\ -(IntMax * w) <= x(s) /\ x(s) <= IntMax * w
  <2>1. PICK z \in 0 .. w : z = data[t] * d - l
    <3>1. data[t] * d \in Int
      BY <1>1, SMT
    <3>2. l <= data[t] * d /\ data[t] * d <= l + w
      BY <1>3 DEF Between
    <3> QED BY <3>1, <3>2
  <2>2. PICK D \in Int : D = data[s] - data[t]
    BY <1>1
  <2>3. x(s) = N * (D * d + z)
    <3>1. PICK a \in Int, b \in Int : a = data[s] /\ b = data[t]
      BY <1>1
    <3>2. D = a - b /\ z = b * d - l
      BY <2>1, <2>2, <3>1
    <3>3. (a * d - l) * N = N * (D * d + z)
      BY <1>2, <3>2, SMT
    <3> QED BY <3>1, <3>3
  <2>4. D * N * m + N <= IntMax /\ (-D) * N * m + N <= IntMax /\ N <= IntMax
    <3>1. data[t] - data[s] = -D /\ data[t] - data[t] = 0
      BY <1>1, <2>2
    <3>2. D * N * m + N <= IntMax /\ (-D) * N * m + N <= IntMax
      BY <1>4, <2>2, <3>1 DEF Narrow
    <3>3. (data[t] - data[t]) * N * MinRangeInv + N <= IntMax
      BY DEF Narrow
    <3>4. (data[t] - data[t]) * N * MinRangeInv = 0
      BY <1>2, <3>1, SMT
    <3> QED BY <1>2, <3>2, <3>3, <3>4
  <2>5. d <= w * m
    BY <1>3, <1>4 DEF Wide
  <2> HIDE DEF x
  <2>6. ASSUME NEW e \in Nat, e * N * m + N <= IntMax PROVE N * (e * d + w) <= IntMax * w
    <3>1. PICK g \in Nat : g = e * N
      BY <1>2, SMT
    <3>2. g * d <= g * (w * m)
      BY <2>5, SMT
    <3>3. (g * m + N) * w <= IntMax * w
      BY <1>2, <2>6, <3>1, SMT
    <3>4. (g * m + N) * w = g * (w * m) + N * w /\ N * (e * d + w) = g * d + N * w
      BY <1>2, <3>1, SMT
    <3>5. g * d \in Int /\ g * (w * m) \in Int /\ N * w \in Int /\ IntMax * w \in Int
      BY <1>2, SMT
    <3> QED BY <3>2, <3>3, <3>4, <3>5
  <2>7. N * w <= IntMax * w /\ N * w \in Nat /\ IntMax * w \in Nat
    BY <1>2, <2>4, SMT
  <2>8. N * (D * d + z) \in Int
    BY <1>2, SMT
  <2>9. CASE D >= 0
    <3>1. N * (D * d + w) <= IntMax * w
      BY <2>4, <2>6, <2>9
    <3>2. 0 <= N * (D * d + z) /\ N * (D * d + z) <= N * (D * d + w) /\ N * (D * d + w) \in Int
      BY <1>2, <2>9, SMT
    <3> QED BY <2>3, <2>7, <2>8, <3>1, <3>2
  <2>10. CASE D < 0
    <3>1. PICK e \in Nat : e = -D
      BY <2>10
    <3>2. N * (e * d + w) <= IntMax * w
      BY <2>4, <2>6, <3>1
    <3>3. PICK ed \in Nat : ed = e * d
      BY SMT
    <3>4. D * d = -ed
      BY <3>1, <3>3, SMT
    <3>5. N * (D * d + z) = N * z - N * ed /\ N * (e * d + w) = N * ed + N * w
      BY <1>2, <3>3, <3>4, SMT
    <3>6. N * z \in Nat /\ N * z <= N * w /\ N * ed \in Nat /\ N * w \in Nat
      BY <1>2, SMT
    <3> QED BY <2>3, <2>7, <2>8, <3>2, <3>5, <3>6
  <2> QED BY <2>9, <2>10
<1>6. ASSUME NEW s \in Samples PROVE Bin(data[s], iv) = Truncated(x(s), w)
  BY <1>3 DEF Bin
<1>7. ASSUME NEW s \in Samples, NEW u \in Samples, data[s] <= data[u] PROVE x(s) <= x(u)
  <2>1. PICK a \in Int, b \in Int : a = data[s] /\ b = data[u] /\ a <= b
    BY <1>1, <1>7
  <2>2. (a * d - l) * N <= (b * d - l) * N
    <3>1. a * d <= b * d /\ a * d \in Int /\ b * d \in Int
      BY <2>1, SMT
    <3>2. PICK p \in Int, q \in Int : p = a * d - l /\ q = b * d - l /\ p <= q
      BY <3>1
    <3>3. p * N <= q * N
      BY <1>2, <3>2, SMT
    <3> QED BY <3>2, <3>3
  <2> QED BY <2>1, <2>2
<1> HIDE DEF x
<1>8. ASSUME NEW s \in Samples PROVE Bin(data[s], iv) \in Int
  BY <1>5, <1>6, TruncatedIs
<1>9. ASSUME NEW s \in Samples, NEW u \in Samples, data[s] <= data[u]
      PROVE  Bin(data[s], iv) <= Bin(data[u], iv)
  BY <1>5, <1>6, <1>7, <1>9, TruncatedOrder
<1> QED BY <1>8, <1>9 DEF Ordered

(***************************************************************************)
(* A value inside the interval is in one of its bins: bin b goes from      *)
(* l + b * w / N to l + (b + 1) * w / N.                                   *)
(***************************************************************************)
LEMMA BinInside ==
  ASSUME NEW iv \in Intervals, NEW v \in Int, Between(v, iv), N <= IntMax
  PROVE  LET b == Bin(v, iv)
         IN  /\ b \in 0 .. N
             /\ b * iv.w <= (v * iv.den - iv.l) * N
             /\ (v * iv.den - iv.l) * N < (b + 1) * iv.w
<1>1. N \in Nat \ {0} /\ IntMax \in Nat
  BY BinMedianAssumption
<1>2. PICK l \in Int, w \in Nat \ {0}, d \in Nat \ {0} : l = iv.l /\ w = iv.w /\ d = iv.den
  BY DEF Intervals
<1>3. PICK z \in 0 .. w : z = v * d - l
  <2>1. v * d \in Int
    BY SMT
  <2> QED BY <1>2, <2>1 DEF Between
<1>4. z * N \in Int /\ 0 <= z * N /\ z * N <= N * w /\ N * w <= IntMax * w /\ IntMax * w \in Nat /\ N * w \in Nat
  BY <1>1, SMT
<1>5. PICK b : b = Truncated(z * N, w)
  OBVIOUS
<1>6. b \in Int /\ b >= 0 /\ b * w <= z * N /\ z * N < (b + 1) * w
  <2>1. -(IntMax * w) <= z * N /\ z * N <= IntMax * w /\ z * N >= 0
    BY <1>4
  <2> QED BY <1>4, <1>5, <2>1, TruncatedIs
<1>7. b <= N
  <2> SUFFICES ASSUME b >= N + 1 PROVE FALSE
    BY <1>1, <1>6
  <2>1. b * w >= (N + 1) * w
    BY <1>1, <1>6, SMT
  <2>2. (N + 1) * w = N * w + w /\ b * w \in Int
    BY <1>1, <1>6, SMT
  <2> QED BY <1>4, <1>6, <2>1, <2>2
<1>8. Bin(v, iv) = b /\ (v * iv.den - iv.l) * N = z * N
  BY <1>2, <1>3, <1>5 DEF Bin
<1> QED BY <1>1, <1>2, <1>6, <1>7, <1>8

------------------------------------------------------------------------------
(* Counts.                                                                  *)

\* The samples in the bins up to i, and left of them.
BinnedUpto(i) == {s \in Samples : Bin(data[s], interval) <= i}
BinnedAt(i)   == {s \in Samples : Bin(data[s], interval) = i}

\* What BinData computes.
Binned ==
  /\ bottomcount = Cardinality({s \in Samples : Bin(data[s], interval) < 0})
  /\ bincounts = [i \in 0 .. N |-> Cardinality(BinnedAt(i))]

\* The members of S that b takes to i, or into T.
Fibre(b, S, i) == {s \in S : b[s] = i}
Into(b, S, T)  == {s \in S : b[s] \in T}

(***************************************************************************)
(* The sum of the sizes of the bins of T is the number of samples in them. *)
(***************************************************************************)
LEMMA BinsTogether ==
  ASSUME NEW S, IsFiniteSet(S), NEW T, IsFiniteSet(T), NEW b, NEW c,
         \A i \in T : c[i] = Cardinality(Fibre(b, S, i))
  PROVE  SumOf(c, T) = Cardinality(Into(b, S, T))
<1> USE DEF Fibre, Into
<1> DEFINE G == {t \in SUBSET T : SumOf(c, t) = Cardinality({s \in S : b[s] \in t})}
<1>1. ASSUME NEW t \in SUBSET T, \A u \in SUBSET t : u # t => u \in G
      PROVE  t \in G
  <2>1. CASE t = {}
    <3>1. {s \in S : b[s] \in t} = {}
      BY <2>1
    <3>2. SumOf(c, t) = 0
      BY <2>1, SumEmpty
    <3> QED BY <3>1, <3>2, FS_EmptySet
  <2>2. CASE t # {}
    <3>1. PICK y \in t : TRUE
      BY <2>2
    <3>2. IsFiniteSet(t)
      BY FS_Subset
    <3>3. \A i \in t : c[i] \in Int
      <4> SUFFICES ASSUME NEW i \in t PROVE c[i] \in Int
        OBVIOUS
      <4>1. PICK A : A = {s \in S : b[s] = i}
        OBVIOUS
      <4>2. IsFiniteSet(A) /\ Cardinality(A) \in Nat
        BY <4>1, Counts
      <4>3. c[i] = Cardinality(A)
        BY <4>1
      <4> QED BY <4>2, <4>3
    <3>4. SumOf(c, t) = c[y] + SumOf(c, t \ {y})
      BY <3>1, <3>2, <3>3, SumRemove
    <3>5. t \ {y} \in SUBSET t /\ t \ {y} # t
      BY <3>1
    <3>6. SumOf(c, t \ {y}) = Cardinality({s \in S : b[s] \in t \ {y}})
      BY <1>1, <3>5
    <3> DEFINE A == {s \in S : b[s] = y}
               B == {s \in S : b[s] \in t \ {y}}
    <3>7. A \cap B = {} /\ {s \in S : b[s] \in t} = A \union B /\ A \subseteq S /\ B \subseteq S
      BY <3>1
    <3>8. IsFiniteSet(A) /\ IsFiniteSet(B)
      BY <3>7, FS_Subset
    <3>9. c[y] = Cardinality(A)
      BY <3>1
    <3>10. SumOf(c, t \ {y}) = Cardinality(B)
      BY <3>6
    <3> HIDE DEF A, B
    <3>11. Cardinality(A \union B) = Cardinality(A) + Cardinality(B)
      BY <3>7, <3>8, Together
    <3> QED BY <3>4, <3>7, <3>9, <3>10, <3>11
  <2> QED BY <2>1, <2>2
<1>2. (SUBSET T) \subseteq G
  <2> HIDE DEF G
  <2> QED BY <1>1, SubsetInduction
<1>3. T \in G
  BY <1>2
<1> QED BY <1>3

(***************************************************************************)
(* Upto(i) is the number of samples in the bins up to i.                   *)
(***************************************************************************)
LEMMA CountsOfBins ==
  ASSUME DataOK, Binned, Ordered(interval)
  PROVE  /\ \A i \in 0 .. N :
              /\ bincounts[i] = Cardinality(BinnedAt(i)) /\ bincounts[i] \in Nat
              /\ Upto(i) = Cardinality(BinnedUpto(i)) /\ Upto(i) \in Nat
              /\ Upto(i) - bincounts[i] = Cardinality(BinnedUpto(i - 1))
         /\ \A i, j \in 0 .. N :
              SumOf(bincounts, i .. j) = Cardinality({s \in Samples : Bin(data[s], interval) \in i .. j})
<1>1. IsFiniteSet(Samples)
  BY DataFacts
<1>2. N \in Nat
  BY BinMedianAssumption
<1> DEFINE b == [s \in Samples |-> Bin(data[s], interval)]
<1>3. \A s \in Samples : b[s] = Bin(data[s], interval) /\ b[s] \in Int
  BY DEF Ordered
<1> HIDE DEF b
<1>4. \A i \in 0 .. N : bincounts[i] = Cardinality(BinnedAt(i)) /\ bincounts[i] \in Nat
  <2>1. \A i \in 0 .. N : bincounts[i] = Cardinality(BinnedAt(i))
    BY DEF Binned
  <2>2. \A i \in 0 .. N : IsFiniteSet(BinnedAt(i))
    BY <1>1, FS_Subset DEF BinnedAt
  <2> QED BY <2>1, <2>2, FS_CardinalityType
<1>5. ASSUME NEW i \in Int, NEW j \in Int, 0 <= i, j <= N
      PROVE  SumOf(bincounts, i .. j) = Cardinality({s \in Samples : Bin(data[s], interval) \in i .. j})
  <2>1. IsFiniteSet(i .. j) /\ \A k \in i .. j : k \in 0 .. N
    BY <1>2, <1>5, FS_Interval
  <2>2. \A k \in i .. j : bincounts[k] = Cardinality({s \in Samples : b[s] = k})
    BY <1>3, <1>4, <2>1 DEF BinnedAt
  <2>3. SumOf(bincounts, i .. j) = Cardinality({s \in Samples : b[s] \in i .. j})
    <3>1. PICK T : T = i .. j
      OBVIOUS
    <3>2. IsFiniteSet(T) /\ \A k \in T : bincounts[k] = Cardinality(Fibre(b, Samples, k))
      BY <2>1, <2>2, <3>1 DEF Fibre
    <3>3. SumOf(bincounts, T) = Cardinality(Into(b, Samples, T))
      BY <1>1, <3>2, BinsTogether
    <3> QED BY <3>1, <3>3 DEF Into
  <2>4. {s \in Samples : b[s] \in i .. j} = {s \in Samples : Bin(data[s], interval) \in i .. j}
    BY <1>3
  <2> QED BY <2>3, <2>4
<1> DEFINE L == {s \in Samples : Bin(data[s], interval) < 0}
           M(j) == {s \in Samples : Bin(data[s], interval) \in 0 .. j}
<1>6. ASSUME NEW i \in 0 .. N PROVE Upto(i) = Cardinality(BinnedUpto(i)) /\ Upto(i) \in Nat
  <2>1. SumOf(bincounts, 0 .. i) = Cardinality(M(i))
    BY <1>2, <1>5
  <2>2. L \subseteq Samples /\ M(i) \subseteq Samples /\ L \cap M(i) = {} /\ BinnedUpto(i) = L \union M(i)
    BY <1>3 DEF BinnedUpto
  <2>3. bottomcount = Cardinality(L)
    BY DEF Binned
  <2> HIDE DEF L, M
  <2>4. IsFiniteSet(L) /\ IsFiniteSet(M(i)) /\ IsFiniteSet(BinnedUpto(i))
    BY <1>1, <2>2, Counts, Together
  <2>5. Cardinality(BinnedUpto(i)) = Cardinality(L) + Cardinality(M(i))
    BY <2>2, <2>4, Together
  <2>6. Upto(i) = Cardinality(L) + Cardinality(M(i))
    BY <2>1, <2>3 DEF Upto
  <2>7. Cardinality(BinnedUpto(i)) \in Nat
    BY <2>4, FS_CardinalityType
  <2> QED BY <2>5, <2>6, <2>7
<1>7. ASSUME NEW i \in 0 .. N PROVE Upto(i) - bincounts[i] = Cardinality(BinnedUpto(i - 1))
  <2>1. BinnedUpto(i) = BinnedUpto(i - 1) \union BinnedAt(i)
    BY <1>3 DEF BinnedUpto, BinnedAt
  <2>2. BinnedUpto(i - 1) \cap BinnedAt(i) = {}
    BY <1>3 DEF BinnedUpto, BinnedAt
  <2>3. IsFiniteSet(BinnedUpto(i - 1)) /\ IsFiniteSet(BinnedAt(i))
    BY <1>1, FS_Subset DEF BinnedUpto, BinnedAt
  <2>4. Cardinality(BinnedUpto(i)) = Cardinality(BinnedUpto(i - 1)) + Cardinality(BinnedAt(i))
    BY <2>1, <2>2, <2>3, Together
  <2>5. Cardinality(BinnedUpto(i - 1)) \in Nat
    BY <2>3, FS_CardinalityType
  <2> QED BY <1>4, <1>6, <2>4, <2>5
<1>8. \A i, j \in 0 .. N :
        SumOf(bincounts, i .. j) = Cardinality({s \in Samples : Bin(data[s], interval) \in i .. j})
  BY <1>2, <1>5
<1> QED BY <1>4, <1>6, <1>7, <1>8

(***************************************************************************)
(* The first bin at which the count reaches a rank is the bin of the       *)
(* sample of that rank.                                                    *)
(***************************************************************************)
LEMMA BinReached ==
  ASSUME DataOK, Binned, Ordered(interval), NEW k \in 1 .. num_elems, NEW b \in 0 .. N,
         b = Bin(Ranked(Samples, k), interval)
  PROVE  /\ Reaching(k) # {} /\ Min(Reaching(k)) = b
         /\ Cardinality(BinnedUpto(b - 1)) < k /\ k <= Cardinality(BinnedUpto(b))
<1>1. IsFiniteSet(Samples) /\ Cardinality(Samples) = num_elems /\ num_elems \in Nat
  BY DataFacts
<1>2. PICK v : v = Ranked(Samples, k)
  OBVIOUS
<1>3. IsRanked(Samples, k, v) /\ k \in Int
  BY <1>1, <1>2, RankedIs
<1>4. PICK t \in Samples : v = data[t]
  BY <1>3 DEF IsRanked
<1>5. Bin(data[t], interval) = b
  BY <1>2, <1>4
<1>6. \A s \in Samples : data[s] \in Int /\ Bin(data[s], interval) \in Int
  BY DataFacts DEF Ordered
<1>7. ASSUME NEW i \in Int, i < b PROVE Cardinality(BinnedUpto(i)) < k
  <2>1. BinnedUpto(i) \subseteq Under(Samples, v)
    <3> SUFFICES ASSUME NEW s \in Samples, Bin(data[s], interval) <= i PROVE data[s] < v
      BY DEF BinnedUpto, Under
    <3>1. ~ (data[t] <= data[s])
      <4>1. data[t] <= data[s] => Bin(data[t], interval) <= Bin(data[s], interval)
        BY DEF Ordered
      <4> QED BY <1>5, <1>6, <1>7, <4>1
    <3> QED BY <1>4, <1>6, <3>1
  <2>2. IsFiniteSet(Under(Samples, v)) /\ Cardinality(Under(Samples, v)) \in Nat
    BY RankCounts, <1>1, Counts
  <2>3. Cardinality(BinnedUpto(i)) \in Nat /\ Cardinality(BinnedUpto(i)) <= Cardinality(Under(Samples, v))
    BY <2>1, <2>2, Counts
  <2> QED BY <1>3, <2>2, <2>3 DEF IsRanked
<1>8. k <= Cardinality(BinnedUpto(b)) /\ Cardinality(BinnedUpto(b)) \in Nat
  <2>1. AtMost(Samples, v) \subseteq BinnedUpto(b)
    <3> SUFFICES ASSUME NEW s \in Samples, data[s] <= v PROVE Bin(data[s], interval) <= b
      BY DEF BinnedUpto, AtMost
    <3> QED BY <1>4, <1>5 DEF Ordered
  <2>2. IsFiniteSet(BinnedUpto(b)) /\ Cardinality(BinnedUpto(b)) \in Nat
    BY <1>1, Counts DEF BinnedUpto
  <2>3. Cardinality(AtMost(Samples, v)) \in Nat /\ Cardinality(AtMost(Samples, v)) <= Cardinality(BinnedUpto(b))
    BY <2>1, <2>2, Counts
  <2> QED BY <1>3, <2>2, <2>3 DEF IsRanked
<1>9. b \in Reaching(k)
  BY <1>8, CountsOfBins DEF Reaching
<1>10. \A i \in Reaching(k) : i \in 0 .. N /\ b <= i
  <2> SUFFICES ASSUME NEW i \in 0 .. N, Upto(i) >= k, i < b PROVE FALSE
    BY DEF Reaching
  <2>1. Cardinality(BinnedUpto(i)) < k
    BY <1>7
  <2>2. Upto(i) = Cardinality(BinnedUpto(i)) /\ Upto(i) \in Nat
    BY CountsOfBins
  <2> QED BY <1>3, <2>1, <2>2
<1>11. Min(Reaching(k)) = b
  <2>1. Reaching(k) \subseteq Int
    BY <1>10
  <2> QED BY <1>9, <1>10, <2>1, MinIs
<1>12. b - 1 \in Int /\ b - 1 < b
  OBVIOUS
<1> QED BY <1>7, <1>8, <1>9, <1>11, <1>12

------------------------------------------------------------------------------
(* The bin, or the two bins, of the middle samples.                         *)

LowerRank == (num_elems + 1) \div 2

upper == Ranked(Samples, Middle)
lower == Ranked(Samples, LowerRank)

(***************************************************************************)
(* The ranks of the middle samples.                                        *)
(***************************************************************************)
LEMMA MiddleFacts ==
  ASSUME DataOK
  PROVE  /\ num_elems \in Nat /\ Middle \in 1 .. num_elems /\ LowerRank \in 1 .. num_elems
         /\ Middle \in Int /\ LowerRank \in Int
         /\ Even => LowerRank = Middle - 1 /\ LowerRank + 1 = Middle
         /\ ~ Even => LowerRank = Middle /\ lower = upper
         /\ MiddleSamples = {lower, upper}
         /\ upper \in Int /\ lower \in Int /\ lower <= upper
         /\ (\E s \in Samples : data[s] = upper) /\ (\E s \in Samples : data[s] = lower)
<1>1. num_elems \in Nat \ {0} /\ Cardinality(Samples) = num_elems
  BY DataFacts
<1>2. PICK n \in Nat \ {0} : n = num_elems
  BY <1>1
<1>3. n \div 2 \in Nat /\ n % 2 \in {0, 1} /\ n = 2 * (n \div 2) + (n % 2)
  BY Half
<1>4. (n + 1) \div 2 \in Nat /\ (n + 1) % 2 \in {0, 1} /\ n + 1 = 2 * ((n + 1) \div 2) + ((n + 1) % 2)
  BY Half
<1>5. /\ Middle = n \div 2 + 1 /\ LowerRank = (n + 1) \div 2
      /\ Even <=> n % 2 = 0
  BY <1>2 DEF Middle, LowerRank, Even
<1>6. Middle \in 1 .. num_elems /\ LowerRank \in 1 .. num_elems /\ Middle \in Int /\ LowerRank \in Int
  BY <1>2, <1>3, <1>4, <1>5
<1>7. Even => LowerRank = Middle - 1 /\ LowerRank + 1 = Middle
  BY <1>3, <1>4, <1>5
<1>8. ~ Even => LowerRank = Middle
  BY <1>3, <1>4, <1>5
<1>9. MiddleSamples = {lower, upper}
  BY DEF MiddleSamples, lower, upper, LowerRank
<1>10. IsRanked(Samples, Middle, upper) /\ upper \in Int
  BY <1>1, <1>6, RankedIs DEF upper
<1>11. IsRanked(Samples, LowerRank, lower) /\ lower \in Int
  BY <1>1, <1>6, RankedIs DEF lower
<1>12. lower <= upper
  <2>1. CASE Even
    <3>1. PICK k \in Int : k = LowerRank
      BY <1>6
    <3>2. k \in 1 .. Cardinality(Samples) /\ k + 1 \in 1 .. Cardinality(Samples) /\ k + 1 = Middle
      BY <1>1, <1>6, <1>7, <2>1, <3>1
    <3>3. Ranked(Samples, k) <= Ranked(Samples, k + 1)
      BY <3>2, RanksAdjacent
    <3> QED BY <3>1, <3>2, <3>3 DEF lower, upper
  <2>2. CASE ~ Even
    BY <1>8, <1>10, <2>2 DEF lower, upper
  <2> QED BY <2>1, <2>2
<1> QED BY <1>1, <1>6, <1>7, <1>8, <1>9, <1>10, <1>11, <1>12 DEF IsRanked, lower, upper

\* The interval is fit for binning: no narrower than is allowed, with the middle samples in it.
IntervalOK ==
  /\ DataOK /\ Narrow
  /\ interval \in Intervals /\ Wide(interval)
  /\ \A v \in MiddleSamples : Between(v, interval)

LEMMA IntervalBins ==
  ASSUME IntervalOK
  PROVE  /\ Ordered(interval) /\ N <= IntMax
         /\ Bin(upper, interval) \in 0 .. N /\ Bin(lower, interval) \in 0 .. N
         /\ Bin(lower, interval) <= Bin(upper, interval)
<1>1. DataOK /\ Narrow /\ interval \in Intervals /\ Wide(interval)
  BY DEF IntervalOK
<1>2. upper \in Int /\ lower \in Int /\ Between(upper, interval) /\ Between(lower, interval)
  BY <1>1, MiddleFacts DEF IntervalOK
<1>3. PICK t \in Samples : data[t] = upper
  BY <1>1, MiddleFacts
<1>4. PICK u \in Samples : data[u] = lower
  BY <1>1, MiddleFacts
<1>5. Ordered(interval)
  BY <1>1, <1>2, <1>3, BinsOrdered
<1>6. N <= IntMax
  <2>1. (data[t] - data[t]) * N * MinRangeInv + N <= IntMax
    BY <1>1 DEF Narrow
  <2>2. data[t] - data[t] = 0 /\ N \in Nat /\ MinRangeInv \in Nat /\ IntMax \in Nat
    BY <1>2, <1>3, BinMedianAssumption
  <2>3. (data[t] - data[t]) * N * MinRangeInv = 0
    BY <2>2, SMT
  <2> QED BY <2>1, <2>2, <2>3
<1>7. Bin(upper, interval) \in 0 .. N
  BY <1>1, <1>2, <1>6, BinInside
<1>8. Bin(lower, interval) \in 0 .. N
  BY <1>1, <1>2, <1>6, BinInside
<1>9. Bin(lower, interval) <= Bin(upper, interval)
  <2>1. data[u] <= data[t]
    BY <1>1, <1>3, <1>4, MiddleFacts
  <2> QED BY <1>3, <1>4, <1>5, <2>1 DEF Ordered
<1> QED BY <1>5, <1>6, <1>7, <1>8, <1>9

(***************************************************************************)
(* The bins that FindMedianBin takes are those of the middle samples.      *)
(***************************************************************************)
LEMMA MiddleBins ==
  ASSUME IntervalOK, Binned, NEW right, right = Min(Reaching(Middle)),
         NEW rank, rank = Middle - (Upto(right) - bincounts[right])
  PROVE  /\ Reaching(Middle) # {} /\ right = Bin(upper, interval) /\ right \in 0 .. N
         /\ Cardinality(BinnedUpto(right - 1)) \in Nat
         /\ rank \in Nat \ {0} /\ rank = Middle - Cardinality(BinnedUpto(right - 1))
         /\ Middle <= Cardinality(BinnedUpto(right))
         /\ Even /\ ~ Extends(rank) => rank >= 2 /\ Bin(lower, interval) = right
         /\ Extends(rank) =>
              /\ Bin(lower, interval) \in NonEmptyBelow(right)
              /\ Max(NonEmptyBelow(right)) = Bin(lower, interval)
<1>1. DataOK /\ Ordered(interval) /\ Bin(upper, interval) \in 0 .. N /\ Bin(lower, interval) \in 0 .. N
      /\ Bin(lower, interval) <= Bin(upper, interval)
  BY IntervalBins DEF IntervalOK
<1>2. /\ num_elems \in Nat /\ Middle \in 1 .. num_elems /\ LowerRank \in 1 .. num_elems
      /\ Middle \in Int /\ LowerRank \in Int
      /\ Even => LowerRank = Middle - 1
  BY <1>1, MiddleFacts
<1>3. N \in Nat /\ IsFiniteSet(Samples)
  BY <1>1, BinMedianAssumption, DataFacts
<1>4. /\ Reaching(Middle) # {} /\ right = Bin(upper, interval) /\ right \in 0 .. N /\ right \in Int
      /\ Cardinality(BinnedUpto(right - 1)) < Middle /\ Middle <= Cardinality(BinnedUpto(right))
  <2>1. PICK b \in 0 .. N : b = Bin(Ranked(Samples, Middle), interval)
    BY <1>1 DEF upper
  <2>2. /\ Reaching(Middle) # {} /\ Min(Reaching(Middle)) = b
        /\ Cardinality(BinnedUpto(b - 1)) < Middle /\ Middle <= Cardinality(BinnedUpto(b))
    BY <1>1, <1>2, <2>1, BinReached
  <2> QED BY <1>3, <2>1, <2>2 DEF upper
<1>5. PICK b \in 0 .. N : b = Bin(lower, interval)
  BY <1>1
<1>6. Cardinality(BinnedUpto(b - 1)) < LowerRank /\ LowerRank <= Cardinality(BinnedUpto(b))
  <2>1. b = Bin(Ranked(Samples, LowerRank), interval)
    BY <1>5 DEF lower
  <2> QED BY <1>1, <1>2, <2>1, BinReached
<1>7. \A i : IsFiniteSet(BinnedUpto(i)) /\ Cardinality(BinnedUpto(i)) \in Nat
  BY <1>3, Counts DEF BinnedUpto
<1>8. rank = Middle - Cardinality(BinnedUpto(right - 1)) /\ rank \in Nat \ {0}
  <2>1. Upto(right) - bincounts[right] = Cardinality(BinnedUpto(right - 1))
    BY <1>1, <1>4, CountsOfBins
  <2> QED BY <1>2, <1>4, <1>7, <2>1
<1>9. b <= right /\ b \in Int
  BY <1>1, <1>3, <1>4, <1>5
<1>10. ASSUME NEW i \in Int, NEW j \in Int, i <= j
       PROVE  Cardinality(BinnedUpto(i)) <= Cardinality(BinnedUpto(j))
  <2>1. BinnedUpto(i) \subseteq BinnedUpto(j)
    <3>1. \A s \in Samples : Bin(data[s], interval) \in Int
      BY <1>1 DEF Ordered
    <3> QED BY <1>10, <3>1 DEF BinnedUpto
  <2> QED BY <1>7, <2>1, Counts
<1>11. ASSUME Even, ~ Extends(rank) PROVE rank >= 2 /\ b = right
  <2>1. rank >= 2
    BY <1>8, <1>11 DEF Extends
  <2>2. ASSUME b <= right - 1 PROVE FALSE
    <3>1. Cardinality(BinnedUpto(b)) <= Cardinality(BinnedUpto(right - 1))
      BY <1>4, <1>9, <1>10, <2>2
    <3>2. LowerRank = Middle - 1
      BY <1>2, <1>11
    <3> QED BY <1>2, <1>6, <1>7, <1>8, <2>1, <3>1, <3>2
  <2> QED BY <1>4, <1>9, <2>1, <2>2
<1>12. ASSUME Extends(rank)
       PROVE  b \in NonEmptyBelow(right) /\ Max(NonEmptyBelow(right)) = b
  <2>1. Even /\ rank = 1 /\ LowerRank = Middle - 1
    BY <1>2, <1>12 DEF Extends
  <2>2. Cardinality(BinnedUpto(right - 1)) = LowerRank
    BY <1>2, <1>7, <1>8, <2>1
  <2>3. b <= right - 1
    <3> SUFFICES ASSUME b > right - 1 PROVE FALSE
      BY <1>4, <1>9
    <3>1. Cardinality(BinnedUpto(right - 1)) <= Cardinality(BinnedUpto(b - 1))
      BY <1>4, <1>9, <1>10
    <3> QED BY <1>2, <1>6, <1>7, <2>2, <3>1
  <2>4. \A i \in 0 .. N : bincounts[i] = Cardinality(BinnedAt(i)) /\ bincounts[i] \in Nat
    BY <1>1, CountsOfBins
  <2>5. PICK t \in Samples : data[t] = lower
    BY <1>1, MiddleFacts
  <2>6. bincounts[b] # 0
    <3>1. t \in BinnedAt(b)
      BY <1>5, <2>5 DEF BinnedAt
    <3>2. IsFiniteSet(BinnedAt(b))
      BY <1>3, FS_Subset DEF BinnedAt
    <3>3. Cardinality(BinnedAt(b)) # 0
      BY <3>1, <3>2, FS_EmptySet
    <3> QED BY <2>4, <3>3
  <2>7. b \in NonEmptyBelow(right)
    BY <1>4, <1>9, <2>3, <2>6 DEF NonEmptyBelow
  <2>8. ASSUME NEW j \in NonEmptyBelow(right), j > b PROVE FALSE
    <3>1. j \in 0 .. right - 1 /\ bincounts[j] # 0 /\ j \in Int
      BY <1>4, <2>8 DEF NonEmptyBelow
    <3>2. Cardinality(BinnedAt(j)) # 0
      BY <1>3, <1>4, <2>4, <3>1
    <3>3. PICK s \in Samples : Bin(data[s], interval) = j
      <4>1. BinnedAt(j) # {}
        BY <3>2, FS_EmptySet
      <4> QED BY <4>1 DEF BinnedAt
    <3>4. BinnedUpto(b) \union {s} \subseteq BinnedUpto(right - 1) /\ s \notin BinnedUpto(b)
      <4>1. \A q \in Samples : Bin(data[q], interval) \in Int
        BY <1>1 DEF Ordered
      <4> QED BY <1>4, <1>9, <2>3, <2>8, <3>1, <3>3, <4>1 DEF BinnedUpto
    <3>5. Cardinality(BinnedUpto(b) \union {s}) = Cardinality(BinnedUpto(b)) + 1
      BY <1>7, <3>4, FS_AddElement
    <3>6. Cardinality(BinnedUpto(b) \union {s}) <= Cardinality(BinnedUpto(right - 1))
      BY <1>7, <3>4, Counts
    <3> QED BY <1>2, <1>6, <1>7, <2>2, <3>5, <3>6
  <2>9. NonEmptyBelow(right) \subseteq Int /\ \A j \in NonEmptyBelow(right) : j <= b
    <3>1. NonEmptyBelow(right) \subseteq Int
      BY <1>4 DEF NonEmptyBelow
    <3> QED BY <1>9, <2>8, <3>1
  <2> QED BY <2>7, <2>9, MaxIs
<1> QED BY <1>4, <1>5, <1>7, <1>8, <1>11, <1>12

------------------------------------------------------------------------------
(* The bins that are selected.                                              *)

InBins(i, j) == {s \in Samples : Bin(data[s], interval) \in i .. j}

\* What FindMedianBin computes: the bins from left to right, with size samples, of
\* which the k-th is the middle one.
Selection(left, right, size, k) ==
  /\ right = Min(Reaching(Middle))
  /\ \E rank \in {Middle - (Upto(right) - bincounts[right])} :
       /\ left = IF Extends(rank) /\ NonEmptyBelow(right) # {} THEN Max(NonEmptyBelow(right)) ELSE right
       /\ k = IF left = right THEN rank ELSE rank + bincounts[left]
  /\ size = SumOf(bincounts, left .. right)

(***************************************************************************)
(* The middle samples are in the selected bins, and the middle one is the  *)
(* k-th of the samples that are.                                           *)
(***************************************************************************)
LEMMA SelectedPart ==
  ASSUME IntervalOK, Binned, NEW left, NEW right, NEW size, NEW k, Selection(left, right, size, k)
  PROVE  /\ Reaching(Middle) # {}
         /\ Extends(Middle - (Upto(right) - bincounts[right])) => NonEmptyBelow(right) # {}
         /\ left \in 0 .. N /\ right \in 0 .. N /\ left <= right
         /\ size \in Nat /\ size = Cardinality(InBins(left, right))
         /\ k \in 1 .. size /\ Ranked(InBins(left, right), k) = upper
         /\ Even => k - 1 \in 1 .. size /\ Ranked(InBins(left, right), k - 1) = lower
         /\ MiddleSamples \subseteq {data[s] : s \in InBins(left, right)}
         /\ Bin(upper, interval) \in left .. right /\ Bin(lower, interval) \in left .. right
<1>1. PICK rank : /\ rank = Middle - (Upto(right) - bincounts[right])
                  /\ left = IF Extends(rank) /\ NonEmptyBelow(right) # {} THEN Max(NonEmptyBelow(right))
                            ELSE right
                  /\ k = IF left = right THEN rank ELSE rank + bincounts[left]
  BY DEF Selection
<1>2. right = Min(Reaching(Middle)) /\ size = SumOf(bincounts, left .. right)
  BY DEF Selection
<1>3. /\ Reaching(Middle) # {} /\ right = Bin(upper, interval) /\ right \in 0 .. N
      /\ Cardinality(BinnedUpto(right - 1)) \in Nat
      /\ rank \in Nat \ {0} /\ rank = Middle - Cardinality(BinnedUpto(right - 1))
      /\ Middle <= Cardinality(BinnedUpto(right))
      /\ Even /\ ~ Extends(rank) => rank >= 2 /\ Bin(lower, interval) = right
      /\ Extends(rank) =>
           /\ Bin(lower, interval) \in NonEmptyBelow(right)
           /\ Max(NonEmptyBelow(right)) = Bin(lower, interval)
  BY <1>1, <1>2, MiddleBins
<1>4. DataOK /\ Ordered(interval) /\ N \in Nat /\ IsFiniteSet(Samples)
  BY IntervalBins, BinMedianAssumption, DataFacts DEF IntervalOK
<1>5. /\ Middle \in Int /\ LowerRank \in Int
      /\ Even => LowerRank = Middle - 1
      /\ ~ Even => lower = upper
      /\ MiddleSamples = {lower, upper}
  BY <1>4, MiddleFacts
<1>6. /\ \A i \in 0 .. N :
           /\ bincounts[i] = Cardinality(BinnedAt(i)) /\ bincounts[i] \in Nat
           /\ Upto(i) = Cardinality(BinnedUpto(i)) /\ Upto(i) \in Nat
           /\ Upto(i) - bincounts[i] = Cardinality(BinnedUpto(i - 1))
      /\ \A i, j \in 0 .. N : SumOf(bincounts, i .. j) = Cardinality(InBins(i, j))
  BY <1>4, CountsOfBins DEF InBins
<1>7. \A s \in Samples : Bin(data[s], interval) \in Int
  BY <1>4 DEF Ordered
<1>8. \A i : IsFiniteSet(BinnedUpto(i)) /\ Cardinality(BinnedUpto(i)) \in Nat
  BY <1>4, Counts DEF BinnedUpto
<1>9. /\ left \in 0 .. N /\ left <= right /\ k \in Int
      /\ Cardinality(BinnedUpto(left - 1)) + k = Middle /\ k >= 1
      /\ Even => k >= 2
      /\ Bin(lower, interval) \in left .. right
  <2>1. CASE ~ Extends(rank)
    <3>1. left = right /\ k = rank
      BY <1>1, <2>1
    <3>2. Bin(lower, interval) = right
      BY <1>3, <1>5, <2>1
    <3> QED BY <1>3, <1>4, <1>5, <2>1, <3>1, <3>2
  <2>2. CASE Extends(rank)
    <3>1. left = Bin(lower, interval) /\ left \in NonEmptyBelow(right)
      BY <1>1, <1>3, <2>2
    <3>2. left \in Int /\ 0 <= left /\ left < right /\ bincounts[left] # 0
      BY <1>3, <3>1 DEF NonEmptyBelow
    <3>3. left \in 0 .. N /\ right \in Int /\ bincounts[left] \in Nat /\ bincounts[left] >= 1
      <4>1. left \in 0 .. N /\ right \in Int
        BY <1>3, <1>4, <3>2
      <4>2. bincounts[left] \in Nat
        BY <1>6, <4>1
      <4> QED BY <3>2, <4>1, <4>2
    <3>4. k = rank + bincounts[left] /\ rank = 1 /\ Even
      BY <1>1, <2>2, <3>2, <3>3 DEF Extends
    <3>5. ASSUME NEW s \in Samples, Bin(data[s], interval) <= right - 1
          PROVE  Bin(data[s], interval) <= left
      <4> SUFFICES ASSUME Bin(data[s], interval) > left PROVE FALSE
        BY <1>7, <3>2
      <4>1. PICK j \in Int : j = Bin(data[s], interval)
        BY <1>7
      <4>2. j > left /\ j <= right - 1 /\ j \in 0 .. N /\ j \in 0 .. right - 1
        BY <1>3, <1>4, <3>2, <3>3, <3>5, <4>1
      <4>3. s \in BinnedAt(j) /\ IsFiniteSet(BinnedAt(j))
        BY <1>4, <4>1, FS_Subset DEF BinnedAt
      <4>4. bincounts[j] # 0
        BY <1>6, <4>2, <4>3, FS_EmptySet
      <4>5. j \in NonEmptyBelow(right)
        BY <4>2, <4>4 DEF NonEmptyBelow
      <4>6. NonEmptyBelow(right) \subseteq Int /\ IsFiniteSet(NonEmptyBelow(right))
        <5>1. PICK r \in Int : r = right - 1
          BY <3>3
        <5>2. IsFiniteSet(0 .. r)
          BY <5>1, FS_Interval
        <5>3. NonEmptyBelow(right) \subseteq 0 .. r
          BY <5>1 DEF NonEmptyBelow
        <5>4. IsFiniteSet(NonEmptyBelow(right))
          BY <5>2, <5>3, FS_Subset
        <5>5. 0 .. r \subseteq Int
          OBVIOUS
        <5> QED BY <5>3, <5>4, <5>5
      <4>7. PICK m \in NonEmptyBelow(right) : \A i \in NonEmptyBelow(right) : i <= m
        <5>1. \A i \in NonEmptyBelow(right) : i <= right
          BY <3>3 DEF NonEmptyBelow
        <5>2. PICK B : B = NonEmptyBelow(right)
          OBVIOUS
        <5>3. B \subseteq Int /\ B # {} /\ \A i \in B : i <= right
          BY <4>5, <4>6, <5>1, <5>2
        <5> QED BY <3>3, <5>2, <5>3, Greatest
      <4>8. Max(NonEmptyBelow(right)) = m
        BY <4>6, <4>7, MaxIs
      <4> QED BY <1>3, <2>2, <3>1, <3>2, <4>2, <4>5, <4>7, <4>8
    <3>6. BinnedUpto(right - 1) = BinnedUpto(left)
      <4>1. \A s \in Samples : Bin(data[s], interval) <= left => Bin(data[s], interval) <= right - 1
        BY <1>7, <3>2, <3>3
      <4> QED BY <3>5, <4>1 DEF BinnedUpto
    <3>7. Cardinality(BinnedUpto(left)) = Cardinality(BinnedUpto(left - 1)) + bincounts[left]
      BY <1>6, <1>8, <3>3
    <3>8. PICK c \in Nat : c = Cardinality(BinnedUpto(left - 1))
      BY <1>8
    <3>9. PICK m \in Nat : m = bincounts[left]
      BY <3>3
    <3>10. k = 1 + m /\ Middle = c + m + 1 /\ m >= 1
      BY <1>3, <1>5, <3>3, <3>4, <3>6, <3>7, <3>8, <3>9
    <3> QED BY <3>1, <3>2, <3>3, <3>8, <3>10
  <2> QED BY <2>1, <2>2
<1> DEFINE P == InBins(left, right)
           L == BinnedUpto(left - 1)
<1>10. /\ P \subseteq Samples /\ L \subseteq Samples /\ L \cap P = {}
       /\ BinnedUpto(right) = L \union P
       /\ \A s \in L, t \in P : data[s] < data[t]
       /\ \A s \in Samples \ (L \union P), t \in P : data[t] < data[s]
  <2>1. left \in Int /\ right \in Int
    BY <1>3, <1>4, <1>9
  <2>2. P \subseteq Samples /\ L \subseteq Samples /\ L \cap P = {} /\ BinnedUpto(right) = L \union P
    BY <1>7, <1>9, <2>1 DEF InBins, BinnedUpto
  <2>3. ASSUME NEW s \in Samples, NEW t \in Samples, Bin(data[s], interval) < Bin(data[t], interval)
        PROVE  data[s] < data[t]
    <3>1. data[t] <= data[s] => Bin(data[t], interval) <= Bin(data[s], interval)
      BY <1>4 DEF Ordered
    <3>2. data[s] \in Int /\ data[t] \in Int
      BY <1>4, DataFacts
    <3> QED BY <1>7, <2>3, <3>1, <3>2
  <2>4. ASSUME NEW s \in L, NEW t \in P PROVE Bin(data[s], interval) < Bin(data[t], interval)
    BY <1>7, <2>1 DEF InBins, BinnedUpto
  <2>5. ASSUME NEW s \in Samples \ (L \union P), NEW t \in P
        PROVE  Bin(data[t], interval) < Bin(data[s], interval)
    BY <1>7, <2>1 DEF InBins, BinnedUpto
  <2> HIDE DEF L, P
  <2> QED BY <2>2, <2>3, <2>4, <2>5
<1>11. P = InBins(left, right) /\ L = BinnedUpto(left - 1)
  OBVIOUS
<1> HIDE DEF P, L
<1>12. IsFiniteSet(P) /\ IsFiniteSet(L) /\ Cardinality(P) \in Nat /\ Cardinality(L) \in Nat
  BY <1>4, <1>10, Counts
<1>13. Cardinality(L) + Cardinality(P) >= Middle
  <2>1. Cardinality(BinnedUpto(right)) = Cardinality(L) + Cardinality(P)
    BY <1>10, <1>12, Together
  <2> QED BY <1>3, <2>1
<1>14. k \in 1 .. Cardinality(P) /\ Cardinality(L) + k = Middle
  BY <1>5, <1>9, <1>11, <1>12, <1>13
<1>15. Ranked(P, k) = upper /\ IsRanked(P, k, upper)
  <2>1. Ranked(Samples, Cardinality(L) + k) = Ranked(P, k)
    BY <1>4, <1>10, <1>14, RankedPart
  <2>2. Ranked(P, k) = upper
    BY <1>14, <2>1 DEF upper
  <2> QED BY <1>4, <1>10, <1>14, <2>2, RankedIs
<1>16. ASSUME Even PROVE k - 1 \in 1 .. Cardinality(P) /\ Ranked(P, k - 1) = lower /\ IsRanked(P, k - 1, lower)
  <2>1. PICK j : j = k - 1
    OBVIOUS
  <2>2. j \in 1 .. Cardinality(P) /\ Cardinality(L) + j = LowerRank
    BY <1>5, <1>9, <1>12, <1>14, <1>16, <2>1
  <2>3. Ranked(Samples, Cardinality(L) + j) = Ranked(P, j)
    BY <1>4, <1>10, <2>2, RankedPart
  <2>4. Ranked(P, j) = lower
    BY <2>2, <2>3 DEF lower
  <2> QED BY <1>4, <1>10, <2>1, <2>2, <2>4, RankedIs
<1>17. size = Cardinality(P)
  BY <1>2, <1>3, <1>6, <1>9, <1>11
<1>18. MiddleSamples \subseteq {data[s] : s \in P}
  BY <1>5, <1>15, <1>16 DEF IsRanked
<1>19. Extends(rank) => NonEmptyBelow(right) # {}
  BY <1>3
<1>20. Bin(upper, interval) \in left .. right
  BY <1>3, <1>4, <1>9
<1> QED BY <1>1, <1>3, <1>9, <1>11, <1>12, <1>14, <1>15, <1>16, <1>17, <1>18, <1>19, <1>20

------------------------------------------------------------------------------
(* Intervals.                                                               *)

(***************************************************************************)
(* The bins from left to right, as an interval, hold the values that were  *)
(* in these bins.                                                          *)
(***************************************************************************)
LEMMA RefinedHolds ==
  ASSUME NEW iv \in Intervals, NEW left \in 0 .. N, NEW right \in 0 .. N, left <= right, N <= IntMax
  PROVE  /\ Refined(iv, left, right) \in Intervals
         /\ \A v \in Int : Between(v, iv) /\ Bin(v, iv) \in left .. right
                             => Between(v, Refined(iv, left, right))
<1>1. N \in Nat \ {0}
  BY BinMedianAssumption
<1>2. PICK l \in Int, w \in Nat \ {0}, d \in Nat \ {0} : l = iv.l /\ w = iv.w /\ d = iv.den
  BY DEF Intervals
<1>3. left \in Nat /\ right \in Nat
  BY <1>1
<1>4. PICK n \in Nat \ {0} : n = right + 1 - left
  BY <1>3
<1>5. /\ l * N + left * w \in Int /\ n * w \in Nat \ {0} /\ d * N \in Nat \ {0}
  BY <1>1, <1>3, SMT
<1>6. Refined(iv, left, right) = [l |-> l * N + left * w, w |-> n * w, den |-> d * N]
  BY <1>2, <1>4 DEF Refined
<1>7. Refined(iv, left, right) \in Intervals
  BY <1>5, <1>6 DEF Intervals
<1>8. ASSUME NEW v \in Int, Between(v, iv), Bin(v, iv) \in left .. right
      PROVE  Between(v, Refined(iv, left, right))
  <2>1. PICK b : b = Bin(v, iv)
    OBVIOUS
  <2>2. b \in Int /\ left <= b /\ b <= right
    BY <1>3, <1>8, <2>1
  <2>3. b * w <= (v * d - l) * N /\ (v * d - l) * N < (b + 1) * w
    BY <1>2, <1>8, <2>1, BinInside
  <2>4. left * w <= b * w /\ (b + 1) * w <= (right + 1) * w
    BY <1>3, <2>2, SMT
  <2>5. (v * d - l) * N = v * (d * N) - l * N
    BY <1>1, SMT
  <2>6. (right + 1) * w = left * w + n * w
    BY <1>3, <1>4, SMT
  <2>7. /\ left * w \in Int /\ b * w \in Int /\ (b + 1) * w \in Int /\ (right + 1) * w \in Int
        /\ n * w \in Int /\ l * N \in Int /\ v * (d * N) \in Int
    BY <1>1, <1>3, <2>2, SMT
  <2>8. l * N + left * w <= v * (d * N) /\ v * (d * N) <= l * N + left * w + n * w
    BY <2>3, <2>4, <2>5, <2>6, <2>7
  <2> QED BY <1>6, <2>8 DEF Between
<1> QED BY <1>7, <1>8

\* The number n, the sum X, the squares q and their sum Q of the numbers x.
AreMoments(x, q, S, n, X, Q) ==
  /\ IsFiniteSet(S) /\ \A s \in S : x[s] \in Int /\ q[s] = x[s] * x[s]
  /\ n = Cardinality(S) /\ X = SumOf(x, S) /\ Q = SumOf(q, S)

LEMMA MomentsAre ==
  ASSUME NEW S, NEW x, NEW q, NEW n, NEW X, NEW Q, AreMoments(x, q, S, n, X, Q)
  PROVE  /\ IsFiniteSet(S) /\ n = Cardinality(S) /\ X = SumOf(x, S) /\ Q = SumOf(q, S)
         /\ n \in Nat /\ X \in Int /\ Q \in Int
         /\ \A s \in S : x[s] \in Int /\ q[s] \in Int /\ q[s] = x[s] * x[s]
<1>1. /\ IsFiniteSet(S) /\ n = Cardinality(S) /\ X = SumOf(x, S) /\ Q = SumOf(q, S)
      /\ \A s \in S : x[s] \in Int /\ q[s] = x[s] * x[s]
  BY DEF AreMoments
<1>2. \A a \in Int : a * a \in Int
  BY SMT
<1>3. \A s \in S : q[s] \in Int
  BY <1>1, <1>2
<1> QED BY <1>1, <1>3, FS_CardinalityType, SumIsInt

\* The deviations, times n, of n numbers from their mean X / n, and their squares.
AreDeviations(y, z, x, S, n, X) == \A s \in S : y[s] = n * x[s] - X /\ z[s] = y[s] * y[s]

(***************************************************************************)
(* The deviations of n numbers from their mean X / n, times n: they add up *)
(* to 0, and their squares to n^3 times the variance.                      *)
(***************************************************************************)
LEMMA AboutMean ==
  ASSUME NEW S, NEW x, NEW q, NEW n, NEW X, NEW Q, AreMoments(x, q, S, n, X, Q),
         NEW y, NEW z, AreDeviations(y, z, x, S, n, X)
  PROVE  /\ n \in Nat /\ X \in Int /\ Q \in Int
         /\ \A s \in S : y[s] \in Int /\ z[s] \in Nat
         /\ SumOf(y, S) = 0
         /\ SumOf(z, S) = n * (n * Q - X * X)
<1>1. /\ IsFiniteSet(S) /\ n = Cardinality(S) /\ X = SumOf(x, S) /\ Q = SumOf(q, S)
      /\ n \in Nat /\ X \in Int /\ Q \in Int
      /\ \A s \in S : x[s] \in Int /\ q[s] \in Int /\ q[s] = x[s] * x[s]
  BY MomentsAre
<1>0. IsFiniteSet(S)
  BY MomentsAre
<1>2. ASSUME NEW s \in S
      PROVE  /\ y[s] \in Int /\ z[s] \in Nat
             /\ y[s] = n * x[s] + 0 * q[s] + (-X)
             /\ z[s] = (-2 * n * X) * x[s] + (n * n) * q[s] + X * X
  <2>1. PICK e \in Int : e = x[s]
    BY <1>1
  <2>2. q[s] = e * e
    BY <1>1, <2>1
  <2>3. PICK u \in Int : u = n * e - X
    <3>1. n * e \in Int
      BY <1>1, SMT
    <3> QED BY <1>1, <3>1
  <2>4. y[s] = u /\ z[s] = u * u
    BY <2>1, <2>3 DEF AreDeviations
  <2>5. u = n * e + 0 * (e * e) + (-X)
    BY <1>1, <2>3, SMT
  <2>6. u * u = (-2 * n * X) * e + (n * n) * (e * e) + X * X
    BY <1>1, <2>3, SMT
  <2>7. u * u \in Nat
    BY SMT
  <2> QED BY <2>1, <2>2, <2>4, <2>5, <2>6, <2>7
<1>3. SumOf(y, S) = 0
  <2>1. PICK m \in Int, o \in Int, r \in Int : m = n /\ o = 0 /\ r = -X
    BY <1>1
  <2>2. IsLinear(y, x, q, S, m, o, r)
    BY <1>1, <1>2, <2>1 DEF IsLinear
  <2>3. SumOf(y, S) = m * SumOf(x, S) + o * SumOf(q, S) + r * Cardinality(S)
    BY <1>0, <2>1, <2>2, SumLinear
  <2>4. n * X + 0 * Q + (-X) * n = 0
    BY <1>1, SMT
  <2> QED BY <1>1, <2>1, <2>3, <2>4
<1>4. SumOf(z, S) = n * (n * Q - X * X)
  <2>1. PICK m \in Int, o \in Int, r \in Int : m = -2 * n * X /\ o = n * n /\ r = X * X
    <3>1. -2 * n * X \in Int /\ n * n \in Int /\ X * X \in Int
      BY <1>1, SMT
    <3> QED BY <3>1
  <2>2. IsLinear(z, x, q, S, m, o, r)
    BY <1>1, <1>2, <2>1 DEF IsLinear
  <2>3. SumOf(z, S) = m * SumOf(x, S) + o * SumOf(q, S) + r * Cardinality(S)
    BY <1>0, <2>1, <2>2, SumLinear
  <2>4. (-2 * n * X) * X + (n * n) * Q + (X * X) * n = n * (n * Q - X * X)
    BY <1>1, SMT
  <2> QED BY <1>1, <2>1, <2>3, <2>4
<1> QED BY <1>1, <1>2, <1>3, <1>4

(***************************************************************************)
(* A value that at least half of n numbers reach is at most a standard     *)
(* deviation above their mean X / n: the square of v - X / n is at most    *)
(* Q / n - (X / n)^2.                                                      *)
(***************************************************************************)
LEMMA HalfAbove ==
  ASSUME NEW S, NEW x, NEW q, NEW n, NEW X, NEW Q, AreMoments(x, q, S, n, X, Q),
         NEW v \in Int, NEW A \in SUBSET S, \A s \in A : x[s] >= v,
         2 * Cardinality(A) >= n, n * v >= X
  PROVE  (n * v - X) * (n * v - X) <= n * Q - X * X
<1> DEFINE B == S \ A
           y == [s \in S |-> n * x[s] - X]
           z == [s \in S |-> y[s] * y[s]]
<1>3. /\ IsFiniteSet(S) /\ n = Cardinality(S) /\ X = SumOf(x, S) /\ Q = SumOf(q, S)
      /\ n \in Nat /\ X \in Int /\ Q \in Int
      /\ \A s \in S : x[s] \in Int /\ q[s] \in Int /\ q[s] = x[s] * x[s]
  BY MomentsAre
<1>1. /\ IsFiniteSet(A) /\ IsFiniteSet(B) /\ A \cap B = {} /\ S = A \union B
      /\ A \subseteq S /\ B \subseteq S
  BY <1>3, FS_Subset
<1>2. AreDeviations(y, z, x, S, n, X)
  BY DEF AreDeviations
<1> HIDE DEF B, y, z
<1>7. \A s \in S : y[s] \in Int /\ z[s] \in Int /\ z[s] = y[s] * y[s]
  <2>1. \A s \in S : y[s] \in Int /\ z[s] \in Nat
    BY <1>2, AboutMean
  <2> QED BY <1>2, <2>1 DEF AreDeviations
<1>9. SumOf(y, S) = 0
  BY <1>2, AboutMean
<1>10. SumOf(z, S) = n * (n * Q - X * X)
  BY <1>2, AboutMean
<1>4. PICK a \in Nat, b \in Nat : a = Cardinality(A) /\ b = Cardinality(B)
  BY <1>1, FS_CardinalityType
<1>5. n = a + b /\ a >= b
  <2>1. Cardinality(S) = Cardinality(A) + Cardinality(B)
    BY <1>1, Together
  <2> QED BY <1>3, <1>4, <2>1
<1>6. PICK c \in Nat : c = n * v - X
  <2>1. n * v \in Int
    BY <1>3, SMT
  <2> QED BY <1>3, <2>1
<1>8. ASSUME NEW s \in A PROVE y[s] >= c
  <2>1. PICK e \in Int : e = x[s] /\ e >= v
    BY <1>1, <1>3
  <2>2. n * e >= n * v /\ n * e \in Int /\ n * v \in Int
    <3>1. n \in Nat
      BY <1>3
    <3> QED BY <2>1, <3>1, SMT
  <2>3. y[s] = n * e - X
    BY <1>1, <1>2, <2>1 DEF AreDeviations
  <2> QED BY <1>3, <1>6, <2>2, <2>3
<1>11. PICK T \in Int : T = SumOf(y, A)
  BY <1>1, <1>7, SumIsInt
<1>12. PICK U \in Int, W \in Int : U = SumOf(z, A) /\ W = SumOf(z, B)
  <2>1. SumOf(z, A) \in Int
    BY <1>1, <1>7, SumIsInt
  <2>2. SumOf(z, B) \in Int
    BY <1>1, <1>7, SumIsInt
  <2> QED BY <2>1, <2>2
<1>13. SumOf(y, B) = -T
  <2>1. SumOf(y, S) = SumOf(y, A) + SumOf(y, B)
    BY <1>1, <1>7, SumUnion
  <2>2. SumOf(y, B) \in Int
    BY <1>1, <1>7, SumIsInt
  <2> QED BY <1>9, <1>11, <2>1, <2>2
<1>14. U + W = n * (n * Q - X * X)
  <2>1. SumOf(z, S) = SumOf(z, A) + SumOf(z, B)
    BY <1>1, <1>7, SumUnion
  <2> QED BY <1>10, <1>12, <2>1
<1>15. T * T <= a * U
  BY <1>1, <1>4, <1>7, <1>11, <1>12, SumSquares
<1>16. T * T <= b * W
  <2>1. \A s \in B : y[s] \in Int /\ z[s] = y[s] * y[s]
    BY <1>1, <1>7
  <2>2. SumOf(y, B) * SumOf(y, B) <= Cardinality(B) * SumOf(z, B)
    BY <1>1, <2>1, SumSquares
  <2>3. (-T) * (-T) = T * T
    BY SMT
  <2> QED BY <1>4, <1>12, <1>13, <2>2, <2>3
<1>17. T >= a * c
  <2>1. \A s \in A : y[s] \in Int /\ c <= y[s]
    BY <1>1, <1>7, <1>8
  <2>2. \A s \in A : [t \in A |-> c][s] \in Int /\ [t \in A |-> c][s] <= y[s] /\ [t \in A |-> c][s] = c
    BY <2>1
  <2>3. SumOf([t \in A |-> c], A) <= SumOf(y, A)
    BY <1>1, <2>1, <2>2, SumMonotone
  <2>4. SumOf([t \in A |-> c], A) = c * Cardinality(A)
    BY <1>1, <2>2, SumConstant
  <2>5. c * a = a * c
    BY SMT
  <2> QED BY <1>4, <1>11, <2>3, <2>4, <2>5
<1>18. PICK V \in Int : V = n * Q - X * X
  <2>1. n * Q \in Int /\ X * X \in Int
    BY <1>3, SMT
  <2> QED BY <2>1
<1>19. c * c <= V
  <2>1. CASE b = 0
    <3>1. c = 0
      <4>1. B = {}
        BY <1>1, <1>4, <2>1, FS_EmptySet
      <4>2. SumOf(y, B) = 0
        BY <4>1, SumEmpty
      <4>3. T = 0
        BY <1>13, <4>2
      <4>4. CASE a = 0
        <5>1. n = 0 /\ S = {}
          <6>1. A = {}
            BY <1>1, <1>4, <4>4, FS_EmptySet
          <6>2. S = {} /\ n = 0
            BY <1>1, <1>5, <2>1, <4>1, <4>4, <6>1
          <6> QED BY <6>2
        <5>2. X = 0
          BY <1>3, <5>1, SumEmpty
        <5>3. n * v = 0
          BY <5>1, SMT
        <5> QED BY <1>6, <5>2, <5>3
      <4>5. CASE a # 0
        <5>1. c > 0 => a * c > 0
          BY <4>5, SMT
        <5>2. a * c \in Int
          BY SMT
        <5> QED BY <1>17, <4>3, <5>1, <5>2
      <4> QED BY <4>4, <4>5
    <3>2. X * X <= n * Q
      <4>1. IsFiniteSet(S) /\ X = SumOf(x, S) /\ n = Cardinality(S) /\ Q = SumOf(q, S)
        BY <1>3
      <4>2. \A s \in S : x[s] \in Int /\ q[s] = x[s] * x[s]
        BY <1>3
      <4> QED BY <4>1, <4>2, SumSquares
    <3>3. c * c = 0
      BY <3>1
    <3>4. X * X \in Int /\ n * Q \in Int
      BY <1>3, SMT
    <3> QED BY <1>18, <3>2, <3>3, <3>4
  <2>2. CASE b # 0
    <3>1. a \in Nat \ {0} /\ b \in Nat \ {0}
      BY <1>5, <2>2
    <3>2. PICK t \in Int : t = T * T
      BY SMT
    <3>3. b * t <= b * (a * U) /\ a * t <= a * (b * W)
      BY <1>15, <1>16, <3>1, <3>2, SMT
    <3>4. b * (a * U) + a * (b * W) = (a * b) * (U + W)
      BY SMT
    <3>5. (a * b) * (U + W) = n * (a * b * V)
      BY <1>3, <1>14, <1>18, SMT
    <3>6. b * t + a * t = n * t
      BY <1>5, SMT
    <3>7. n * t <= n * (a * b * V)
      <4>1. b * t \in Int /\ a * t \in Int /\ b * (a * U) \in Int /\ a * (b * W) \in Int
        BY SMT
      <4> QED BY <3>3, <3>4, <3>5, <3>6, <4>1
    <3>8. n \in Nat \ {0}
      BY <1>5, <3>1
    <3>9. PICK m \in Int : m = a * b * V
      BY SMT
    <3>10. t <= m
      <4>1. m < t => n * m < n * t
        BY <3>8, SMT
      <4>2. n * m \in Int /\ n * t \in Int
        BY <3>8, SMT
      <4> QED BY <3>7, <3>9, <4>1, <4>2
    <3>11. (a * c) * (a * c) <= t
      <4>1. PICK g \in Nat : g = a * c
        BY SMT
      <4>2. g <= T
        BY <1>17, <4>1
      <4>3. g * g <= g * T /\ g * T <= T * T
        BY <4>2, SMT
      <4>4. g * g \in Int /\ g * T \in Int
        BY SMT
      <4> QED BY <3>2, <4>1, <4>3, <4>4
    <3>12. PICK h \in Nat : h = c * c
      BY SMT
    <3>13. (a * c) * (a * c) = a * (a * h)
      BY <3>12, SMT
    <3>14. a * (a * h) <= a * (b * V)
      <4>1. a * b * V = a * (b * V)
        BY SMT
      <4>2. a * (a * h) \in Int /\ a * (b * V) \in Int
        BY SMT
      <4> QED BY <3>9, <3>10, <3>11, <3>13, <4>1, <4>2
    <3>15. a * h <= b * V
      <4>1. PICK p \in Int, r \in Int : p = a * h /\ r = b * V
        BY SMT
      <4>2. r < p => a * r < a * p
        BY <3>1, SMT
      <4>3. a * r \in Int /\ a * p \in Int
        BY SMT
      <4> QED BY <3>14, <4>1, <4>2, <4>3
    <3>16. b * h <= a * h
      BY <1>5, SMT
    <3>17. b * h <= b * V
      <4>1. b * h \in Int /\ a * h \in Int /\ b * V \in Int
        BY SMT
      <4> QED BY <3>15, <3>16, <4>1
    <3>18. V < h => b * V < b * h
      BY <3>1, SMT
    <3>19. b * V \in Int /\ b * h \in Int
      BY SMT
    <3> QED BY <3>12, <3>17, <3>18, <3>19
  <2> QED BY <2>1, <2>2
<1> QED BY <1>6, <1>18, <1>19

LEMMA HalfBelow ==
  ASSUME NEW S, NEW x, NEW q, NEW n, NEW X, NEW Q, AreMoments(x, q, S, n, X, Q),
         NEW v \in Int, NEW A \in SUBSET S, \A s \in A : x[s] <= v,
         2 * Cardinality(A) >= n, n * v <= X
  PROVE  (n * v - X) * (n * v - X) <= n * Q - X * X
<1>1. /\ IsFiniteSet(S) /\ n = Cardinality(S) /\ X = SumOf(x, S) /\ Q = SumOf(q, S)
      /\ n \in Nat /\ X \in Int /\ Q \in Int
      /\ \A s \in S : x[s] \in Int /\ q[s] \in Int /\ q[s] = x[s] * x[s]
  BY MomentsAre
<1>0. IsFiniteSet(S)
  BY MomentsAre
<1> DEFINE m == [s \in S |-> -x[s]]
<1>3. ASSUME NEW s \in S
      PROVE  m[s] \in Int /\ q[s] = m[s] * m[s] /\ m[s] = (-1) * x[s] + 0 * q[s] + 0
  <2>1. PICK e \in Int : e = x[s]
    BY <1>1
  <2>2. m[s] = -e /\ q[s] = e * e
    BY <1>1, <2>1
  <2>3. e * e = (-e) * (-e) /\ -e = (-1) * e + 0 * (e * e) + 0
    BY SMT
  <2> QED BY <2>1, <2>2, <2>3
<1>4. \A s \in A : m[s] >= -v
  BY <1>1
<1> HIDE DEF m
<1>5. PICK Y : Y = SumOf(m, S)
  OBVIOUS
<1>6. Y = -X
  <2>1. PICK a \in Int, b \in Int, c \in Int : a = -1 /\ b = 0 /\ c = 0
    OBVIOUS
  <2>2. IsLinear(m, x, q, S, a, b, c)
    BY <1>1, <1>3, <2>1 DEF IsLinear
  <2>3. SumOf(m, S) = a * SumOf(x, S) + b * SumOf(q, S) + c * Cardinality(S)
    BY <1>0, <2>1, <2>2, SumLinear
  <2>4. (-1) * X + 0 * Q + 0 * n = -X
    BY <1>1, SMT
  <2> QED BY <1>1, <1>5, <2>1, <2>3, <2>4
<1>7. PICK u \in Int : u = -v
  OBVIOUS
<1>8. PICK p \in Int : p = n * v
  BY <1>1, SMT
<1>9. n * u = -p
  BY <1>1, <1>7, <1>8, SMT
<1>10. n * u >= Y
  BY <1>1, <1>6, <1>8, <1>9
<1>11. (n * u - Y) * (n * u - Y) <= n * Q - Y * Y
  <2>1. AreMoments(m, q, S, n, Y, Q)
    BY <1>1, <1>3, <1>5 DEF AreMoments
  <2>2. \A s \in A : m[s] >= u
    BY <1>4, <1>7
  <2> QED BY <1>10, <2>1, <2>2, <1>7, HalfAbove
<1>12. (-p + X) * (-p + X) = (p - X) * (p - X) /\ (-X) * (-X) = X * X
  BY <1>1, SMT
<1>13. n * u - Y = -p + X /\ Y * Y = X * X
  BY <1>1, <1>6, <1>9, <1>12
<1> QED BY <1>8, <1>11, <1>12, <1>13

\* The sums of the samples and of their squares.
DataSquares == [s \in Samples |-> data[s] * data[s]]
AllMoments  == [d1 |-> SumOf(data, Samples), d2 |-> SumOf(DataSquares, Samples)]

(***************************************************************************)
(* The sums that are computed in ranges, by threads, are those of all      *)
(* samples.                                                                *)
(***************************************************************************)
LEMMA TotalsAre ==
  ASSUME DataOK, NEW grain \in Nat \ {0}, NEW ranges \in Ranges(grain)
  PROVE  /\ Totals(ranges) = AllMoments
         /\ AllMoments.d1 \in Int /\ AllMoments.d2 \in Int
         /\ AllMoments.d1 = SumOf(data, Samples) /\ AllMoments.d2 = SumOf(DataSquares, Samples)
<1>1. IsFiniteSet(Samples) /\ \A s \in Samples : data[s] \in Int
  BY DataFacts
<1>2. \A s \in Samples : DataSquares[s] = data[s] * data[s] /\ DataSquares[s] \in Int
  <2>1. \A s \in Samples : DataSquares[s] = data[s] * data[s]
    BY DEF DataSquares
  <2>2. \A a \in Int : a * a \in Int
    BY SMT
  <2> QED BY <1>1, <2>1, <2>2
<1>3. PICK step \in Nat \ {0} : step = 4
  OBVIOUS
<1>4. SumOver(ranges, step, data) = SumOf(data, Samples)
  BY <1>1, SumOverAll
<1>5. SumOver(ranges, step, DataSquares) = SumOf(DataSquares, Samples)
  BY <1>2, SumOverAll
<1>6. Totals(ranges) = AllMoments
  BY <1>3, <1>4, <1>5 DEF Totals, AllMoments, DataSquares
<1>7. SumOf(data, Samples) \in Int
  BY <1>1, SumIsInt
<1>8. SumOf(DataSquares, Samples) \in Int
  BY <1>1, <1>2, SumIsInt
<1> QED BY <1>6, <1>7, <1>8 DEF AllMoments

(***************************************************************************)
(* At least half of the samples reach each of the middle ones, and at      *)
(* least half do not exceed it.                                            *)
(***************************************************************************)
LEMMA EachSideHalf ==
  ASSUME DataOK, NEW v, v = upper \/ v = lower, NEW n, n = num_elems
  PROVE  /\ v \in Int
         /\ 2 * Cardinality({s \in Samples : data[s] >= v}) >= n
         /\ 2 * Cardinality(AtMost(Samples, v)) >= n
<1>1. n \in Nat \ {0} /\ Cardinality(Samples) = n /\ IsFiniteSet(Samples)
      /\ \A s \in Samples : data[s] \in Int
  BY DataFacts
<1>5. /\ Middle \in 1 .. n /\ LowerRank \in 1 .. n /\ Middle \in Int /\ LowerRank \in Int
      /\ upper \in Int /\ lower \in Int
  BY MiddleFacts
<1>6. n \div 2 \in Nat /\ n % 2 \in {0, 1} /\ n = 2 * (n \div 2) + (n % 2) /\ Middle = n \div 2 + 1
  BY <1>1, Half DEF Middle
<1>7. (n + 1) \div 2 \in Nat /\ (n + 1) % 2 \in {0, 1} /\ n + 1 = 2 * ((n + 1) \div 2) + ((n + 1) % 2)
      /\ LowerRank = (n + 1) \div 2
  <2>1. PICK m \in Nat : m = n + 1
    BY <1>1
  <2>2. m \div 2 \in Nat /\ m % 2 \in {0, 1} /\ m = 2 * (m \div 2) + (m % 2)
    BY Half
  <2> QED BY <2>1, <2>2 DEF LowerRank
<1>8. PICK k \in Int : k \in {Middle, LowerRank} /\ IsRanked(Samples, k, v) /\ v \in Int
  <2>1. IsRanked(Samples, Middle, upper) /\ IsRanked(Samples, LowerRank, lower)
    BY <1>1, <1>5, RankedIs DEF upper, lower
  <2> QED BY <1>5, <2>1
<1>9. 2 * k >= n /\ 2 * (k - 1) <= n
  BY <1>1, <1>5, <1>6, <1>7, <1>8
<1> DEFINE A == {s \in Samples : data[s] >= v}
           B == AtMost(Samples, v)
<1>10. /\ A \subseteq Samples /\ Under(Samples, v) \subseteq Samples /\ A \cap Under(Samples, v) = {}
       /\ A \union Under(Samples, v) = Samples /\ \A s \in A : data[s] >= v
  BY <1>1, <1>8 DEF Under
<1>11. B \subseteq Samples /\ \A s \in B : data[s] <= v
  BY DEF AtMost
<1> HIDE DEF A
<1>12. /\ IsFiniteSet(A) /\ IsFiniteSet(Under(Samples, v)) /\ Cardinality(A) \in Nat
       /\ Cardinality(Under(Samples, v)) \in Nat /\ Cardinality(B) \in Nat
  BY <1>1, <1>10, <1>11, Counts
<1>13. 2 * Cardinality(A) >= n /\ 2 * Cardinality(B) >= n
  <2>1. Cardinality(A) + Cardinality(Under(Samples, v)) = n
    BY <1>1, <1>10, <1>12, Together
  <2>2. Cardinality(Under(Samples, v)) < k /\ k <= Cardinality(B)
    BY <1>8 DEF IsRanked
  <2> QED BY <1>1, <1>9, <1>12, <2>1, <2>2
<1> QED BY <1>8, <1>13 DEF A

(***************************************************************************)
(* The middle samples are within a standard deviation of the mean.         *)
(***************************************************************************)
LEMMA MiddleWithinSigma ==
  ASSUME DataOK, NEW v, v = upper \/ v = lower, NEW X, X = AllMoments.d1,
         NEW n, n = num_elems
  PROVE  /\ n * v \in Int
         /\ (n * v - X) * (n * v - X) <= ScaledVariance(AllMoments)
<1>1. n \in Nat \ {0} /\ Cardinality(Samples) = n /\ IsFiniteSet(Samples)
      /\ \A s \in Samples : data[s] \in Int
  BY DataFacts
<1>2. /\ \A s \in Samples : DataSquares[s] = data[s] * data[s]
      /\ X = SumOf(data, Samples) /\ X \in Int
  <2>1. X = SumOf(data, Samples)
    BY DEF AllMoments
  <2> QED BY <1>1, <2>1, SumIsInt DEF DataSquares
<1>3. PICK Q : Q = SumOf(DataSquares, Samples)
  OBVIOUS
<1>4. ScaledVariance(AllMoments) = n * Q - X * X
  BY <1>3 DEF ScaledVariance, AllMoments
<1> DEFINE A == {s \in Samples : data[s] >= v}
           B == AtMost(Samples, v)
<1>8. v \in Int /\ 2 * Cardinality(A) >= n /\ 2 * Cardinality(B) >= n
  BY EachSideHalf
<1>10. A \in SUBSET Samples /\ \A s \in A : data[s] >= v
  OBVIOUS
<1>11. B \in SUBSET Samples /\ \A s \in B : data[s] <= v
  BY DEF AtMost
<1> HIDE DEF A, B
<1>14. n * v \in Int
  BY <1>1, <1>8, SMT
<1>17. AreMoments(data, DataSquares, Samples, n, X, Q)
  BY <1>1, <1>2, <1>3 DEF AreMoments
<1>15. CASE n * v >= X
  <2>1. (n * v - X) * (n * v - X) <= n * Q - X * X
    BY <1>8, <1>10, <1>15, <1>17, HalfAbove
  <2> QED BY <1>4, <1>14, <2>1
<1>16. CASE n * v <= X
  <2>1. (n * v - X) * (n * v - X) <= n * Q - X * X
    BY <1>8, <1>11, <1>16, <1>17, HalfBelow
  <2> QED BY <1>4, <1>14, <2>1
<1> QED BY <1>2, <1>14, <1>15, <1>16

(***************************************************************************)
(* y * sqrt(x) / z, rounded up.                                            *)
(***************************************************************************)
LEMMA RootAboveIs ==
  ASSUME NEW x \in Nat, NEW y \in Nat, NEW z \in Nat \ {0}
  PROVE  /\ RootAbove(x, y, z) \in Nat
         /\ y * y * x <= RootAbove(x, y, z) * RootAbove(x, y, z) * z * z
<1> DEFINE Enough(r) == r * r * z * z >= y * y * x
           S == {r \in Nat : Enough(r)}
           top == y * (x + 1)
<1>1. top \in S /\ top \in Nat
  <2>1. PICK t \in Nat : t = y * (x + 1)
    BY SMT
  <2>2. t * t = y * y * x + y * y * (x * x + x + 1)
    BY <2>1, SMT
  <2>3. y * y * x \in Nat /\ y * y * (x * x + x + 1) \in Nat /\ t * t \in Nat
    BY SMT
  <2>4. t * t * z * z >= t * t
    <3>1. PICK u \in Nat : u = t * t
      BY SMT
    <3>2. u * z >= u /\ u * z \in Nat
      BY SMT
    <3>3. u * z * z >= u * z /\ u * z * z \in Nat
      BY <3>2, SMT
    <3> QED BY <3>1, <3>2, <3>3
  <2>5. t * t * z * z \in Nat
    BY SMT
  <2> QED BY <2>1, <2>2, <2>3, <2>4, <2>5
<1>2. PICK r \in S : \A m \in S : r <= m
  <2>1. S \subseteq Nat /\ S # {}
    BY <1>1
  <2> HIDE DEF S
  <2> QED BY <2>1, LeastNatural
<1>3. r \in Nat /\ Enough(r) /\ r <= top /\ r \in 0 .. top
  BY <1>1, <1>2
<1>4. r = 0 \/ (r - 1) * (r - 1) * z * z < y * y * x
  <2> SUFFICES ASSUME r # 0 PROVE (r - 1) * (r - 1) * z * z < y * y * x
    OBVIOUS
  <2>1. PICK p \in Nat : p = r - 1
    BY <1>3
  <2>2. p \notin S
    BY <1>2, <1>3, <2>1
  <2>3. p * p * z * z \in Int /\ y * y * x \in Int
    BY SMT
  <2>4. ~ (p * p * z * z >= y * y * x)
    BY <2>2
  <2> QED BY <2>1, <2>3, <2>4
<1>5. PICK R : R = RootAbove(x, y, z)
  OBVIOUS
<1>6. R \in 0 .. top /\ Enough(R)
  <2>1. R = CHOOSE s \in 0 .. top : Enough(s) /\ (s = 0 \/ (s - 1) * (s - 1) * z * z < y * y * x)
    BY <1>5 DEF RootAbove
  <2> HIDE DEF top
  <2>2. Enough(r)
    BY <1>3
  <2> HIDE DEF Enough
  <2> QED BY <1>3, <1>4, <2>1, <2>2
<1>7. R \in Nat
  <2> HIDE DEF top
  <2> QED BY <1>1, <1>6
<1>8. R * R * z * z \in Int /\ y * y * x \in Int
  BY <1>7, SMT
<1> QED BY <1>5, <1>6, <1>7, <1>8

(***************************************************************************)
(* The first interval holds the middle samples, and if sigma is large      *)
(* enough it is not narrower than is allowed.                              *)
(***************************************************************************)
LEMMA FirstIntervalFits ==
  ASSUME DataOK,
         ~ (4 * ScaledVariance(AllMoments) * MinRangeInv * MinRangeInv < num_elems * num_elems)
  PROVE  /\ FirstInterval(AllMoments) \in Intervals /\ Wide(FirstInterval(AllMoments))
         /\ \A v \in MiddleSamples : Between(v, FirstInterval(AllMoments))
<1>1. num_elems \in Nat \ {0} /\ IsFiniteSet(Samples) /\ Cardinality(Samples) = num_elems
      /\ \A s \in Samples : data[s] \in Int
  BY DataFacts
<1>2. PICK n \in Nat \ {0} : n = num_elems
  BY <1>1
<1>3. PICK X : X = AllMoments.d1
  OBVIOUS
<1>4. X \in Int
  <2>1. X = SumOf(data, Samples)
    BY <1>3 DEF AllMoments
  <2> QED BY <1>1, <2>1, SumIsInt
<1>5. PICK V \in Nat : V = ScaledVariance(AllMoments)
  <2>1. /\ n * upper \in Int
        /\ (n * upper - X) * (n * upper - X) <= ScaledVariance(AllMoments)
    BY <1>2, <1>3, MiddleWithinSigma
  <2>2. PICK c \in Int : c = n * upper - X
    BY <1>4, <2>1
  <2>3. c * c \in Nat
    BY SMT
  <2>4. ScaledVariance(AllMoments) \in Int
    <3>1. AllMoments.d2 = SumOf(DataSquares, Samples)
      BY DEF AllMoments
    <3>2. \A s \in Samples : DataSquares[s] \in Int
      <4>1. \A a \in Int : a * a \in Int
        BY SMT
      <4> QED BY <1>1, <4>1 DEF DataSquares
    <3>3. PICK Q \in Int : Q = AllMoments.d2
      BY <1>1, <3>1, <3>2, SumIsInt
    <3>4. n * Q - X * X \in Int
      BY <1>4, SMT
    <3> QED BY <1>2, <1>3, <3>3, <3>4 DEF ScaledVariance
  <2> QED BY <2>1, <2>2, <2>3, <2>4
<1>6. PICK m \in Nat \ {0}, Res \in Nat \ {0} : m = MinRangeInv /\ Res = Resolution
  BY BinMedianAssumption
<1>7. PICK r \in Nat : r = RootAbove(V, Res, n) /\ Res * Res * V <= r * r * n * n
  BY RootAboveIs
<1>8. PICK mean \in Int, rest \in 0 .. n - 1 : mean = (Res * X) \div n /\ Res * X = n * mean + rest
  <2>1. PICK d \in Int : d = Res * X
    BY <1>4, SMT
  <2>2. d \div n \in Int /\ d % n \in 0 .. n - 1 /\ d = n * (d \div n) + (d % n)
    BY Division
  <2> QED BY <2>1, <2>2
<1>9. FirstInterval(AllMoments) = [l |-> mean - r, w |-> 2 * r + 1, den |-> Res]
  BY <1>2, <1>3, <1>5, <1>6, <1>7, <1>8 DEF FirstInterval
<1>10. FirstInterval(AllMoments) \in Intervals
  BY <1>9 DEF Intervals
<1>11. Wide(FirstInterval(AllMoments))
  <2>1. n * n <= 4 * V * m * m
    <3>1. ~ (4 * V * m * m < n * n)
      BY <1>2, <1>5, <1>6
    <3>2. 4 * V * m * m \in Int /\ n * n \in Int
      BY SMT
    <3> QED BY <3>1, <3>2
  <2>2. PICK a \in Nat : a = Res * Res
    BY SMT
  <2>3. PICK b \in Nat : b = 4 * m * m
    BY SMT
  <2>4. a * (n * n) <= a * (b * V)
    <3>1. b * V = 4 * V * m * m
      BY <2>3, SMT
    <3>2. PICK p \in Nat, q \in Nat : p = n * n /\ q = b * V
      BY SMT
    <3>3. p <= q
      BY <2>1, <3>1, <3>2
    <3>4. a * p <= a * q
      BY <3>3, SMT
    <3> QED BY <3>2, <3>4
  <2>5. a * (b * V) = b * (a * V)
    BY SMT
  <2>6. b * (a * V) <= b * (r * r * n * n)
    <3>1. PICK p \in Nat, q \in Nat : p = a * V /\ q = r * r * n * n
      BY SMT
    <3>2. p <= q
      BY <1>7, <2>2, <3>1
    <3>3. b * p <= b * q
      BY <3>2, SMT
    <3> QED BY <3>1, <3>3
  <2>7. PICK e \in Nat, f \in Nat : e = Res * n /\ f = 2 * m * r * n
    BY SMT
  <2>8. e * e = a * (n * n) /\ f * f = b * (r * r * n * n)
    BY <2>2, <2>3, <2>7, SMT
  <2>9. e * e <= f * f
    <3>1. a * (n * n) \in Int /\ a * (b * V) \in Int /\ b * (r * r * n * n) \in Int
      BY SMT
    <3> QED BY <2>4, <2>5, <2>6, <2>8, <3>1
  <2>10. e <= f
    BY <2>9, SquareBounds
  <2>11. PICK g \in Nat : g = 2 * m * r
    BY SMT
  <2>12. Res * n <= g * n
    BY <2>7, <2>10, <2>11
  <2>13. Res <= g
    <3>1. g < Res => g * n < Res * n
      BY SMT
    <3>2. g * n \in Int /\ Res * n \in Int
      BY SMT
    <3> QED BY <2>12, <3>1, <3>2
  <2>14. (2 * r + 1) * m = g + m
    BY <2>11, SMT
  <2>15. Res <= (2 * r + 1) * m
    BY <2>13, <2>14
  <2> QED BY <1>6, <1>9, <2>15 DEF Wide
<1>12. ASSUME NEW v \in MiddleSamples PROVE Between(v, FirstInterval(AllMoments))
  <2>1. (v = upper \/ v = lower) /\ v \in Int
    BY MiddleFacts
  <2>2. /\ n * v \in Int /\ (n * v - X) * (n * v - X) <= V
    BY <1>2, <1>3, <1>5, <2>1, MiddleWithinSigma
  <2>3. PICK c \in Int : c = n * v - X
    BY <1>4, <2>2
  <2>4. c * c <= V
    BY <2>2, <2>3
  <2>5. PICK a \in Nat, h \in Nat : a = Res * Res /\ h = c * c
    BY SMT
  <2>6. a * h <= a * V
    BY <2>4, <2>5, SMT
  <2>7. PICK e \in Int, f \in Nat : e = Res * c /\ f = r * n
    BY SMT
  <2>8. e * e = a * h /\ f * f = r * r * n * n
    BY <2>5, <2>7, SMT
  <2>9. e * e <= f * f
    <3>1. a * h \in Int /\ a * V \in Int /\ f * f \in Int
      BY SMT
    <3> QED BY <1>7, <2>5, <2>6, <2>8, <3>1
  <2>10. -f <= e /\ e <= f
    BY <2>9, SquareBounds
  <2>11. PICK y \in Int : y = v * Res
    BY <2>1, SMT
  <2>12. n * y = e + Res * X
    BY <1>4, <2>1, <2>3, <2>7, <2>11, SMT
  <2>13. n * y = e + n * mean + rest
    <3>1. Res * X \in Int /\ n * mean \in Int
      BY <1>4, SMT
    <3> QED BY <1>8, <2>12, <3>1
  <2>14. n * (mean - r) = n * mean - f /\ n * (mean + r + 1) = n * mean + f + n
    BY <2>7, SMT
  <2>15. n * (mean - r) <= n * y /\ n * y < n * (mean + r + 1)
    <3>1. n * mean \in Int
      BY SMT
    <3> QED BY <2>10, <2>13, <2>14, <3>1
  <2>16. \A p \in Int : (y < p => n * y < n * p) /\ (p <= y => n * p <= n * y) /\ n * p \in Int
    BY SMT
  <2>17. mean - r <= y /\ y < mean + r + 1
    <3>1. mean - r \in Int /\ mean + r + 1 \in Int /\ n * y \in Int
      BY SMT
    <3> QED BY <2>15, <2>16, <3>1
  <2>18. mean - r <= y /\ y <= (mean - r) + (2 * r + 1)
    BY <2>17
  <2> QED BY <1>9, <2>11, <2>18 DEF Between
<1> QED BY <1>10, <1>11, <1>12

------------------------------------------------------------------------------
(* The approximation.                                                       *)

(***************************************************************************)
(* The bins that mat_median_binapprox takes are those of the middle        *)
(* samples.                                                                *)
(***************************************************************************)
LEMMA BinPairIs ==
  ASSUME IntervalOK, Binned
  PROVE  /\ Reaching(LowerRank) # {}
         /\ BinPair = <<Bin(lower, interval), Bin(upper, interval)>>
<1>1. DataOK /\ Ordered(interval) /\ N \in Nat
      /\ Bin(upper, interval) \in 0 .. N /\ Bin(lower, interval) \in 0 .. N
      /\ Bin(lower, interval) <= Bin(upper, interval)
  BY IntervalBins, BinMedianAssumption DEF IntervalOK
<1>2. /\ num_elems \in Nat /\ Middle \in 1 .. num_elems /\ LowerRank \in 1 .. num_elems
      /\ Middle \in Int /\ LowerRank \in Int
      /\ Even => LowerRank + 1 = Middle
      /\ ~ Even => lower = upper
  BY <1>1, MiddleFacts
<1>3. PICK i \in 0 .. N : i = Bin(Ranked(Samples, LowerRank), interval)
  BY <1>1 DEF lower
<1>4. PICK j \in 0 .. N : j = Bin(Ranked(Samples, Middle), interval)
  BY <1>1 DEF upper
<1>5. Reaching(LowerRank) # {} /\ Min(Reaching(LowerRank)) = i
  BY <1>1, <1>2, <1>3, BinReached
<1>6. /\ Reaching(Middle) # {} /\ Min(Reaching(Middle)) = j
      /\ Cardinality(BinnedUpto(j - 1)) < Middle /\ Middle <= Cardinality(BinnedUpto(j))
  BY <1>1, <1>2, <1>4, BinReached
<1>7. i <= j /\ i \in Int /\ j \in Int
  BY <1>1, <1>3, <1>4 DEF lower, upper
<1> DEFINE more == {k \in i .. N : Upto(k) > LowerRank}
<1>8. \A k \in 0 .. N : Upto(k) = Cardinality(BinnedUpto(k)) /\ Upto(k) \in Nat
  BY <1>1, CountsOfBins
<1>9. ASSUME Even PROVE more # {} /\ Min(more) = j
  <2>1. j \in more
    <3>1. Upto(j) >= Middle /\ Upto(j) \in Nat
      BY <1>6, <1>8
    <3>2. j \in i .. N
      BY <1>1, <1>7
    <3> QED BY <1>2, <1>9, <3>1, <3>2
  <2>2. more \subseteq Int
    BY <1>1, <1>7
  <2>3. ASSUME NEW k \in more PROVE j <= k
    <3>1. k \in 0 .. N /\ Upto(k) >= Middle
      <4>1. k \in 0 .. N
        BY <1>1, <1>3
      <4> QED BY <1>2, <1>8, <1>9, <4>1
    <3>2. k \in Reaching(Middle)
      BY <3>1 DEF Reaching
    <3>3. Reaching(Middle) \subseteq Int /\ Reaching(Middle) # {} /\ \A m \in Reaching(Middle) : 0 <= m
      BY <1>1, <3>2 DEF Reaching
    <3>4. PICK m \in Reaching(Middle) : \A q \in Reaching(Middle) : m <= q
      <4>1. PICK R : R = Reaching(Middle)
        OBVIOUS
      <4>2. PICK z \in Int : z = 0
        OBVIOUS
      <4>3. R \subseteq Int /\ R # {} /\ \A q \in R : z <= q
        BY <3>3, <4>1, <4>2
      <4> QED BY <4>1, <4>3, Lowest
    <3>5. m = j
      BY <1>6, <3>3, <3>4, MinIs
    <3> QED BY <3>2, <3>4, <3>5
  <2> HIDE DEF more
  <2> QED BY <2>1, <2>2, <2>3, MinIs
<1>10. BinPair = <<i, IF ~ Even THEN i ELSE IF more = {} THEN N ELSE Min(more)>>
  BY <1>5 DEF BinPair, LowerRank
<1> HIDE DEF more
<1>11. CASE Even
  <2>1. BinPair = <<i, j>>
    BY <1>9, <1>10, <1>11
  <2> QED BY <1>3, <1>4, <1>5, <2>1 DEF lower, upper
<1>12. CASE ~ Even
  <2>1. BinPair = <<i, i>>
    BY <1>10, <1>12
  <2> QED BY <1>2, <1>3, <1>5, <1>12, <2>1 DEF lower, upper
<1> QED BY <1>11, <1>12

(***************************************************************************)
(* The middle of the bins is within half a bin of the median.              *)
(***************************************************************************)
LEMMA BinsNearMedian ==
  ASSUME IntervalOK, Binned,
         NEW num, num = 2 * N * interval.l + (BinPair[1] + BinPair[2] + 1) * interval.w,
         NEW den, den = 2 * N * interval.den
  PROVE  /\ num \in Int /\ den \in Nat \ {0}
         /\ LET error == 2 * N * interval.den * (lower + upper) - 2 * num
            IN  -2 * interval.w <= error /\ error <= 2 * interval.w
<1>1. DataOK /\ N \in Nat \ {0} /\ N <= IntMax /\ interval \in Intervals
  BY IntervalBins, BinMedianAssumption DEF IntervalOK
<1>2. PICK l \in Int, w \in Nat \ {0}, d \in Nat \ {0} : l = interval.l /\ w = interval.w /\ d = interval.den
  BY <1>1 DEF Intervals
<1>3. PICK u \in Int, v \in Int : u = lower /\ v = upper
  BY <1>1, MiddleFacts
<1>4. Between(u, interval) /\ Between(v, interval)
  BY <1>1, <1>3, MiddleFacts DEF IntervalOK
<1>5. PICK i : i = Bin(u, interval)
  OBVIOUS
<1>6. i \in 0 .. N /\ i * w <= (u * d - l) * N /\ (u * d - l) * N < (i + 1) * w
  BY <1>1, <1>2, <1>4, <1>5, BinInside
<1>7. PICK j : j = Bin(v, interval)
  OBVIOUS
<1>8. j \in 0 .. N /\ j * w <= (v * d - l) * N /\ (v * d - l) * N < (j + 1) * w
  BY <1>1, <1>2, <1>4, <1>7, BinInside
<1>9. BinPair = <<i, j>>
  BY <1>3, <1>5, <1>7, BinPairIs
<1>10. i \in Nat /\ j \in Nat
  BY <1>1, <1>6, <1>8
<1>11. num = 2 * N * l + (i + j + 1) * w /\ den = 2 * N * d
  BY <1>2, <1>9
<1>12. num \in Int /\ den \in Nat \ {0}
  <2>1. 2 * N * l + (i + j + 1) * w \in Int
    BY <1>1, <1>10, SMT
  <2>2. 2 * N * d \in Nat \ {0}
    BY <1>1, SMT
  <2> QED BY <1>11, <2>1, <2>2
<1>13. PICK p \in Int, q \in Int : p = (u * d - l) * N /\ q = (v * d - l) * N
  BY <1>1, SMT
<1>14. PICK a \in Int, b \in Int : a = i * w /\ b = j * w
  BY <1>10, SMT
<1>15. a <= p /\ p < a + w /\ b <= q /\ q < b + w
  <2>1. (i + 1) * w = a + w /\ (j + 1) * w = b + w
    BY <1>10, <1>14, SMT
  <2> QED BY <1>6, <1>8, <1>13, <1>14, <2>1
<1>16. num = 2 * (N * l) + a + b + w
  <2>1. 2 * N * l + (i + j + 1) * w = 2 * (N * l) + i * w + j * w + w
    BY <1>1, <1>10, SMT
  <2> QED BY <1>11, <1>14, <2>1
<1>17. 2 * N * d * (u + v) = 2 * p + 2 * q + 4 * (N * l)
  BY <1>1, <1>13, SMT
<1>18. PICK e \in Int : e = N * l
  BY <1>1, SMT
<1>19. 2 * N * d * (u + v) - 2 * num = 2 * (p - a) + 2 * (q - b) - 2 * w
  BY <1>15, <1>16, <1>17, <1>18
<1>20. PICK x \in Int : x = 2 * N * d * (u + v) - 2 * num
  BY <1>19
<1>21. -2 * w <= x /\ x <= 2 * w
  BY <1>15, <1>19, <1>20
<1> QED BY <1>2, <1>3, <1>12, <1>20, <1>21

------------------------------------------------------------------------------
(* The invariant of the functions.                                          *)

\* The bins that were selected, in the last interval that was binned.
SelectedOK ==
  /\ oldinterval \in Intervals
  /\ oldmedbinsize \in Nat /\ oldmedbinsize = Cardinality(Selected)
  /\ MiddleSamples \subseteq {data[s] : s \in Selected}
  /\ kth \in 1 .. oldmedbinsize
  /\ Ranked(Selected, kth) = upper
  /\ Even => Ranked(Selected, kth - 1) = lower

\* What is returned.
MedianOK ==
  /\ median.num \in Int /\ median.den \in Nat \ {0}
  /\ ~ approx => median = MedianOf(Samples, Middle)
  /\ approx /\ interval # Undefined =>
       LET error == 2 * N * interval.den * (lower + upper) - 2 * median.num
       IN  -2 * interval.w <= error /\ error <= 2 * interval.w

MedianInv ==
  /\ mpc # "idle" => DataOK /\ Narrow
  /\ mpc = "stats" => interval = Undefined
  /\ mpc \notin {"idle", "stats"} => moments = AllMoments
  /\ mpc \in {"bin", "find", "approx"} => IntervalOK
  /\ mpc \in {"find", "approx"} => Binned
  /\ mpc = "approx" => approx
  /\ mpc \in {"find", "select"} => ~ approx
  /\ mpc = "exact" /\ approx => interval = Undefined
  /\ mpc = "select" => SelectedOK
  /\ mpc = "done" => MedianOK

LEMMA DataKept ==
  ASSUME data' = data
  PROVE  /\ Samples' = Samples /\ num_elems' = num_elems /\ DataOK' = DataOK /\ Narrow' = Narrow
         /\ Middle' = Middle /\ LowerRank' = LowerRank /\ Even' = Even
         /\ upper' = upper /\ lower' = lower /\ MiddleSamples' = MiddleSamples
         /\ AllMoments' = AllMoments /\ MedianOf(Samples, Middle)' = MedianOf(Samples, Middle)
BY DEF Samples, num_elems, DataOK, Narrow, Middle, LowerRank, Even, upper, lower, MiddleSamples,
       AllMoments, DataSquares, Ranked, MedianOf

(***************************************************************************)
(* The median of all samples is that of the middle one or two.             *)
(***************************************************************************)
LEMMA MedianIs ==
  ASSUME DataOK
  PROVE  /\ MedianOf(Samples, Middle) = IF Even THEN [num |-> upper + lower, den |-> 2]
                                        ELSE [num |-> upper, den |-> 1]
         /\ MedianOf(Samples, Middle).num \in Int /\ MedianOf(Samples, Middle).den \in Nat \ {0}
         /\ 2 * MedianOf(Samples, Middle).num = MedianOf(Samples, Middle).den * (lower + upper)
<1>1. /\ upper \in Int /\ lower \in Int
      /\ Even => LowerRank = Middle - 1
      /\ ~ Even => lower = upper
  BY MiddleFacts
<1>2. CASE Even
  <2>1. Ranked(Samples, Middle) = upper /\ Ranked(Samples, Middle - 1) = lower
    BY <1>1, <1>2 DEF upper, lower
  <2>2. MedianOf(Samples, Middle) = [num |-> upper + lower, den |-> 2]
    BY <1>2, <2>1 DEF MedianOf
  <2> QED BY <1>1, <1>2, <2>2
<1>3. CASE ~ Even
  <2>1. MedianOf(Samples, Middle) = [num |-> upper, den |-> 1]
    BY <1>3 DEF MedianOf, upper
  <2> QED BY <1>1, <1>3, <2>1
<1> QED BY <1>2, <1>3

LEMMA MeanKeeps ==
  ASSUME MedianInv, MeanAndStddev
  PROVE  MedianInv'
<1>1. /\ mpc = "stats" /\ mpc' \in {"exact", "bin"} /\ DataOK /\ Narrow /\ interval = Undefined
      /\ data' = data /\ approx' = approx
  BY DEF MedianInv, MeanAndStddev
<1>2. moments' = AllMoments
  <2>1. PICK grain \in Nat \ {0} : grain = 8
    OBVIOUS
  <2>2. PICK ranges \in Ranges(grain) : moments' = Totals(ranges)
    BY <2>1 DEF MeanAndStddev
  <2> QED BY <1>1, <2>2, TotalsAre
<1>3. /\ DataOK' /\ Narrow' /\ AllMoments' = AllMoments /\ MiddleSamples' = MiddleSamples
  BY <1>1, DataKept
<1>4. CASE mpc' = "exact"
  <2>1. interval' = interval
    BY <1>4 DEF MeanAndStddev
  <2> QED BY <1>1, <1>2, <1>3, <1>4, <2>1 DEF MedianInv, Undefined
<1>5. CASE mpc' = "bin"
  <2>1. /\ ~ (4 * ScaledVariance(AllMoments) * MinRangeInv * MinRangeInv < num_elems * num_elems)
        /\ interval' = FirstInterval(AllMoments)
    BY <1>2, <1>5 DEF MeanAndStddev
  <2>2. /\ interval' \in Intervals /\ Wide(interval')
        /\ \A v \in MiddleSamples : Between(v, interval')
    BY <1>1, <2>1, FirstIntervalFits
  <2>3. IntervalOK'
    BY <1>3, <2>2 DEF IntervalOK, Wide, Between
  <2> QED BY <1>2, <1>3, <1>5, <2>3 DEF MedianInv
<1> QED BY <1>1, <1>4, <1>5

LEMMA BinKeeps ==
  ASSUME MedianInv, BinData
  PROVE  MedianInv'
<1>1. /\ mpc = "bin" /\ mpc' = (IF approx THEN "approx" ELSE "find") /\ DataOK /\ Narrow
      /\ IntervalOK /\ moments = AllMoments
      /\ data' = data /\ approx' = approx /\ interval' = interval /\ moments' = moments
  BY DEF MedianInv, BinData
<1>2. PICK grain \in Nat \ {0}, step \in Nat \ {0} : grain = 4 /\ step = 2
  OBVIOUS
<1>3. PICK ranges \in Ranges(grain) :
        /\ bottomcount' = CountOver(ranges, step, {s \in Samples : Bin(data[s], interval) < 0})
        /\ bincounts' = [i \in 0 .. N |-> CountOver(ranges, step, BinnedAt(i))]
  BY <1>2 DEF BinData, Counted, BinnedAt
<1>4. \A S \in SUBSET Samples : CountOver(ranges, step, S) = Cardinality(S)
  BY <1>1, CountOverAll
<1>5. bottomcount' = Cardinality({s \in Samples : Bin(data[s], interval) < 0})
  <2>1. {s \in Samples : Bin(data[s], interval) < 0} \in SUBSET Samples
    OBVIOUS
  <2> QED BY <1>3, <1>4, <2>1
<1>6. bincounts' = [i \in 0 .. N |-> Cardinality(BinnedAt(i))]
  <2>1. \A i : BinnedAt(i) \in SUBSET Samples
    BY DEF BinnedAt
  <2>2. \A i \in 0 .. N : CountOver(ranges, step, BinnedAt(i)) = Cardinality(BinnedAt(i))
    BY <1>4, <2>1
  <2> QED BY <1>3, <2>2
<1>7. /\ Samples' = Samples /\ DataOK' /\ Narrow' /\ AllMoments' = AllMoments
      /\ MiddleSamples' = MiddleSamples
  BY <1>1, DataKept
<1>8. Binned'
  BY <1>1, <1>5, <1>6, <1>7 DEF Binned, BinnedAt, Bin
<1>9. IntervalOK'
  BY <1>1, <1>7 DEF IntervalOK, Wide, Between
<1> QED BY <1>1, <1>7, <1>8, <1>9 DEF MedianInv

LEMMA FindKeeps ==
  ASSUME MedianInv, FindMedianBin
  PROVE  MedianInv'
<1>1. /\ mpc = "find" /\ DataOK /\ Narrow /\ IntervalOK /\ Binned /\ moments = AllMoments /\ ~ approx
      /\ data' = data /\ approx' = approx /\ moments' = moments
  BY DEF MedianInv, FindMedianBin
<1>2. PICK right : right = Min(Reaching(Middle))
  OBVIOUS
<1>3. PICK rank : rank = Middle - (Upto(right) - bincounts[right])
  OBVIOUS
<1>4. PICK left : left = IF Extends(rank) /\ NonEmptyBelow(right) # {} THEN Max(NonEmptyBelow(right)) ELSE right
  OBVIOUS
<1>5. PICK size : size = SumOf(bincounts, left .. right)
  OBVIOUS
<1>6. PICK k : k = IF left = right THEN rank ELSE rank + bincounts[left]
  OBVIOUS
<1>7. Selection(left, right, size, k)
  BY <1>2, <1>3, <1>4, <1>5, <1>6 DEF Selection
<1>8. /\ Reaching(Middle) # {} /\ (Extends(rank) => NonEmptyBelow(right) # {})
      /\ left \in 0 .. N /\ right \in 0 .. N /\ left <= right
      /\ size \in Nat /\ size = Cardinality(InBins(left, right))
      /\ k \in 1 .. size /\ Ranked(InBins(left, right), k) = upper
      /\ Even => k - 1 \in 1 .. size /\ Ranked(InBins(left, right), k - 1) = lower
      /\ MiddleSamples \subseteq {data[s] : s \in InBins(left, right)}
      /\ Bin(upper, interval) \in left .. right /\ Bin(lower, interval) \in left .. right
  BY <1>1, <1>3, <1>7, SelectedPart
<1>9. /\ right_medbin' = right /\ left_medbin' = left /\ kth' = k
      /\ oldinterval' = interval /\ oldmedbinsize' = size
      /\ interval' = Refined(interval, left, right)
      /\ mpc' = IF LastBinning(size, interval') THEN "select" ELSE "bin"
  BY <1>2, <1>3, <1>4, <1>5, <1>6, <1>8 DEF FindMedianBin
<1>10. /\ Samples' = Samples /\ DataOK' /\ Narrow' /\ AllMoments' = AllMoments
       /\ MiddleSamples' = MiddleSamples /\ upper' = upper /\ lower' = lower /\ Even' = Even
  BY <1>1, DataKept
<1>11. interval \in Intervals
  BY <1>1 DEF IntervalOK
<1>12. CASE ~ LastBinning(size, interval')
  <2>1. /\ interval' \in Intervals
        /\ \A v \in Int : Between(v, interval) /\ Bin(v, interval) \in left .. right => Between(v, interval')
    BY <1>1, <1>8, <1>9, <1>11, IntervalBins, RefinedHolds
  <2>2. Wide(interval')
    <3>1. ~ (interval'.w * MinRangeInv < interval'.den)
      BY <1>12 DEF LastBinning
    <3>2. PICK w \in Nat \ {0}, d \in Nat \ {0} : w = interval'.w /\ d = interval'.den
      BY <2>1 DEF Intervals
    <3>3. w * MinRangeInv \in Int
      BY BinMedianAssumption, SMT
    <3> QED BY <3>1, <3>2, <3>3 DEF Wide
  <2>3. \A v \in MiddleSamples : Between(v, interval')
    <3>1. MiddleSamples = {lower, upper} /\ lower \in Int /\ upper \in Int
      BY <1>1, MiddleFacts
    <3> QED BY <1>1, <1>8, <2>1, <3>1 DEF IntervalOK
  <2>4. IntervalOK'
    BY <1>10, <2>1, <2>2, <2>3 DEF IntervalOK, Wide, Between
  <2> QED BY <1>1, <1>9, <1>10, <1>12, <2>4 DEF MedianInv
<1>13. CASE LastBinning(size, interval')
  <2>1. Selected' = InBins(left, right)
    BY <1>1, <1>9, <1>10 DEF Selected, InBins, Bin
  <2>2. PICK S : S = InBins(left, right)
    OBVIOUS
  <2>3. \A r : Ranked(S, r)' = Ranked(S, r)
    BY <1>1 DEF Ranked
  <2>4. SelectedOK'
    <3>1. Ranked(Selected, kth)' = Ranked(S, k)
      BY <1>1, <1>9, <2>1, <2>2 DEF Ranked
    <3>2. Ranked(Selected, kth - 1)' = Ranked(S, k - 1)
      BY <1>1, <1>9, <2>1, <2>2 DEF Ranked
    <3> QED BY <1>1, <1>8, <1>9, <1>10, <1>11, <2>1, <2>2, <3>1, <3>2 DEF SelectedOK
  <2> QED BY <1>1, <1>9, <1>10, <1>13, <2>4 DEF MedianInv
<1> QED BY <1>12, <1>13

LEMMA SelectKeeps ==
  ASSUME MedianInv, SelectFromBin
  PROVE  MedianInv'
<1>1. /\ mpc = "select" /\ mpc' = "done" /\ DataOK /\ Narrow /\ moments = AllMoments /\ ~ approx /\ SelectedOK
      /\ data' = data /\ approx' = approx /\ moments' = moments /\ interval' = interval
      /\ median' = MedianOf(Selected, kth)
  BY DEF MedianInv, SelectFromBin, binvars
<1>2. /\ DataOK' /\ Narrow' /\ AllMoments' = AllMoments
      /\ MedianOf(Samples, Middle)' = MedianOf(Samples, Middle)
  BY <1>1, DataKept
<1>3. median' = MedianOf(Samples, Middle)
  <2>1. MedianOf(Samples, Middle) = IF Even THEN [num |-> upper + lower, den |-> 2]
                                    ELSE [num |-> upper, den |-> 1]
    BY <1>1, MedianIs
  <2> QED BY <1>1, <2>1 DEF MedianOf, SelectedOK
<1>4. MedianOK'
  BY <1>1, <1>2, <1>3, MedianIs DEF MedianOK
<1> QED BY <1>1, <1>2, <1>4 DEF MedianInv

LEMMA ExactKeeps ==
  ASSUME MedianInv, MedianExactly
  PROVE  MedianInv'
<1>1. /\ mpc = "exact" /\ mpc' = "done" /\ DataOK /\ Narrow /\ moments = AllMoments
      /\ approx => interval = Undefined
      /\ data' = data /\ approx' = approx /\ moments' = moments /\ interval' = interval
      /\ median' = MedianOf(Samples, Middle)
  BY DEF MedianInv, MedianExactly, binvars
<1>2. /\ DataOK' /\ Narrow' /\ AllMoments' = AllMoments
      /\ MedianOf(Samples, Middle)' = MedianOf(Samples, Middle)
  BY <1>1, DataKept
<1>3. MedianOK'
  BY <1>1, <1>2, MedianIs DEF MedianOK, Undefined
<1> QED BY <1>1, <1>2, <1>3 DEF MedianInv

LEMMA ApproximateKeeps ==
  ASSUME MedianInv, ApproximateMedian
  PROVE  MedianInv'
<1>1. /\ mpc = "approx" /\ DataOK /\ Narrow /\ moments = AllMoments /\ approx /\ IntervalOK /\ Binned
      /\ data' = data /\ approx' = approx /\ moments' = moments /\ interval' = interval
  BY DEF MedianInv, ApproximateMedian, binvars
<1>2. /\ DataOK' /\ Narrow' /\ AllMoments' = AllMoments /\ upper' = upper /\ lower' = lower
  BY <1>1, DataKept
<1>3. /\ mpc' = "done"
      /\ median' = [num |-> 2 * N * interval.l + (BinPair[1] + BinPair[2] + 1) * interval.w,
                    den |-> 2 * N * interval.den]
  <2>1. Reaching((num_elems + 1) \div 2) # {}
    BY <1>1, BinPairIs DEF LowerRank
  <2> QED BY <2>1 DEF ApproximateMedian
<1>4. PICK num, den : median' = [num |-> num, den |-> den]
                      /\ num = 2 * N * interval.l + (BinPair[1] + BinPair[2] + 1) * interval.w
                      /\ den = 2 * N * interval.den
  BY <1>3
<1>5. /\ num \in Int /\ den \in Nat \ {0}
      /\ LET error == 2 * N * interval.den * (lower + upper) - 2 * num
         IN  -2 * interval.w <= error /\ error <= 2 * interval.w
  BY <1>1, <1>4, BinsNearMedian
<1>6. MedianOK'
  BY <1>1, <1>2, <1>4, <1>5 DEF MedianOK
<1> QED BY <1>1, <1>2, <1>3, <1>6 DEF MedianInv

LEMMA MedianStepKeeps ==
  ASSUME MedianInv, MedianStep
  PROVE  MedianInv'
BY MeanKeeps, BinKeeps, FindKeeps, SelectKeeps, ExactKeeps, ApproximateKeeps DEF MedianStep

(***************************************************************************)
(* The caller takes the result, calls with new data, or does neither.      *)
(***************************************************************************)
LEMMA MedianCallersKeep ==
  ASSUME MedianInv,
         \/ mpc' = "idle"
         \/ mpc' = "stats" /\ mpc = "idle" /\ interval' = Undefined /\ DataOK' /\ Narrow'
         \/ UNCHANGED medianvars
  PROVE  MedianInv'
<1>1. CASE mpc' = "idle"
  BY <1>1 DEF MedianInv
<1>2. CASE mpc' = "stats" /\ mpc = "idle" /\ interval' = Undefined /\ DataOK' /\ Narrow'
  BY <1>2 DEF MedianInv, Undefined
<1>3. CASE UNCHANGED medianvars
  <2>1. /\ mpc' = mpc /\ data' = data /\ approx' = approx /\ interval' = interval
        /\ oldinterval' = oldinterval /\ bottomcount' = bottomcount /\ bincounts' = bincounts
        /\ kth' = kth /\ oldmedbinsize' = oldmedbinsize /\ left_medbin' = left_medbin
        /\ right_medbin' = right_medbin /\ moments' = moments /\ median' = median
    BY <1>3 DEF medianvars, binvars
  <2>2. /\ Samples' = Samples /\ DataOK' = DataOK /\ Narrow' = Narrow /\ AllMoments' = AllMoments
        /\ MiddleSamples' = MiddleSamples /\ upper' = upper /\ lower' = lower /\ Even' = Even
        /\ MedianOf(Samples, Middle)' = MedianOf(Samples, Middle)
    BY <2>1, DataKept
  <2>3. IntervalOK' = IntervalOK /\ Binned' = Binned
    BY <2>1, <2>2 DEF IntervalOK, Wide, Between, Binned, BinnedAt, Bin
  <2>4. SelectedOK' = SelectedOK
    BY <2>1, <2>2 DEF SelectedOK, Selected, Bin, Ranked
  <2>5. MedianOK' = MedianOK
    BY <2>1, <2>2 DEF MedianOK, Undefined
  <2> QED BY <2>1, <2>2, <2>3, <2>4, <2>5 DEF MedianInv, Undefined
<1> QED BY <1>1, <1>2, <1>3

LEMMA MedianInvImplies ==
  ASSUME MedianInv
  PROVE  MedianExact /\ MiddleStaysBinned /\ ApproxWithinBin
<1>1. MedianExact
  <2> SUFFICES ASSUME mpc = "done", ~ approx
               PROVE  2 * median.num = median.den * (lower + upper)
    BY DEF MedianExact, lower, upper, LowerRank
  <2>1. median = MedianOf(Samples, Middle) /\ DataOK
    BY DEF MedianInv, MedianOK
  <2> QED BY <2>1, MedianIs
<1>2. MiddleStaysBinned
  <2>1. ASSUME mpc \in {"bin", "find"} PROVE \A v \in MiddleSamples : Bin(v, interval) \in 0 .. N
    <3>1. IntervalOK
      BY <2>1 DEF MedianInv
    <3>2. MiddleSamples = {lower, upper}
      BY <3>1, MiddleFacts DEF IntervalOK
    <3> QED BY <3>1, <3>2, IntervalBins
  <2>2. ASSUME mpc = "select"
        PROVE  /\ oldinterval # Undefined
               /\ Cardinality(Selected) = oldmedbinsize
               /\ MiddleSamples \subseteq {data[s] : s \in Selected}
               /\ kth \in 1 .. oldmedbinsize
               /\ Ranked(Selected, kth) = Ranked(Samples, Middle)
    <3>1. SelectedOK
      BY <2>2 DEF MedianInv
    <3>2. oldinterval # Undefined
      BY <3>1 DEF SelectedOK, Intervals, Undefined
    <3> QED BY <3>1, <3>2 DEF SelectedOK, upper
  <2> QED BY <2>1, <2>2 DEF MiddleStaysBinned
<1>3. ApproxWithinBin
  BY DEF MedianInv, MedianOK, ApproxWithinBin, lower, upper, LowerRank
<1> QED BY <1>1, <1>2, <1>3

------------------------------------------------------------------------------
(* Sigma clipping.                                                          *)

(***************************************************************************)
(* Of n numbers, p are at least e greater than f others: the distance      *)
(* between the two groups is at most that which the variance allows.       *)
(***************************************************************************)
Apart(x, F, P, e) == \A s \in F, t \in P : x[t] - x[s] >= e

LEMMA SquareOfApart ==
  ASSUME NEW p \in Nat, NEW f \in Nat, NEW R \in Int, NEW T \in Int
  PROVE  (f * R - p * T) * (f * R - p * T) <= (p + f) * (p * (T * T) + f * (R * R))
<1>1. PICK a \in Int, b \in Int : a = T * T /\ b = R * R
  <2>1. T * T \in Int /\ R * R \in Int
    BY SMT
  <2> QED BY <2>1
<1>2. PICK c \in Int, d \in Nat : c = R * T /\ d = (R + T) * (R + T)
  <2>1. R * T \in Int /\ (R + T) * (R + T) \in Nat
    BY SMT
  <2> QED BY <2>1
<1>3. d = a + b + 2 * c
  BY <1>1, <1>2, SMT
<1>4. (f * R - p * T) * (f * R - p * T) = (f * f) * b + (p * p) * a - 2 * ((p * f) * c)
  BY <1>1, <1>2, SMT
<1>5. (p + f) * (p * a + f * b) = (p * p) * a + (f * f) * b + (p * f) * a + (p * f) * b
  BY SMT
<1>6. (p * f) * d = (p * f) * a + (p * f) * b + 2 * ((p * f) * c)
  BY <1>3, SMT
<1>7. (p * f) * d >= 0
  BY SMT
<1>8. /\ (p * f) * d \in Int /\ (p * f) * a \in Int /\ (p * f) * b \in Int /\ (p * f) * c \in Int
      /\ (p * p) * a \in Int /\ (f * f) * b \in Int
  BY SMT
<1>9. (f * R - p * T) * (f * R - p * T) <= (p + f) * (p * a + f * b)
  BY <1>4, <1>5, <1>6, <1>7, <1>8
<1> QED BY <1>1, <1>9

\* Of a finite number of integers one is the greatest.
LEMMA GreatestOf ==
  ASSUME NEW F, IsFiniteSet(F), F # {}, NEW y, \A s \in F : y[s] \in Int
  PROVE  \E m \in F : \A s \in F : y[s] <= y[m]
<1> DEFINE G == {t \in SUBSET F : t # {} => \E m \in t : \A s \in t : y[s] <= y[m]}
<1>1. ASSUME NEW t \in SUBSET F, \A u \in SUBSET t : u # t => u \in G
      PROVE  t \in G
  <2>1. CASE t = {}
    BY <2>1
  <2>2. CASE t # {}
    <3>1. PICK c \in t : TRUE
      BY <2>2
    <3>2. t \ {c} \in G
      BY <1>1, <3>1
    <3>3. CASE t \ {c} = {}
      <4>1. \A s \in t : s = c
        BY <3>3
      <4>2. \A s \in t : y[s] <= y[c]
        BY <4>1
      <4> QED BY <4>2
    <3>4. CASE t \ {c} # {}
      <4>1. PICK m \in t \ {c} : \A s \in t \ {c} : y[s] <= y[m]
        BY <3>2, <3>4
      <4>2. CASE y[m] <= y[c]
        <5>1. \A s \in t : y[s] <= y[c]
          BY <4>1, <4>2
        <5> QED BY <5>1
      <4>3. CASE ~ (y[m] <= y[c])
        <5>1. \A s \in t : y[s] <= y[m]
          BY <4>1, <4>3
        <5> QED BY <4>1, <5>1
      <4> QED BY <4>2, <4>3
    <3> QED BY <3>3, <3>4
  <2> QED BY <2>1, <2>2
<1>2. (SUBSET F) \subseteq G
  <2> HIDE DEF G
  <2> QED BY <1>1, SubsetInduction
<1> QED BY <1>2

LEMMA GroupSums ==
  ASSUME NEW F, IsFiniteSet(F), NEW P, IsFiniteSet(P), NEW y, \A s \in F \union P : y[s] \in Int,
         NEW d \in Int, Apart(y, F, P, d), NEW f, f = Cardinality(F), NEW p, p = Cardinality(P),
         F # {}
  PROVE  (p * f) * d <= f * SumOf(y, P) - p * SumOf(y, F)
<1>1. PICK m \in F : \A s \in F : y[s] <= y[m]
  BY GreatestOf
<1>2. PICK k \in Int : k = y[m]
  OBVIOUS
<1>3. PICK j \in Int : j = k + d
  OBVIOUS
<1>4. \A s \in F : y[s] \in Int /\ y[s] <= k
  BY <1>1, <1>2
<1>5. \A t \in P : y[t] \in Int /\ j <= y[t]
  <2>1. \A t \in P : y[t] - y[m] >= d
    BY <1>1 DEF Apart
  <2> QED BY <1>2, <1>3, <2>1
<1>6. f \in Nat /\ p \in Nat
  BY FS_CardinalityType
<1>7. PICK T \in Int, R \in Int : T = SumOf(y, F) /\ R = SumOf(y, P)
  BY <1>4, <1>5, SumIsInt
<1>8. T <= k * f
  <2>1. PICK w : w = [s \in F |-> k]
    OBVIOUS
  <2>2. \A s \in F : y[s] \in Int /\ w[s] \in Int /\ y[s] <= w[s]
    BY <1>4, <2>1
  <2>3. SumOf(y, F) <= SumOf(w, F)
    BY <2>2, SumMonotone
  <2>4. \A s \in F : w[s] = k
    BY <2>1
  <2>5. SumOf(w, F) = k * Cardinality(F)
    BY <2>4, SumConstant
  <2> QED BY <1>7, <2>3, <2>5
<1>9. R >= j * p
  <2>1. PICK w : w = [s \in P |-> j]
    OBVIOUS
  <2>2. \A s \in P : w[s] \in Int /\ y[s] \in Int /\ w[s] <= y[s]
    BY <1>5, <2>1
  <2>3. SumOf(w, P) <= SumOf(y, P)
    BY <2>2, SumMonotone
  <2>4. \A s \in P : w[s] = j
    BY <2>1
  <2>5. SumOf(w, P) = j * Cardinality(P)
    BY <2>4, SumConstant
  <2> QED BY <1>7, <2>3, <2>5
<1>10. f * R >= f * (j * p)
  <2>1. PICK g \in Int : g = j * p
    BY <1>6, SMT
  <2>2. R >= g
    BY <1>9, <2>1
  <2>3. f * R >= f * g
    BY <1>6, <2>2, SMT
  <2> QED BY <2>1, <2>3
<1>11. p * T <= p * (k * f)
  <2>1. PICK g \in Int : g = k * f
    BY <1>6, SMT
  <2>2. T <= g
    BY <1>8, <2>1
  <2>3. p * T <= p * g
    BY <1>6, <2>2, SMT
  <2> QED BY <2>1, <2>3
<1>12. f * (j * p) - p * (k * f) = (p * f) * d
  BY <1>3, <1>6, SMT
<1>13. f * R \in Int /\ p * T \in Int /\ f * (j * p) \in Int /\ p * (k * f) \in Int
  BY <1>6, SMT
<1>14. (p * f) * d <= f * R - p * T
  BY <1>10, <1>11, <1>12, <1>13
<1> QED BY <1>7, <1>14

LEMMA Separated ==
  ASSUME NEW x, NEW q, NEW S, NEW n, NEW X, NEW Q, AreMoments(x, q, S, n, X, Q),
         NEW F \in SUBSET S, NEW P \in SUBSET S, F \cap P = {}, F # {}, P # {},
         NEW e \in Nat, Apart(x, F, P, e),
         NEW f, f = Cardinality(F), NEW p, p = Cardinality(P)
  PROVE  (p * f) * (n * (e * e)) <= (p + f) * (n * Q - X * X)
<1>1. PICK y : y = [s \in S |-> n * x[s] - X]
  OBVIOUS
<1>2. PICK z : z = [s \in S |-> y[s] * y[s]]
  OBVIOUS
<1>3. AreDeviations(y, z, x, S, n, X)
  BY <1>1, <1>2 DEF AreDeviations
<1>4. \A s \in S : y[s] \in Int /\ z[s] \in Nat
  BY <1>3, AboutMean
<1>5. SumOf(z, S) = n * (n * Q - X * X)
  BY <1>3, AboutMean
<1>6. IsFiniteSet(S) /\ n = Cardinality(S) /\ n \in Nat /\ X \in Int /\ Q \in Int
  BY MomentsAre
<1>7. \A s \in S : x[s] \in Int
  BY MomentsAre
<1>8. IsFiniteSet(F) /\ IsFiniteSet(P)
  BY <1>6, FS_Subset
<1>9. f \in Nat \ {0} /\ p \in Nat \ {0}
  BY <1>8, FS_CardinalityType, FS_EmptySet
<1>10. PICK d \in Int : d = n * e
  BY <1>6, SMT
<1>11. Apart(y, F, P, d)
  <2>1. SUFFICES ASSUME NEW s \in F, NEW t \in P
                 PROVE  y[t] - y[s] >= d
    BY DEF Apart
  <2>2. PICK a \in Int, b \in Int : a = x[s] /\ b = x[t]
    BY <1>7
  <2>3. b - a >= e
    BY <2>2 DEF Apart
  <2>4. PICK c \in Int : c = b - a
    OBVIOUS
  <2>5. n * c >= n * e
    BY <1>6, <2>3, <2>4, SMT
  <2>6. (n * b - X) - (n * a - X) = n * c
    BY <1>6, <2>4, SMT
  <2>7. y[s] = n * a - X /\ y[t] = n * b - X
    BY <1>1, <2>2
  <2> QED BY <1>10, <2>5, <2>6, <2>7
<1>12. (p * f) * d <= f * SumOf(y, P) - p * SumOf(y, F)
  <2>1. \A s \in F \union P : y[s] \in Int
    BY <1>4
  <2> QED BY <1>8, <1>11, <2>1, GroupSums
<1>13. PICK T \in Int, R \in Int : T = SumOf(y, F) /\ R = SumOf(y, P)
  <2>1. SumOf(y, F) \in Int
    BY <1>4, <1>8, SumIsInt
  <2>2. SumOf(y, P) \in Int
    BY <1>4, <1>8, SumIsInt
  <2> QED BY <2>1, <2>2
<1>14. PICK U \in Int, W \in Int : U = SumOf(z, F) /\ W = SumOf(z, P)
  <2>1. SumOf(z, F) \in Int
    BY <1>4, <1>8, SumIsInt
  <2>2. SumOf(z, P) \in Int
    BY <1>4, <1>8, SumIsInt
  <2> QED BY <2>1, <2>2
<1>15. T * T <= f * U
  <2>1. \A s \in F : y[s] \in Int /\ z[s] = y[s] * y[s]
    BY <1>2, <1>4
  <2> QED BY <1>8, <1>13, <1>14, <2>1, SumSquares
<1>16. R * R <= p * W
  <2>1. \A s \in P : y[s] \in Int /\ z[s] = y[s] * y[s]
    BY <1>2, <1>4
  <2> QED BY <1>8, <1>13, <1>14, <2>1, SumSquares
<1>17. PICK V \in Int : V = n * Q - X * X
  BY <1>6, SMT
<1>18. U + W <= n * V
  <2>1. PICK O : O = S \ (F \union P)
    OBVIOUS
  <2>2. IsFiniteSet(F \union P) /\ IsFiniteSet(O) /\ (F \union P) \cap O = {} /\ S = (F \union P) \union O
    <3>1. IsFiniteSet(F \union P)
      BY <1>8, FS_Union
    <3>2. O \subseteq S
      BY <2>1
    <3>3. IsFiniteSet(O)
      BY <1>6, <3>2, FS_Subset
    <3>4. (F \union P) \cap O = {} /\ S = (F \union P) \union O
      BY <2>1
    <3> QED BY <3>1, <3>3, <3>4
  <2>3. SumOf(z, F \union P) = U + W
    <3>1. \A s \in F \union P : z[s] \in Int
      BY <1>4
    <3> QED BY <1>8, <1>14, <3>1, SumUnion
  <2>4. SumOf(z, (F \union P) \union O) = SumOf(z, F \union P) + SumOf(z, O)
    <3>1. \A s \in (F \union P) \union O : z[s] \in Int
      BY <1>4, <2>2
    <3> QED BY <2>2, <3>1, SumUnion
  <2>5. \A s \in O : z[s] \in Int /\ 0 <= z[s]
    BY <1>4, <2>1
  <2>6. SumOf(z, O) \in Int
    BY <2>2, <2>5, SumIsInt
  <2>7. SumOf(z, O) >= 0
    <3>1. PICK w : w = [s \in O |-> 0]
      OBVIOUS
    <3>2. PICK o \in Int : o = 0
      OBVIOUS
    <3>3. \A s \in O : w[s] \in Int /\ z[s] \in Int /\ w[s] <= z[s]
      BY <2>5, <3>1
    <3>4. SumOf(w, O) <= SumOf(z, O)
      BY <2>2, <3>3, SumMonotone
    <3>5. SumOf(w, O) = o * Cardinality(O)
      BY <2>2, <3>1, <3>2, SumConstant
    <3>6. Cardinality(O) \in Nat
      BY <2>2, FS_CardinalityType
    <3> QED BY <2>6, <3>2, <3>4, <3>5, <3>6
  <2> QED BY <1>5, <1>14, <1>17, <2>2, <2>3, <2>4, <2>6, <2>7
<1>19. PICK G \in Int, H \in Nat : G = f * R - p * T /\ H = (p * f) * d
  <2>1. d >= 0
    BY <1>6, <1>10, SMT
  <2>2. (p * f) * d \in Nat
    BY <1>9, <2>1, SMT
  <2>3. f * R - p * T \in Int
    BY <1>9, SMT
  <2> QED BY <2>2, <2>3
<1>20. H <= G
  BY <1>12, <1>13, <1>19
<1>21. H * H <= G * G
  <2>1. H * H <= H * G /\ H * G <= G * G
    BY <1>20, SMT
  <2>2. H * H \in Int /\ H * G \in Int /\ G * G \in Int
    BY SMT
  <2> QED BY <2>1, <2>2
<1>22. G * G <= (p + f) * (p * (T * T) + f * (R * R))
  BY <1>9, <1>19, SquareOfApart
<1>23. (p + f) * (p * (T * T) + f * (R * R)) <= (p + f) * ((p * f) * (n * V))
  <2>1. PICK a \in Int, b \in Int, c \in Int, g \in Int : a = T * T /\ b = R * R /\ c = f * U /\ g = p * W
    <3>1. T * T \in Int /\ R * R \in Int /\ f * U \in Int /\ p * W \in Int
      BY <1>9, SMT
    <3> QED BY <3>1
  <2>2. a <= c /\ b <= g
    BY <1>15, <1>16, <2>1
  <2>3. p * a <= p * c /\ f * b <= f * g
    BY <1>9, <2>2, SMT
  <2>4. PICK h \in Int, i \in Int : h = U + W /\ i = n * V
    BY <1>6, SMT
  <2>5. p * c + f * g = (p * f) * h
    BY <1>9, <2>1, <2>4, SMT
  <2>6. (p * f) * h <= (p * f) * i
    <3>1. h <= i
      BY <1>18, <2>4
    <3>2. p * f \in Nat
      BY <1>9, SMT
    <3> QED BY <3>1, <3>2, SMT
  <2>7. PICK j \in Int, k \in Int : j = p * a + f * b /\ k = (p * f) * i
    BY <1>9, SMT
  <2>8. j <= k
    <3>1. p * a \in Int /\ f * b \in Int /\ p * c \in Int /\ f * g \in Int /\ (p * f) * h \in Int
      BY <1>9, SMT
    <3> QED BY <2>3, <2>5, <2>6, <2>7, <3>1
  <2>9. (p + f) * j <= (p + f) * k
    <3>1. PICK w \in Nat : w = p + f
      BY <1>9
    <3>2. w * j <= w * k
      BY <2>8, SMT
    <3> QED BY <3>1, <3>2
  <2>10. j = p * (T * T) + f * (R * R) /\ k = (p * f) * (n * V)
    BY <2>1, <2>4, <2>7
  <2> QED BY <2>9, <2>10
<1>24. H * H <= (p + f) * ((p * f) * (n * V))
  <2>1. H * H \in Int /\ G * G \in Int
    BY SMT
  <2>2. (p + f) * (p * (T * T) + f * (R * R)) \in Int /\ (p + f) * ((p * f) * (n * V)) \in Int
    BY <1>6, <1>9, SMT
  <2> QED BY <1>21, <1>22, <1>23, <2>1, <2>2
<1>25. PICK k \in Nat \ {0} : k = p * f
  BY <1>9, SMT
<1>26. n > 0
  <2>1. S # {}
    OBVIOUS
  <2> QED BY <1>6, <2>1, FS_EmptySet
<1>27. PICK v \in Int, u \in Int : u = k * (n * (e * e)) /\ v = (p + f) * V
  <2>1. k * (n * (e * e)) \in Int /\ (p + f) * V \in Int
    BY <1>6, <1>9, SMT
  <2> QED BY <2>1
<1>28. H * H = (k * n) * u
  <2>1. H = k * (n * e)
    BY <1>10, <1>19, <1>25
  <2>2. (k * (n * e)) * (k * (n * e)) = (k * n) * (k * (n * (e * e)))
    BY <1>6, SMT
  <2> QED BY <1>27, <2>1, <2>2
<1>29. (p + f) * (k * (n * V)) = (k * n) * v
  BY <1>6, <1>9, <1>27, SMT
<1>30. u <= v
  <2>1. PICK m \in Nat \ {0} : m = k * n
    BY <1>6, <1>26, SMT
  <2>2. m * u <= m * v
    BY <1>24, <1>25, <1>28, <1>29, <2>1
  <2>3. v < u => m * v < m * u
    BY SMT
  <2>4. m * u \in Int /\ m * v \in Int
    BY SMT
  <2> QED BY <2>2, <2>3, <2>4
<1> QED BY <1>17, <1>25, <1>27, <1>30

(***************************************************************************)
(* Two groups of which every two members are further apart than the square *)
(* root of k standard deviations are not both large.                       *)
(***************************************************************************)
LEMMA FewApart ==
  ASSUME NEW x, NEW q, NEW S, NEW n, NEW X, NEW Q, AreMoments(x, q, S, n, X, Q),
         NEW F \in SUBSET S, NEW P \in SUBSET S, F \cap P = {}, F # {}, P # {},
         NEW e \in Nat, Apart(x, F, P, e),
         NEW f, f = Cardinality(F), NEW p, p = Cardinality(P),
         NEW k \in Nat, (e * e) * (n * n) > k * (n * Q - X * X), n * Q - X * X >= 0
  PROVE  k * (p * f) < n * (p + f)
<1>1. (p * f) * (n * (e * e)) <= (p + f) * (n * Q - X * X)
  BY Separated
<1>2. IsFiniteSet(S) /\ n \in Nat /\ X \in Int /\ Q \in Int /\ n = Cardinality(S)
  BY MomentsAre
<1>3. IsFiniteSet(F) /\ IsFiniteSet(P)
  BY <1>2, FS_Subset
<1>4. f \in Nat \ {0} /\ p \in Nat \ {0}
  BY <1>3, FS_CardinalityType, FS_EmptySet
<1>5. n \in Nat \ {0}
  <2>1. S # {}
    OBVIOUS
  <2> QED BY <1>2, <2>1, FS_EmptySet
<1>6. PICK V \in Nat : V = n * Q - X * X
  <2>1. n * Q - X * X \in Int
    BY <1>2, SMT
  <2> QED BY <2>1
<1>7. PICK E \in Nat, a \in Nat \ {0}, b \in Nat \ {0} : E = e * e /\ a = p * f /\ b = p + f
  <2>1. e * e \in Nat /\ p * f \in Nat \ {0} /\ p + f \in Nat \ {0}
    BY <1>4, SMT
  <2> QED BY <2>1
<1>8. a * (n * E) <= b * V
  BY <1>1, <1>6, <1>7
<1>9. E * (n * n) > k * V
  BY <1>6, <1>7
<1>10. n * (a * (n * E)) <= n * (b * V)
  <2>1. PICK g \in Int, h \in Int : g = a * (n * E) /\ h = b * V
    BY <1>5, SMT
  <2>2. n * g <= n * h
    BY <1>5, <1>8, <2>1, SMT
  <2> QED BY <2>1, <2>2
<1>11. a * (E * (n * n)) > a * (k * V)
  <2>1. PICK g \in Int, h \in Int : g = E * (n * n) /\ h = k * V
    BY <1>5, SMT
  <2>2. a * g > a * h
    BY <1>7, <1>9, <2>1, SMT
  <2> QED BY <2>1, <2>2
<1>12. a * (E * (n * n)) = n * (a * (n * E))
  BY <1>5, SMT
<1>13. a * (k * V) < n * (b * V)
  <2>1. a * (E * (n * n)) \in Int /\ a * (k * V) \in Int /\ n * (b * V) \in Int
    BY <1>5, SMT
  <2> QED BY <1>10, <1>11, <1>12, <2>1
<1>14. PICK g \in Int, h \in Int : g = k * a /\ h = n * b
  BY <1>5, SMT
<1>15. g * V < h * V
  <2>1. a * (k * V) = g * V /\ n * (b * V) = h * V
    BY <1>5, <1>14, SMT
  <2> QED BY <1>13, <2>1
<1>16. g < h
  <2>1. g >= h => g * V >= h * V
    BY SMT
  <2>2. g * V \in Int /\ h * V \in Int
    BY SMT
  <2> QED BY <1>15, <2>1, <2>2
<1> QED BY <1>7, <1>14, <1>16

(***************************************************************************)
(* Of two groups of p and m, whose ratio is between b / a and a / b, f of  *)
(* the second and some of the first are removed.                           *)
(***************************************************************************)
Ratios == {<<1, 1, 7, 5>>, <<7, 5, 21, 10>>, <<21, 10, 18, 5>>, <<18, 5, 9, 1>>}

LEMMA RatioArithmetic ==
  ASSUME NEW mm \in Int, NEW mp \in Nat, NEW pp \in Int, NEW fp \in Int, NEW fm \in Int,
         9 * fp < mp + fm + pp + fp
  PROVE  /\ ~ /\ 56 * fp - 7 * fm - 56 * mp + 7 * mm + 40 * pp - 5 * mp > 0
              /\ 2 * mp - mm - pp >= 0 /\ mp - pp >= 0
         /\ ~ /\ 168 * fp - 21 * fm - 168 * mp + 21 * mm + 80 * pp - 10 * mp > 0
              /\ 74 * mp - 35 * mm - 35 * pp >= 0 /\ 7 * mp - 5 * pp >= 0
         /\ ~ /\ 144 * fp - 18 * fm - 144 * mp + 18 * mm + 40 * pp - 5 * mp > 0
              /\ 541 * mp - 210 * mm - 210 * pp >= 0 /\ 21 * mp - 10 * pp >= 0
         /\ ~ /\ 72 * fp - 9 * fm - 72 * mp + 9 * mm + 8 * pp - mp > 0
              /\ 349 * mp - 90 * mm - 90 * pp >= 0 /\ 18 * mp - 5 * pp >= 0
BY SMT

LEMMA RatioKept ==
  ASSUME NEW r \in Ratios, NEW a, NEW b, NEW c, NEW d, r = <<a, b, c, d>>,
         NEW p \in Nat, NEW m \in Nat, NEW f \in Nat,
         b * p <= a * m, b * m <= a * p, f # 0 => 9 * (p * f) < (m + p) * (p + f)
  PROVE  d * p <= c * (m - f)
<1>1. \/ a = 1 /\ b = 1 /\ c = 7 /\ d = 5
      \/ a = 7 /\ b = 5 /\ c = 21 /\ d = 10
      \/ a = 21 /\ b = 10 /\ c = 18 /\ d = 5
      \/ a = 18 /\ b = 5 /\ c = 9 /\ d = 1
  BY DEF Ratios
<1>2. CASE f = 0
  BY <1>1, <1>2
<1>3. CASE f # 0
  <2>1. PICK mm \in Int, mp \in Nat, pp \in Int, fp \in Int, fm \in Int :
          mm = m * m /\ mp = m * p /\ pp = p * p /\ fp = f * p /\ fm = f * m
    BY SMT
  <2>2. 9 * fp < mp + fm + pp + fp
    <3>1. 9 * (p * f) < (m + p) * (p + f)
      BY <1>3
    <3>2. (m + p) * (p + f) = mp + fm + pp + fp /\ 9 * (p * f) = 9 * fp
      BY <2>1, SMT
    <3> QED BY <3>1, <3>2
  <2>3. SUFFICES ASSUME d * p > c * (m - f) PROVE FALSE
    BY <1>1
  <2>4. p > 0 /\ 8 * p > m
    <3>1. p # 0
      <4>1. SUFFICES ASSUME p = 0 PROVE FALSE
        OBVIOUS
      <4>2. m = 0
        BY <1>1, <4>1
      <4>3. mp = 0 /\ fm = 0 /\ pp = 0 /\ fp = 0
        BY <2>1, <4>1, <4>2
      <4> QED BY <2>2, <4>3
    <3> QED BY <1>1, <3>1
  <2>5. PICK k \in Nat \ {0}, y \in Nat \ {0} : k = d * p - c * (m - f) /\ y = 8 * p - m
    <3>1. PICK g \in Int, h \in Int : g = d * p /\ h = c * (m - f)
      BY <1>1
    <3>2. g > h
      BY <2>3, <3>1
    <3>3. g - h \in Nat \ {0}
      BY <3>2
    <3>4. 8 * p - m \in Nat \ {0}
      BY <2>4
    <3> QED BY <3>1, <3>3, <3>4
  <2>6. PICK ky \in Int : ky = k * y /\ ky > 0
    BY SMT
  <2>7. PICK u \in Nat, v \in Nat : u = a * m - b * p /\ v = a * p - b * m
    BY <1>1
  <2>8. PICK uv \in Nat, up \in Nat : uv = u * v /\ up = u * p
    BY SMT
  <2>9. CASE a = 1 /\ b = 1 /\ c = 7 /\ d = 5
    <3>1. ky = 56 * fp - 7 * fm - 56 * mp + 7 * mm + 40 * pp - 5 * mp
      BY <2>1, <2>5, <2>6, <2>9, SMT
    <3>2. uv = 2 * mp - mm - pp /\ up = mp - pp
      BY <2>1, <2>7, <2>8, <2>9, SMT
    <3> QED BY <2>2, <2>6, <3>1, <3>2, RatioArithmetic
  <2>10. CASE a = 7 /\ b = 5 /\ c = 21 /\ d = 10
    <3>1. ky = 168 * fp - 21 * fm - 168 * mp + 21 * mm + 80 * pp - 10 * mp
      BY <2>1, <2>5, <2>6, <2>10, SMT
    <3>2. uv = 74 * mp - 35 * mm - 35 * pp /\ up = 7 * mp - 5 * pp
      BY <2>1, <2>7, <2>8, <2>10, SMT
    <3> QED BY <2>2, <2>6, <3>1, <3>2, RatioArithmetic
  <2>11. CASE a = 21 /\ b = 10 /\ c = 18 /\ d = 5
    <3>1. ky = 144 * fp - 18 * fm - 144 * mp + 18 * mm + 40 * pp - 5 * mp
      BY <2>1, <2>5, <2>6, <2>11, SMT
    <3>2. uv = 541 * mp - 210 * mm - 210 * pp /\ up = 21 * mp - 10 * pp
      BY <2>1, <2>7, <2>8, <2>11, SMT
    <3> QED BY <2>2, <2>6, <3>1, <3>2, RatioArithmetic
  <2>12. CASE a = 18 /\ b = 5 /\ c = 9 /\ d = 1
    <3>1. ky = 72 * fp - 9 * fm - 72 * mp + 9 * mm + 8 * pp - mp
      BY <2>1, <2>5, <2>6, <2>12, SMT
    <3>2. uv = 349 * mp - 90 * mm - 90 * pp /\ up = 18 * mp - 5 * pp
      BY <2>1, <2>7, <2>8, <2>12, SMT
    <3> QED BY <2>2, <2>6, <3>1, <3>2, RatioArithmetic
  <2> QED BY <1>1, <2>9, <2>10, <2>11, <2>12
<1> QED BY <1>2, <1>3

(***************************************************************************)
(* Clipped: the definition by recursion has the values that it says.       *)
(***************************************************************************)
ClipStep(S) == {s \in S : ~ Exceeds(Centred(s), Times(num_sigma, SigmaOf(S)))}

ClippedTo(f, m) == f = [i \in 0 .. m |-> IF i = 0 THEN Samples ELSE ClipStep(f[i - 1])]

LEMMA ClippedParts ==
  ASSUME NEW m \in Nat
  PROVE  \E f : ClippedTo(f, m)
<1> DEFINE G == {k \in Nat : \E f : ClippedTo(f, k)}
<1>1. 0 \in G
  <2>1. PICK f : f = [i \in 0 .. 0 |-> Samples]
    OBVIOUS
  <2>2. ClippedTo(f, 0)
    BY <2>1 DEF ClippedTo
  <2> QED BY <2>2
<1>2. ASSUME NEW k \in Nat, k \in G
      PROVE  k + 1 \in G
  <2>1. PICK f : ClippedTo(f, k)
    BY <1>2
  <2>2. PICK g : g = [i \in 0 .. k + 1 |-> IF i <= k THEN f[i] ELSE ClipStep(f[k])]
    OBVIOUS
  <2>3. \A i \in 0 .. k + 1 : g[i] = IF i = 0 THEN Samples ELSE ClipStep(g[i - 1])
    <3>1. SUFFICES ASSUME NEW i \in 0 .. k + 1
                   PROVE  g[i] = IF i = 0 THEN Samples ELSE ClipStep(g[i - 1])
      OBVIOUS
    <3>2. CASE i = k + 1
      <4>1. i - 1 = k /\ i # 0 /\ k \in 0 .. k + 1
        BY <3>2
      <4>2. g[i] = ClipStep(f[k]) /\ g[k] = f[k]
        BY <2>2, <3>2, <4>1
      <4> QED BY <4>1, <4>2
    <3>3. CASE i # k + 1
      <4>1. i \in 0 .. k
        BY <3>3
      <4>2. g[i] = f[i]
        BY <2>2, <4>1
      <4>3. f[i] = IF i = 0 THEN Samples ELSE ClipStep(f[i - 1])
        BY <2>1, <4>1 DEF ClippedTo
      <4>4. i # 0 => g[i - 1] = f[i - 1]
        BY <2>2, <4>1
      <4> QED BY <4>2, <4>3, <4>4
    <3> QED BY <3>2, <3>3
  <2>4. g = [i \in 0 .. k + 1 |-> IF i = 0 THEN Samples ELSE ClipStep(g[i - 1])]
    BY <2>2, <2>3
  <2> QED BY <2>4 DEF ClippedTo
<1>3. Nat \subseteq G
  <2> HIDE DEF G
  <2> QED BY <1>1, <1>2, AllNaturals
<1> QED BY <1>3

LEMMA ClippedSame ==
  ASSUME NEW m \in Nat, NEW k \in Nat, NEW f, NEW g, ClippedTo(f, m), ClippedTo(g, k),
         NEW i \in Nat, i <= m, i <= k
  PROVE  f[i] = g[i]
<1> DEFINE G == {j \in Nat : j <= m /\ j <= k => f[j] = g[j]}
<1>1. \A j \in 0 .. m : f[j] = IF j = 0 THEN Samples ELSE ClipStep(f[j - 1])
  BY DEF ClippedTo
<1>2. \A j \in 0 .. k : g[j] = IF j = 0 THEN Samples ELSE ClipStep(g[j - 1])
  BY DEF ClippedTo
<1>3. 0 \in G
  BY <1>1, <1>2
<1>4. ASSUME NEW j \in Nat, j \in G
      PROVE  j + 1 \in G
  <2>1. SUFFICES ASSUME j + 1 <= m, j + 1 <= k
                 PROVE  f[j + 1] = g[j + 1]
    OBVIOUS
  <2>2. f[j] = g[j] /\ (j + 1) - 1 = j
    BY <1>4, <2>1
  <2>3. f[j + 1] = ClipStep(f[j]) /\ g[j + 1] = ClipStep(g[j])
    BY <1>1, <1>2, <2>1, <2>2
  <2> QED BY <2>2, <2>3
<1>5. Nat \subseteq G
  <2> HIDE DEF G
  <2> QED BY <1>3, <1>4, AllNaturals
<1> QED BY <1>5

LEMMA ClippedIs ==
  /\ Clipped[0] = Samples
  /\ \A i \in Nat : Clipped[i + 1] = ClipStep(Clipped[i])
<1>1. PICK p : p = [m \in Nat |-> CHOOSE f : ClippedTo(f, m)]
  OBVIOUS
<1>2. \A m \in Nat : ClippedTo(p[m], m)
  BY <1>1, ClippedParts
<1>3. PICK c : c = [i \in Nat |-> p[i][i]]
  OBVIOUS
<1>4. \A i \in Nat : c[i] = IF i = 0 THEN Samples ELSE ClipStep(c[i - 1])
  <2>1. SUFFICES ASSUME NEW i \in Nat
                 PROVE  c[i] = IF i = 0 THEN Samples ELSE ClipStep(c[i - 1])
    OBVIOUS
  <2>2. c[i] = IF i = 0 THEN Samples ELSE ClipStep(p[i][i - 1])
    <3>1. PICK f : f = p[i] /\ ClippedTo(f, i)
      BY <1>2
    <3>2. f[i] = IF i = 0 THEN Samples ELSE ClipStep(f[i - 1])
      BY <3>1 DEF ClippedTo
    <3> QED BY <1>3, <3>1, <3>2
  <2>3. CASE i # 0
    <3>1. PICK k \in Nat : k = i - 1
      BY <2>3
    <3>2. p[k][k] = p[i][k]
      BY <1>2, <3>1, ClippedSame
    <3> QED BY <1>3, <2>2, <2>3, <3>1, <3>2
  <2> QED BY <2>2, <2>3
<1>5. c = [i \in Nat |-> IF i = 0 THEN Samples
                         ELSE LET left  == c[i - 1]
                                  limit == Times(num_sigma, SigmaOf(left))
                              IN  {s \in left : ~ Exceeds(Centred(s), limit)}]
  BY <1>3, <1>4 DEF ClipStep
<1>6. Clipped = [i \in Nat |-> IF i = 0 THEN Samples
                               ELSE LET left  == Clipped[i - 1]
                                        limit == Times(num_sigma, SigmaOf(left))
                                    IN  {s \in left : ~ Exceeds(Centred(s), limit)}]
  BY <1>5 DEF Clipped
<1>7. \A i \in Nat : Clipped[i] = IF i = 0 THEN Samples ELSE ClipStep(Clipped[i - 1])
  BY <1>6 DEF ClipStep
<1>8. \A i \in Nat : i + 1 \in Nat /\ i + 1 # 0 /\ (i + 1) - 1 = i
  OBVIOUS
<1> QED BY <1>7, <1>8

LEMMA ClippedType ==
  /\ Clipped[0] = Samples
  /\ \A i \in Nat : /\ Clipped[i] \subseteq Samples
                    /\ Clipped[i + 1] = ClipStep(Clipped[i])
                    /\ Clipped[i + 1] \subseteq Clipped[i]
<1> DEFINE G == {i \in Nat : Clipped[i] \subseteq Samples}
<1>1. 0 \in G
  BY ClippedIs
<1>2. ASSUME NEW k \in Nat, k \in G
      PROVE  k + 1 \in G
  BY <1>2, ClippedIs DEF ClipStep
<1>3. Nat \subseteq G
  <2> HIDE DEF G
  <2> QED BY <1>1, <1>2, AllNaturals
<1> QED BY <1>3, ClippedIs DEF ClipStep

\* The median about which the samples are centred.
CentreOK == stats.median.num \in Int /\ stats.median.den \in Nat \ {0}

\* The number, the sums and n^2 times the variance of some samples, centred.
Spread(S, n, X, Q, V) ==
  AreMoments(Deviations, Squares, S, n, X, Q) /\ V = n * Q - X * X

LEMMA CentredIs ==
  ASSUME DataOK, CentreOK
  PROVE  /\ \A s \in Samples : /\ Centred(s) \in Int
                               /\ Deviations[s] = Centred(s)
                               /\ Squares[s] = Centred(s) * Centred(s)
                               /\ Squares[s] \in Int
         /\ IsFiniteSet(Samples)
<1>1. IsFiniteSet(Samples) /\ \A s \in Samples : data[s] \in Int
  BY DataFacts
<1>2. SUFFICES ASSUME NEW s \in Samples
               PROVE  /\ Centred(s) \in Int
                      /\ Deviations[s] = Centred(s)
                      /\ Squares[s] = Centred(s) * Centred(s)
                      /\ Squares[s] \in Int
  BY <1>1
<1>3. PICK e \in Int, d \in Int, m \in Int : e = data[s] /\ d = stats.median.den /\ m = stats.median.num
  BY <1>1 DEF CentreOK
<1>4. PICK c \in Int : c = d * e - m
  BY SMT
<1>5. Centred(s) = c
  BY <1>3, <1>4 DEF Centred
<1>6. c * c \in Int
  BY SMT
<1>7. Deviations[s] = Centred(s) /\ Squares[s] = Centred(s) * Centred(s)
  BY DEF Deviations, Squares
<1> QED BY <1>5, <1>6, <1>7

LEMMA SpreadIs ==
  ASSUME DataOK, CentreOK, NEW S \in SUBSET Samples
  PROVE  \E n \in Nat, X \in Int, Q \in Int, V \in Nat :
           /\ Spread(S, n, X, Q, V)
           /\ IsFiniteSet(S) /\ n = Cardinality(S)
           /\ SigmaOf(S) = IF S = {} THEN NaN ELSE [num |-> V, den |-> n * n]
           /\ S # {} => n # 0
<1>1. IsFiniteSet(S) /\ \A s \in S : /\ Deviations[s] \in Int /\ Squares[s] \in Int
                                     /\ Squares[s] = Deviations[s] * Deviations[s]
  BY CentredIs, FS_Subset
<1>2. PICK n \in Nat, X \in Int, Q \in Int :
        n = Cardinality(S) /\ X = SumOf(Deviations, S) /\ Q = SumOf(Squares, S)
  <2>1. SumOf(Deviations, S) \in Int
    BY <1>1, SumIsInt
  <2>2. SumOf(Squares, S) \in Int
    BY <1>1, SumIsInt
  <2> QED BY <1>1, <2>1, <2>2, FS_CardinalityType
<1>3. AreMoments(Deviations, Squares, S, n, X, Q)
  BY <1>1, <1>2 DEF AreMoments
<1>4. X * X <= n * Q
  BY <1>1, <1>2, SumSquares
<1>5. PICK V \in Nat : V = n * Q - X * X
  <2>1. n * Q \in Int /\ X * X \in Int
    BY SMT
  <2>2. n * Q - X * X \in Nat
    BY <1>4, <2>1
  <2> QED BY <2>2
<1>6. n = 0 <=> S = {}
  BY <1>1, <1>2, FS_EmptySet
<1>7. SigmaOf(S) = IF S = {} THEN NaN ELSE [num |-> V, den |-> n * n]
  BY <1>2, <1>5, <1>6 DEF SigmaOf, Variance
<1>8. Spread(S, n, X, Q, V)
  BY <1>3, <1>5 DEF Spread
<1> QED BY <1>1, <1>2, <1>6, <1>7, <1>8

\* Which samples a step of clipping at num_sigma standard deviations removes.
LEMMA OutlierIs ==
  ASSUME DataOK, CentreOK, NEW S \in SUBSET Samples, num_sigma \in Nat, S # {},
         NEW n \in Nat, NEW X, NEW Q, NEW V \in Nat, Spread(S, n, X, Q, V), NEW s \in S
  PROVE  s \in ClipStep(S) <=>
           ~ ((Centred(s) * Centred(s)) * (n * n) > (num_sigma * num_sigma) * V)
<1>1. PICK k \in Nat, Y \in Int, R \in Int, W \in Nat :
        /\ Spread(S, k, Y, R, W) /\ k = Cardinality(S) /\ k # 0
        /\ SigmaOf(S) = IF S = {} THEN NaN ELSE [num |-> W, den |-> k * k]
  BY SpreadIs
<1>2. n = k /\ V = W
  BY <1>1 DEF Spread, AreMoments
<1>3. SigmaOf(S) = [num |-> V, den |-> n * n]
  BY <1>1, <1>2
<1>4. Times(num_sigma, SigmaOf(S)) = [num |-> (num_sigma * num_sigma) * V, den |-> n * n]
  BY <1>3 DEF Times
<1>5. n * n # 0
  BY <1>1, <1>2, SMT
<1>6. Times(num_sigma, SigmaOf(S)) # NaN
  BY <1>4, <1>5 DEF NaN
<1>7. Exceeds(Centred(s), Times(num_sigma, SigmaOf(S)))
        <=> (Centred(s) * Centred(s)) * (n * n) > (num_sigma * num_sigma) * V
  BY <1>4, <1>6 DEF Exceeds
<1> QED BY <1>7 DEF ClipStep

LEMMA OutlierFar ==
  ASSUME DataOK, CentreOK, NEW S \in SUBSET Samples, num_sigma \in Nat, num_sigma >= 3,
         NEW n \in Nat, NEW X, NEW Q, NEW V \in Nat, Spread(S, n, X, Q, V), NEW s \in S
  PROVE  /\ Centred(s) \in Int
         /\ s \notin ClipStep(S) => (Centred(s) * Centred(s)) * (n * n) > 9 * V
         /\ Centred(s) = 0 => s \in ClipStep(S)
<1>1. PICK c \in Int : c = Centred(s)
  BY CentredIs
<1>2. PICK k \in Nat, a \in Int, b \in Int : k = num_sigma * num_sigma /\ a = k * V
                                             /\ b = (c * c) * (n * n)
  BY SMT
<1>3. k >= 9
  BY <1>2, SMT
<1>4. a >= 9 * V
  BY <1>2, <1>3, SMT
<1>5. s \in ClipStep(S) <=> ~ (b > a)
  BY <1>1, <1>2, OutlierIs
<1>7. b = (Centred(s) * Centred(s)) * (n * n)
  BY <1>1, <1>2
<1>8. PICK t \in Int : t = 9 * V
  OBVIOUS
<1>9. b > a => b > t
  BY <1>4, <1>8
<1>10. a >= 0
  BY <1>4
<1>6. c = 0 => b = 0
  BY <1>2, SMT
<1>11. Centred(s) = 0 => s \in ClipStep(S)
  BY <1>1, <1>5, <1>6, <1>10
<1>12. s \notin ClipStep(S) => (Centred(s) * Centred(s)) * (n * n) > 9 * V
  BY <1>5, <1>7, <1>8, <1>9
<1> QED BY <1>1, <1>11, <1>12

\* The samples below and above the median.
Low  == {s \in Samples : Centred(s) < 0}
High == {s \in Samples : Centred(s) > 0}

LEMMA LowClipped ==
  ASSUME DataOK, CentreOK, NEW S \in SUBSET Samples, num_sigma \in Nat, num_sigma >= 3,
         NEW n \in Nat, NEW X, NEW Q, NEW V \in Nat, Spread(S, n, X, Q, V),
         NEW F \in SUBSET S, NEW P \in SUBSET S, F # {}, P # {}, F \subseteq Low, P \subseteq High,
         F \cap ClipStep(S) = {}, NEW f, f = Cardinality(F), NEW p, p = Cardinality(P)
  PROVE  9 * (p * f) < n * (p + f)
<1>1. IsFiniteSet(F) /\ \A s \in F : Deviations[s] \in Int
  BY CentredIs, FS_Subset
<1>2. PICK m \in F : \A s \in F : Deviations[s] <= Deviations[m]
  BY <1>1, GreatestOf
<1>3. Centred(m) \in Int /\ Centred(m) < 0 /\ Deviations[m] = Centred(m)
  BY CentredIs DEF Low
<1>4. PICK e \in Nat : e = -Centred(m)
  BY <1>3
<1>5. Apart(Deviations, F, P, e)
  <2>1. SUFFICES ASSUME NEW s \in F, NEW t \in P
                 PROVE  Deviations[t] - Deviations[s] >= e
    BY DEF Apart
  <2>2. Deviations[t] \in Int /\ Deviations[t] > 0
    BY CentredIs DEF High
  <2>3. Deviations[s] \in Int /\ Deviations[s] <= Deviations[m]
    BY <1>1, <1>2
  <2> QED BY <1>3, <1>4, <2>2, <2>3
<1>6. (e * e) * (n * n) > 9 * V
  <2>1. (Centred(m) * Centred(m)) * (n * n) > 9 * V
    BY OutlierFar
  <2>2. PICK c \in Int : c = Centred(m)
    BY <1>3
  <2>3. c * c = e * e
    BY <1>4, <2>2, SMT
  <2> QED BY <2>1, <2>2, <2>3
<1>7. F \cap P = {}
  <2>1. \A s \in Samples : Centred(s) \in Int
    BY CentredIs
  <2> QED BY <2>1 DEF Low, High
<1>8. PICK k \in Nat : k = 9
  OBVIOUS
<1>9. AreMoments(Deviations, Squares, S, n, X, Q) /\ V = n * Q - X * X /\ n * Q - X * X >= 0
  BY DEF Spread
<1>10. (e * e) * (n * n) > k * (n * Q - X * X)
  BY <1>6, <1>8, <1>9
<1>11. k * (p * f) < n * (p + f)
  BY <1>5, <1>7, <1>9, <1>10, FewApart
<1> QED BY <1>8, <1>11

LEMMA HighClipped ==
  ASSUME DataOK, CentreOK, NEW S \in SUBSET Samples, num_sigma \in Nat, num_sigma >= 3,
         NEW n \in Nat, NEW X, NEW Q, NEW V \in Nat, Spread(S, n, X, Q, V),
         NEW F \in SUBSET S, NEW P \in SUBSET S, F # {}, P # {}, F \subseteq Low, P \subseteq High,
         P \cap ClipStep(S) = {}, NEW f, f = Cardinality(F), NEW p, p = Cardinality(P)
  PROVE  9 * (p * f) < n * (p + f)
<1>1. IsFiniteSet(P) /\ \A s \in P : Deviations[s] \in Int
  BY CentredIs, FS_Subset
<1>2. PICK m \in P : \A s \in P : Deviations[m] <= Deviations[s]
  <2>1. PICK y : y = [s \in P |-> -Deviations[s]]
    OBVIOUS
  <2>2. \A s \in P : y[s] \in Int /\ y[s] = -Deviations[s]
    BY <1>1, <2>1
  <2>3. PICK m \in P : \A s \in P : y[s] <= y[m]
    BY <1>1, <2>2, GreatestOf
  <2> QED BY <1>1, <2>2, <2>3
<1>3. Centred(m) \in Int /\ Centred(m) > 0 /\ Deviations[m] = Centred(m)
  BY CentredIs DEF High
<1>4. PICK e \in Nat : e = Centred(m)
  BY <1>3
<1>5. Apart(Deviations, F, P, e)
  <2>1. SUFFICES ASSUME NEW s \in F, NEW t \in P
                 PROVE  Deviations[t] - Deviations[s] >= e
    BY DEF Apart
  <2>2. Deviations[s] \in Int /\ Deviations[s] < 0
    BY CentredIs DEF Low
  <2>3. Deviations[t] \in Int /\ Deviations[m] <= Deviations[t]
    BY <1>1, <1>2
  <2> QED BY <1>3, <1>4, <2>2, <2>3
<1>6. (e * e) * (n * n) > 9 * V
  <2>1. (Centred(m) * Centred(m)) * (n * n) > 9 * V
    BY OutlierFar
  <2> QED BY <1>4, <2>1
<1>7. F \cap P = {}
  <2>1. \A s \in Samples : Centred(s) \in Int
    BY CentredIs
  <2> QED BY <2>1 DEF Low, High
<1>8. PICK k \in Nat : k = 9
  OBVIOUS
<1>9. AreMoments(Deviations, Squares, S, n, X, Q) /\ V = n * Q - X * X /\ n * Q - X * X >= 0
  BY DEF Spread
<1>10. (e * e) * (n * n) > k * (n * Q - X * X)
  BY <1>6, <1>8, <1>9
<1>11. k * (p * f) < n * (p + f)
  BY <1>5, <1>7, <1>9, <1>10, FewApart
<1> QED BY <1>8, <1>11

\* The numbers of samples of S below and above the median have a ratio between b / a and a / b.
Balanced(S, a, b) ==
  /\ S \in SUBSET (Low \union High) /\ S # {}
  /\ b * Cardinality(S \cap High) <= a * Cardinality(S \cap Low)
  /\ b * Cardinality(S \cap Low) <= a * Cardinality(S \cap High)

LEMMA Halves ==
  ASSUME DataOK, CentreOK, NEW S \in SUBSET (Low \union High)
  PROVE  /\ S \in SUBSET Samples /\ IsFiniteSet(S) /\ IsFiniteSet(S \cap Low) /\ IsFiniteSet(S \cap High)
         /\ Cardinality(S \cap Low) \in Nat /\ Cardinality(S \cap High) \in Nat
         /\ Cardinality(S) = Cardinality(S \cap Low) + Cardinality(S \cap High)
         /\ (S \cap Low) \cap (S \cap High) = {}
<1>1. S \in SUBSET Samples
  BY DEF Low, High
<1>2. IsFiniteSet(S) /\ IsFiniteSet(S \cap Low) /\ IsFiniteSet(S \cap High)
  <2>1. S \cap Low \in SUBSET Samples /\ S \cap High \in SUBSET Samples
    BY <1>1
  <2> QED BY <1>1, <2>1, CentredIs, FS_Subset
<1>3. Cardinality(S \cap Low) \in Nat /\ Cardinality(S \cap High) \in Nat
  BY <1>2, FS_CardinalityType
<1>4. \A s \in Samples : Centred(s) \in Int
  BY CentredIs
<1>5. (S \cap Low) \cap (S \cap High) = {}
  BY <1>4 DEF Low, High
<1>6. (S \cap Low) \union (S \cap High) = S
  OBVIOUS
<1>7. Cardinality((S \cap Low) \union (S \cap High)) = Cardinality(S \cap Low) + Cardinality(S \cap High)
  BY <1>2, <1>5, Together
<1> QED BY <1>1, <1>2, <1>3, <1>5, <1>6, <1>7

\* The rest of a part of which some are removed.
LEMMA RestOf ==
  ASSUME NEW A, IsFiniteSet(A), NEW B \in SUBSET A
  PROVE  /\ Cardinality(A \ B) \in Nat /\ Cardinality(B) \in Nat
         /\ Cardinality(A) = Cardinality(B) + Cardinality(A \ B)
<1>1. IsFiniteSet(B) /\ IsFiniteSet(A \ B)
  BY FS_Subset
<1>2. B \cap (A \ B) = {} /\ B \union (A \ B) = A
  OBVIOUS
<1>3. Cardinality(B \union (A \ B)) = Cardinality(B) + Cardinality(A \ B)
  BY <1>1, <1>2, Together
<1> QED BY <1>1, <1>2, <1>3, FS_CardinalityType

(***************************************************************************)
(* A step of clipping changes the ratio a little.                          *)
(***************************************************************************)
LEMMA BalanceKept ==
  ASSUME DataOK, CentreOK, num_sigma \in Nat, num_sigma >= 3,
         NEW r \in Ratios, NEW a, NEW b, NEW c, NEW d, r = <<a, b, c, d>>,
         NEW S, Balanced(S, a, b)
  PROVE  Balanced(ClipStep(S), c, d)
<1>0. S \in SUBSET (Low \union High) /\ S # {}
  BY DEF Balanced
<1>1. S \in SUBSET Samples /\ IsFiniteSet(S) /\ IsFiniteSet(S \cap Low) /\ IsFiniteSet(S \cap High)
      /\ (S \cap Low) \cap (S \cap High) = {}
  BY <1>0, Halves
<1>2. PICK C : C = ClipStep(S)
  OBVIOUS
<1>3. C \in SUBSET S
  BY <1>2 DEF ClipStep
<1>4. PICK L, H, F, G : L = S \cap Low /\ H = S \cap High /\ F = L \ C /\ G = H \ C
  OBVIOUS
<1>5. PICK m \in Nat, p \in Nat : m = Cardinality(L) /\ p = Cardinality(H)
  BY <1>0, <1>4, Halves
<1>6. PICK f \in Nat, g \in Nat : f = Cardinality(F) /\ g = Cardinality(G)
  BY <1>1, <1>4, FS_Subset, FS_CardinalityType
<1>7. Cardinality(C \cap Low) = m - f /\ f <= m
  <2>1. F \in SUBSET L /\ L \ F = C \cap Low
    BY <1>3, <1>4
  <2>2. Cardinality(L \ F) \in Nat /\ Cardinality(L) = Cardinality(F) + Cardinality(L \ F)
    BY <1>1, <1>4, <2>1, RestOf
  <2>3. PICK u \in Nat : u = Cardinality(L \ F)
    BY <2>2
  <2>4. m = f + u
    BY <1>5, <1>6, <2>2, <2>3
  <2>5. Cardinality(C \cap Low) = u
    BY <2>1, <2>3
  <2> QED BY <2>4, <2>5
<1>8. Cardinality(C \cap High) = p - g /\ g <= p
  <2>1. G \in SUBSET H /\ H \ G = C \cap High
    BY <1>3, <1>4
  <2>2. Cardinality(H \ G) \in Nat /\ Cardinality(H) = Cardinality(G) + Cardinality(H \ G)
    BY <1>1, <1>4, <2>1, RestOf
  <2>3. PICK u \in Nat : u = Cardinality(H \ G)
    BY <2>2
  <2>4. p = g + u
    BY <1>5, <1>6, <2>2, <2>3
  <2>5. Cardinality(C \cap High) = u
    BY <2>1, <2>3
  <2> QED BY <2>4, <2>5
<1>9. b * p <= a * m /\ b * m <= a * p
  BY <1>4, <1>5 DEF Balanced
<1>10. PICK n \in Nat, X \in Int, Q \in Int, V \in Nat : Spread(S, n, X, Q, V) /\ n = Cardinality(S)
  BY <1>1, SpreadIs
<1>11. n = m + p
  BY <1>0, <1>4, <1>5, <1>10, Halves
<1>12. a \in Nat \ {0} /\ b \in Nat \ {0} /\ c \in Nat \ {0} /\ d \in Nat \ {0}
  BY DEF Ratios
<1>13. m # 0 /\ p # 0
  <2>1. n # 0
    BY <1>0, <1>1, <1>10, FS_EmptySet
  <2>2. m = 0 => b * p <= 0
    BY <1>9, <1>12
  <2>3. p = 0 => b * m <= 0
    BY <1>9, <1>12
  <2>4. (p # 0 => b * p > 0) /\ (m # 0 => b * m > 0)
    BY <1>12, SMT
  <2>5. b * p \in Int /\ b * m \in Int
    BY <1>12
  <2> QED BY <1>11, <2>1, <2>2, <2>3, <2>4, <2>5
<1>14. L # {} /\ H # {}
  BY <1>5, <1>13, FS_EmptySet
<1>15. f # 0 => 9 * (p * f) < (m + p) * (p + f)
  <2>1. SUFFICES ASSUME f # 0 PROVE 9 * (p * f) < (m + p) * (p + f)
    OBVIOUS
  <2>2. F # {}
    BY <1>6, <2>1, FS_EmptySet
  <2>3. F \in SUBSET S /\ H \in SUBSET S /\ F \subseteq Low /\ H \subseteq High /\ F \cap ClipStep(S) = {}
    BY <1>2, <1>4
  <2>4. 9 * (p * f) < n * (p + f)
    BY <1>1, <1>5, <1>6, <1>10, <1>14, <2>2, <2>3, LowClipped
  <2> QED BY <1>11, <2>4
<1>16. g # 0 => 9 * (m * g) < (p + m) * (m + g)
  <2>1. SUFFICES ASSUME g # 0 PROVE 9 * (m * g) < (p + m) * (m + g)
    OBVIOUS
  <2>2. G # {}
    BY <1>6, <2>1, FS_EmptySet
  <2>3. L \in SUBSET S /\ G \in SUBSET S /\ L \subseteq Low /\ G \subseteq High /\ G \cap ClipStep(S) = {}
    BY <1>2, <1>4
  <2>4. 9 * (g * m) < n * (g + m)
    BY <1>1, <1>5, <1>6, <1>10, <1>14, <2>2, <2>3, HighClipped
  <2>5. g * m = m * g /\ n = p + m /\ g + m = m + g
    BY <1>11, SMT
  <2> QED BY <2>4, <2>5
<1>17. d * p <= c * (m - f)
  BY <1>9, <1>15, RatioKept
<1>18. d * m <= c * (p - g)
  BY <1>9, <1>16, RatioKept
<1>19. d * (p - g) <= d * p /\ d * (m - f) <= d * m
  <2>1. PICK u \in Nat, v \in Nat : u = p - g /\ v = m - f
    BY <1>7, <1>8
  <2>2. u <= p /\ v <= m
    BY <2>1
  <2>3. d * u <= d * p /\ d * v <= d * m
    BY <1>12, <2>2, SMT
  <2> QED BY <2>1, <2>3
<1>20. d * (p - g) <= c * (m - f) /\ d * (m - f) <= c * (p - g)
  <2>1. d * (p - g) \in Int /\ d * p \in Int /\ d * (m - f) \in Int /\ d * m \in Int
        /\ c * (m - f) \in Int /\ c * (p - g) \in Int
    BY <1>12, SMT
  <2> QED BY <1>17, <1>18, <1>19, <2>1
<1>21. C # {}
  <2>1. SUFFICES ASSUME C = {} PROVE FALSE
    OBVIOUS
  <2>2. m - f = 0
    BY <1>7, <2>1, FS_EmptySet
  <2>3. c * (m - f) = 0
    BY <1>12, <2>2, SMT
  <2>4. d * p > 0
    BY <1>12, <1>13, SMT
  <2>5. d * p \in Int
    BY <1>12, SMT
  <2> QED BY <1>17, <2>3, <2>4, <2>5
<1>22. C \in SUBSET (Low \union High)
  BY <1>0, <1>3
<1> QED BY <1>2, <1>7, <1>8, <1>20, <1>21, <1>22 DEF Balanced

(***************************************************************************)
(* Of groups of which neither is more than nine times as large as the      *)
(* other, a step does not remove all.                                      *)
(***************************************************************************)
LEMMA SomeKept ==
  ASSUME DataOK, CentreOK, num_sigma \in Nat, num_sigma >= 3, NEW S, Balanced(S, 9, 1)
  PROVE  ClipStep(S) # {}
<1>0. S \in SUBSET (Low \union High) /\ S # {}
  BY DEF Balanced
<1>1. S \in SUBSET Samples /\ IsFiniteSet(S) /\ IsFiniteSet(S \cap Low) /\ IsFiniteSet(S \cap High)
      /\ (S \cap Low) \cap (S \cap High) = {}
  BY <1>0, Halves
<1>2. SUFFICES ASSUME ClipStep(S) = {} PROVE FALSE
  OBVIOUS
<1>3. PICK L, H : L = S \cap Low /\ H = S \cap High
  OBVIOUS
<1>4. PICK m \in Nat, p \in Nat : m = Cardinality(L) /\ p = Cardinality(H)
  BY <1>0, <1>3, Halves
<1>5. p <= 9 * m /\ m <= 9 * p
  <2>1. 1 * p <= 9 * m /\ 1 * m <= 9 * p
    BY <1>3, <1>4 DEF Balanced
  <2> QED BY <2>1
<1>6. PICK n \in Nat, X \in Int, Q \in Int, V \in Nat : Spread(S, n, X, Q, V) /\ n = Cardinality(S)
  BY <1>1, SpreadIs
<1>7. n = m + p
  BY <1>0, <1>3, <1>4, <1>6, Halves
<1>8. m # 0 /\ p # 0
  <2>1. n # 0
    BY <1>0, <1>1, <1>6, FS_EmptySet
  <2> QED BY <1>5, <1>7, <2>1
<1>9. L # {} /\ H # {}
  BY <1>4, <1>8, FS_EmptySet
<1>10. \A s \in S : Deviations[s] \in Int /\ Deviations[s] = Centred(s)
  BY <1>1, CentredIs
<1>11. PICK l \in L : \A s \in L : Deviations[s] <= Deviations[l]
  <2>1. IsFiniteSet(L) /\ \A s \in L : Deviations[s] \in Int
    BY <1>1, <1>3, <1>10
  <2> QED BY <1>9, <2>1, GreatestOf
<1>12. PICK h \in H : \A s \in H : Deviations[h] <= Deviations[s]
  <2>1. PICK y : y = [s \in H |-> -Deviations[s]]
    OBVIOUS
  <2>2. \A s \in H : y[s] \in Int /\ y[s] = -Deviations[s]
    BY <1>3, <1>10, <2>1
  <2>3. IsFiniteSet(H)
    BY <1>1, <1>3
  <2>4. PICK h \in H : \A s \in H : y[s] <= y[h]
    BY <1>9, <2>2, <2>3, GreatestOf
  <2> QED BY <1>3, <1>10, <2>2, <2>4
<1>13. PICK i \in Nat, j \in Nat : i = -Centred(l) /\ j = Centred(h)
  <2>1. Centred(l) < 0 /\ Centred(h) > 0 /\ Centred(l) \in Int /\ Centred(h) \in Int
    BY <1>3, <1>10 DEF Low, High
  <2> QED BY <2>1
<1>14. PICK k \in Nat, e \in Nat : k = (IF i <= j THEN i ELSE j) /\ e = 2 * k
  OBVIOUS
<1>15. Apart(Deviations, L, H, e)
  <2>1. SUFFICES ASSUME NEW s \in L, NEW t \in H
                 PROVE  Deviations[t] - Deviations[s] >= e
    BY DEF Apart
  <2>2. /\ Deviations[s] \in Int /\ Deviations[s] <= Deviations[l] /\ Deviations[l] = -i
        /\ Deviations[t] \in Int /\ Deviations[h] <= Deviations[t] /\ Deviations[h] = j
    BY <1>3, <1>10, <1>11, <1>12, <1>13
  <2> QED BY <1>14, <2>2
<1>16. (k * k) * (n * n) > 9 * V
  <2>1. (Centred(l) * Centred(l)) * (n * n) > 9 * V /\ (Centred(h) * Centred(h)) * (n * n) > 9 * V
    <3>1. l \in S /\ h \in S /\ l \notin ClipStep(S) /\ h \notin ClipStep(S)
      BY <1>2, <1>3
    <3> QED BY <1>1, <1>6, <3>1, OutlierFar
  <2>2. k * k = Centred(l) * Centred(l) \/ k * k = Centred(h) * Centred(h)
    <3>1. PICK c \in Int : c = Centred(l)
      BY <1>3, <1>10
    <3>2. c = -i
      BY <1>13, <3>1
    <3>3. c * c = i * i
      BY <3>2, SMT
    <3> QED BY <1>13, <1>14, <3>1, <3>3
  <2> QED BY <2>1, <2>2
<1>17. PICK w \in Nat : w = 36
  OBVIOUS
<1>18. (e * e) * (n * n) > w * (n * Q - X * X)
  <2>1. V = n * Q - X * X
    BY <1>6 DEF Spread
  <2>2. PICK g \in Nat : g = (k * k) * (n * n)
    BY SMT
  <2>3. (e * e) * (n * n) = 4 * g
    BY <1>14, <2>2, SMT
  <2>4. 4 * g > 36 * V
    BY <1>16, <2>2
  <2> QED BY <1>17, <2>1, <2>3, <2>4
<1>19. w * (p * m) < n * (p + m)
  <2>1. AreMoments(Deviations, Squares, S, n, X, Q) /\ n * Q - X * X >= 0
    BY <1>6 DEF Spread
  <2>2. L \in SUBSET S /\ H \in SUBSET S /\ L \cap H = {}
    BY <1>1, <1>3
  <2> QED BY <1>4, <1>9, <1>15, <1>18, <2>1, <2>2, FewApart
<1>20. PICK mm \in Nat, mp \in Nat, pp \in Nat : mm = m * m /\ mp = m * p /\ pp = p * p
  BY SMT
<1>21. 36 * mp < mm + 2 * mp + pp
  <2>1. w * (p * m) = 36 * mp
    BY <1>17, <1>20, SMT
  <2>2. n * (p + m) = mm + 2 * mp + pp
    BY <1>7, <1>20, SMT
  <2> QED BY <1>19, <2>1, <2>2
<1>22. PICK u \in Nat, v \in Nat : u = 9 * m - p /\ v = 9 * p - m
  <2>1. 9 * m - p \in Nat /\ 9 * p - m \in Nat
    BY <1>5
  <2> QED BY <2>1
<1>23. u * v >= 0
  BY SMT
<1>24. u * v = 82 * mp - 9 * mm - 9 * pp
  BY <1>20, <1>22, SMT
<1> QED BY <1>21, <1>23, <1>24

(***************************************************************************)
(* The median divides the samples in halves, or is one of them.            *)
(***************************************************************************)
LEMMA MedianBalances ==
  ASSUME DataOK, CentreOK, 2 * stats.median.num = stats.median.den * (lower + upper)
  PROVE  \/ \E s \in Samples : Centred(s) = 0
         \/ Balanced(Samples, 1, 1)
<1>1. /\ upper \in Int /\ lower \in Int /\ lower <= upper
      /\ \E s \in Samples : data[s] = upper
  BY MiddleFacts
<1>2. PICK d \in Nat \ {0}, m \in Int, l \in Int, u \in Int :
        d = stats.median.den /\ m = stats.median.num /\ l = lower /\ u = upper
  BY <1>1 DEF CentreOK
<1>3. 2 * m = d * (l + u)
  BY <1>2
<1>4. \A s \in Samples : data[s] \in Int /\ Centred(s) = d * data[s] - m
  BY <1>2, DataFacts DEF Centred
<1>5. CASE l = u
  <2>1. PICK s \in Samples : data[s] = u
    BY <1>1, <1>2
  <2>2. d * (l + u) = 2 * (d * u)
    BY <1>5, SMT
  <2>3. d * u \in Int
    BY SMT
  <2>4. d * u - m = 0
    BY <1>3, <2>2, <2>3
  <2> QED BY <1>4, <2>1, <2>4
<1>6. CASE l # u
  <2>1. l < u
    BY <1>1, <1>2, <1>6
  <2>2. ASSUME NEW e \in Int PROVE (e <= l => d * e - m < 0) /\ (e >= u => d * e - m > 0)
    <3>1. PICK g \in Int : g = d * e
      BY SMT
    <3>2. e <= l => 2 * g < d * (l + u)
      <4>1. e <= l => 2 * e < l + u
        BY <2>1
      <4>2. PICK y \in Int, z \in Int : y = 2 * e /\ z = l + u
        OBVIOUS
      <4>3. y < z => d * y < d * z
        BY SMT
      <4>4. d * y = 2 * g
        BY <3>1, <4>2, SMT
      <4> QED BY <4>1, <4>2, <4>3, <4>4
    <3>3. e >= u => 2 * g > d * (l + u)
      <4>1. e >= u => 2 * e > l + u
        BY <2>1
      <4>2. PICK y \in Int, z \in Int : y = 2 * e /\ z = l + u
        OBVIOUS
      <4>3. y > z => d * y > d * z
        BY SMT
      <4>4. d * y = 2 * g
        BY <3>1, <4>2, SMT
      <4> QED BY <4>1, <4>2, <4>3, <4>4
    <3> QED BY <1>3, <3>1, <3>2, <3>3
  <2> DEFINE A == AtMost(Samples, lower)
             B == {s \in Samples : data[s] >= upper}
  <2>3. A \subseteq Low /\ B \subseteq High
    <3>1. \A s \in A : s \in Samples /\ data[s] <= l
      BY <1>2 DEF AtMost
    <3>2. \A s \in B : s \in Samples /\ data[s] >= u
      BY <1>2
    <3> QED BY <1>4, <2>2, <3>1, <3>2 DEF Low, High
  <2>4. PICK n \in Nat : n = num_elems /\ n = Cardinality(Samples) /\ n # 0
    BY DataFacts
  <2>5. 2 * Cardinality(A) >= n /\ 2 * Cardinality(B) >= n
    BY <2>4, EachSideHalf
  <2> HIDE DEF A, B
  <2>6. IsFiniteSet(Samples) /\ Low \in SUBSET Samples /\ High \in SUBSET Samples
    BY DataFacts DEF Low, High
  <2>7. IsFiniteSet(Low) /\ IsFiniteSet(High)
    BY <2>6, FS_Subset
  <2>8. PICK a \in Nat, b \in Nat : a = Cardinality(Low) /\ b = Cardinality(High)
    BY <2>7, FS_CardinalityType
  <2>9. Cardinality(A) \in Nat /\ Cardinality(B) \in Nat /\ Cardinality(A) <= a /\ Cardinality(B) <= b
    BY <2>3, <2>7, <2>8, Counts
  <2>10. Low \cap High = {}
    <3>1. \A s \in Samples : Centred(s) \in Int
      BY CentredIs
    <3> QED BY <3>1 DEF Low, High
  <2>11. IsFiniteSet(Low \union High) /\ Cardinality(Low \union High) = a + b
    BY <2>7, <2>8, <2>10, Together
  <2>12. Cardinality(Low \union High) <= n
    BY <2>4, <2>6, Counts
  <2>13. 2 * a = n /\ 2 * b = n
    BY <2>5, <2>8, <2>9, <2>11, <2>12
  <2>14. Samples = Low \union High
    <3>1. Low \union High \in SUBSET Samples
      BY <2>6
    <3>2. Cardinality(Low \union High) = Cardinality(Samples)
      BY <2>4, <2>11, <2>13
    <3> QED BY <2>6, <3>1, <3>2, FS_Subset
  <2>15. Samples \cap High = High /\ Samples \cap Low = Low
    BY <2>6
  <2>16. Samples # {}
    BY <2>4, FS_EmptySet
  <2>17. 1 * a <= 1 * b /\ 1 * b <= 1 * a
    BY <2>13
  <2> QED BY <2>8, <2>14, <2>15, <2>16, <2>17 DEF Balanced
<1> QED BY <1>5, <1>6

(***************************************************************************)
(* Five steps of clipping at three sigma or more about the median leave    *)
(* some samples.                                                           *)
(***************************************************************************)
LEMMA SomeClipped ==
  ASSUME DataOK, CentreOK, 2 * stats.median.num = stats.median.den * (lower + upper),
         num_sigma \in Nat, num_sigma >= 3, NEW i \in 0 .. 5
  PROVE  Clipped[i] # {}
<1>0. /\ Clipped[0] = Samples /\ Clipped[1] = ClipStep(Clipped[0]) /\ Clipped[2] = ClipStep(Clipped[1])
      /\ Clipped[3] = ClipStep(Clipped[2]) /\ Clipped[4] = ClipStep(Clipped[3])
      /\ Clipped[5] = ClipStep(Clipped[4])
  <2>1. \A k \in Nat : Clipped[k + 1] = ClipStep(Clipped[k])
    BY ClippedIs
  <2>2. 1 = 0 + 1 /\ 2 = 1 + 1 /\ 3 = 2 + 1 /\ 4 = 3 + 1 /\ 5 = 4 + 1
    OBVIOUS
  <2> QED BY <2>1, <2>2, ClippedIs
<1>1. ASSUME NEW s \in Samples, Centred(s) = 0
      PROVE  Clipped[i] # {}
  <2> DEFINE G == {k \in Nat : s \in Clipped[k]}
  <2>1. 0 \in G
    BY <1>0
  <2>2. ASSUME NEW k \in Nat, k \in G
        PROVE  k + 1 \in G
    <3>1. PICK S : S = Clipped[k]
      OBVIOUS
    <3>2. S \in SUBSET Samples /\ s \in S
      BY <2>2, <3>1, ClippedType
    <3>3. PICK n \in Nat, X \in Int, Q \in Int, V \in Nat : Spread(S, n, X, Q, V)
      BY <3>2, SpreadIs
    <3>4. s \in ClipStep(S)
      BY <1>1, <3>2, <3>3, OutlierFar
    <3> QED BY <3>1, <3>4, ClippedIs
  <2>3. Nat \subseteq G
    <3> HIDE DEF G
    <3> QED BY <2>1, <2>2, AllNaturals
  <2> QED BY <2>3
<1>2. ASSUME Balanced(Samples, 1, 1)
      PROVE  Clipped[i] # {}
  <2>1. Balanced(Clipped[0], 1, 1)
    BY <1>0, <1>2
  <2>2. Balanced(Clipped[1], 7, 5)
    <3>1. PICK r \in Ratios : r = <<1, 1, 7, 5>>
      BY DEF Ratios
    <3> QED BY <1>0, <2>1, <3>1, BalanceKept
  <2>3. Balanced(Clipped[2], 21, 10)
    <3>1. PICK r \in Ratios : r = <<7, 5, 21, 10>>
      BY DEF Ratios
    <3> QED BY <1>0, <2>2, <3>1, BalanceKept
  <2>4. Balanced(Clipped[3], 18, 5)
    <3>1. PICK r \in Ratios : r = <<21, 10, 18, 5>>
      BY DEF Ratios
    <3> QED BY <1>0, <2>3, <3>1, BalanceKept
  <2>5. Balanced(Clipped[4], 9, 1)
    <3>1. PICK r \in Ratios : r = <<18, 5, 9, 1>>
      BY DEF Ratios
    <3> QED BY <1>0, <2>4, <3>1, BalanceKept
  <2>6. Clipped[5] # {}
    BY <1>0, <2>5, SomeKept
  <2>7. i = 0 \/ i = 1 \/ i = 2 \/ i = 3 \/ i = 4 \/ i = 5
    OBVIOUS
  <2> QED BY <2>1, <2>2, <2>3, <2>4, <2>5, <2>6, <2>7 DEF Balanced
<1> QED BY <1>1, <1>2, MedianBalances

ClippedHas ==
  /\ Clipped[0] = Samples
  /\ \A i \in Nat : Clipped[i + 1] = ClipStep(Clipped[i])

(***************************************************************************)
(* What clipping leaves depends on the samples, on their median and on the *)
(* limit alone.                                                            *)
(***************************************************************************)
LEMMA ClippedKept ==
  ASSUME data' = data, stats'.median = stats.median, num_sigma' = num_sigma
  PROVE  /\ Samples' = Samples /\ Deviations' = Deviations /\ Squares' = Squares
         /\ \A s \in Samples : Centred(s)' = Centred(s)
         /\ \A S : SigmaOf(S)' = SigmaOf(S)
         /\ \A i \in Nat : Clipped'[i] = Clipped[i]
         /\ DataOK' = DataOK /\ CentreOK' = CentreOK
<1>1. Samples' = Samples /\ DataOK' = DataOK
  BY DataKept
<1>2. \A s : Centred(s)' = Centred(s)
  BY DEF Centred
<1>3. Deviations' = Deviations /\ Squares' = Squares
  BY <1>1, <1>2 DEF Deviations, Squares
<1>4. \A S : SigmaOf(S)' = SigmaOf(S)
  BY <1>3 DEF SigmaOf
<1>5. \A S : ClipStep(S)' = ClipStep(S)
  BY <1>2, <1>4 DEF ClipStep
<1>6. /\ Clipped'[0] = Samples'
      /\ \A i \in Nat : Clipped'[i + 1] = ClipStep(Clipped[i])'
  <2>1. ClippedHas
    BY ClippedIs DEF ClippedHas
  <2>2. ClippedHas'
    BY ClippedIs, PTL DEF ClippedHas
  <2> QED BY <2>2 DEF ClippedHas
<1> DEFINE G == {i \in Nat : Clipped'[i] = Clipped[i]}
<1>7. 0 \in G
  BY <1>1, <1>6, ClippedIs
<1>8. ASSUME NEW k \in Nat, k \in G
      PROVE  k + 1 \in G
  BY <1>5, <1>6, <1>8, ClippedIs
<1>9. Nat \subseteq G
  <2> HIDE DEF G
  <2> QED BY <1>7, <1>8, AllNaturals
<1> QED BY <1>1, <1>2, <1>3, <1>4, <1>9 DEF CentreOK

------------------------------------------------------------------------------
(* The inductive invariant of estimate_rms.                                 *)

StatsIs == stats = [median |-> stats.median, median_valid |-> stats.median_valid,
                    moments |-> stats.moments, moments_valid |-> stats.moments_valid]

\* The running sums are those of the samples left, which are those within the previous limit.
SumsOK ==
  /\ iter \in Nat
  /\ valid_n_elem = Cardinality(Clipped[iter])
  /\ total_accu = [d1 |-> SumOf(Deviations, Clipped[iter]), d2 |-> SumOf(Squares, Clipped[iter])]
  /\ sigma = SigmaOf(Clipped[iter])
  /\ prev_upper_sigma.num \in Int /\ prev_upper_sigma.den \in Nat
  /\ Clipped[iter] = {s \in Samples : ~ Exceeds(Centred(s), prev_upper_sigma)}

ClipInv ==
  /\ StatsIs /\ CentreOK
  /\ cpc # "idle" =>
       /\ DataOK /\ Narrow /\ num_sigma \in Nat /\ iters \in Nat
       /\ stats.moments_valid => stats.moments = AllMoments
  /\ cpc \in {"clip", "done"} => SumsOK
  /\ cpc = "clip" => iter <= iters
  /\ cpc = "done" => Clipped[iters] = Clipped[iter]

LEMMA SumsKept ==
  ASSUME data' = data, stats'.median = stats.median, num_sigma' = num_sigma, SumsOK,
         UNCHANGED <<iter, valid_n_elem, total_accu, sigma, prev_upper_sigma>>
  PROVE  SumsOK'
<1>1. iter' = iter /\ iter \in Nat
  BY DEF SumsOK
<1>2. PICK S : S = Clipped[iter]
  OBVIOUS
<1>3. Clipped'[iter'] = S
  BY <1>1, <1>2, ClippedKept
<1>4. SigmaOf(Clipped[iter])' = SigmaOf(S)
  <2>1. SigmaOf(S)' = SigmaOf(S)
    BY ClippedKept
  <2> QED BY <1>3, <2>1
<1>5. {s \in Samples : ~ Exceeds(Centred(s), prev_upper_sigma)}'
        = {s \in Samples : ~ Exceeds(Centred(s), prev_upper_sigma)}
  BY ClippedKept DEF Exceeds, NaN
<1>6. Deviations' = Deviations /\ Squares' = Squares
  BY ClippedKept
<1> QED BY <1>1, <1>2, <1>3, <1>4, <1>5, <1>6 DEF SumsOK

\* estimate_rms is called.
LEMMA CallClipKeeps ==
  ASSUME cpc' = "start", DataOK', Narrow', num_sigma' \in Nat, iters' \in Nat, StatsIs', CentreOK',
         stats'.moments_valid => stats'.moments = AllMoments'
  PROVE  ClipInv'
BY DEF ClipInv

LEMMA AwaitKeeps ==
  ASSUME ClipInv, AwaitMedian
  PROVE  ClipInv'
<1>1. /\ cpc = "start" /\ cpc' = "await" /\ data' = data /\ stats' = stats
      /\ num_sigma' = num_sigma /\ iters' = iters
  BY DEF AwaitMedian, CallMedian
<1>2. DataOK' = DataOK /\ Narrow' = Narrow /\ AllMoments' = AllMoments
  BY <1>1, DataKept
<1>3. StatsIs' = StatsIs /\ CentreOK' = CentreOK
  BY <1>1 DEF StatsIs, CentreOK
<1> QED BY <1>1, <1>2, <1>3 DEF ClipInv

LEMMA ReturnKeeps ==
  ASSUME ClipInv, MedianInv, ReturnMedian
  PROVE  ClipInv'
<1>1. /\ cpc = "await" /\ cpc' = "start" /\ data' = data /\ mpc = "done"
      /\ num_sigma' = num_sigma /\ iters' = iters
      /\ stats' = [median |-> median, median_valid |-> TRUE, moments |-> moments, moments_valid |-> TRUE]
  BY DEF ReturnMedian
<1>2. DataOK' = DataOK /\ Narrow' = Narrow /\ AllMoments' = AllMoments
  BY <1>1, DataKept
<1>3. moments = AllMoments /\ median.num \in Int /\ median.den \in Nat \ {0}
  BY <1>1 DEF MedianInv, MedianOK
<1>4. StatsIs' /\ CentreOK' /\ stats'.moments = AllMoments'
  BY <1>1, <1>2, <1>3 DEF StatsIs, CentreOK
<1> QED BY <1>1, <1>2, <1>4 DEF ClipInv

(***************************************************************************)
(* The sums about the median, from those about 0.                          *)
(***************************************************************************)
LEMMA AboutMedian ==
  ASSUME DataOK, CentreOK
  PROVE  About(AllMoments, stats.median.num, stats.median.den, num_elems)
           = [d1 |-> SumOf(Deviations, Samples), d2 |-> SumOf(Squares, Samples)]
<1>1. IsFiniteSet(Samples) /\ num_elems = Cardinality(Samples) /\ \A s \in Samples : data[s] \in Int
  BY DataFacts
<1>2. PICK n \in Nat : n = num_elems /\ n = Cardinality(Samples)
  BY <1>1, FS_CardinalityType
<1>3. PICK y \in Int, z \in Int : y = stats.median.num /\ z = stats.median.den
  BY DEF CentreOK
<1>4. \A s \in Samples : /\ DataSquares[s] = data[s] * data[s] /\ DataSquares[s] \in Int
  <2>1. \A s \in Samples : DataSquares[s] = data[s] * data[s]
    BY DEF DataSquares
  <2>2. \A a \in Int : a * a \in Int
    BY SMT
  <2> QED BY <1>1, <2>1, <2>2
<1>5. PICK X \in Int, Q \in Int : X = SumOf(data, Samples) /\ Q = SumOf(DataSquares, Samples)
  <2>1. SumOf(data, Samples) \in Int
    BY <1>1, SumIsInt
  <2>2. SumOf(DataSquares, Samples) \in Int
    BY <1>1, <1>4, SumIsInt
  <2> QED BY <2>1, <2>2
<1>6. \A s \in Samples : /\ Deviations[s] = z * data[s] - y
                         /\ Squares[s] = (z * data[s] - y) * (z * data[s] - y)
  BY <1>3 DEF Deviations, Squares, Centred
<1>7. SumOf(Deviations, Samples) = z * X - n * y
  <2>1. PICK o \in Int, r \in Int : o = 0 /\ r = -y
    OBVIOUS
  <2>2. IsLinear(Deviations, data, data, Samples, z, o, r)
    <3>1. SUFFICES ASSUME NEW s \in Samples
                   PROVE  data[s] \in Int /\ Deviations[s] = z * data[s] + o * data[s] + r
      BY DEF IsLinear
    <3>2. PICK e \in Int : e = data[s]
      BY <1>1
    <3>3. z * e - y = z * e + 0 * e + (-y)
      BY SMT
    <3> QED BY <1>6, <2>1, <3>2, <3>3
  <2>3. SumOf(Deviations, Samples) = z * X + o * X + r * n
    BY <1>1, <1>2, <1>5, <2>2, SumLinear
  <2>4. z * X + 0 * X + (-y) * n = z * X - n * y
    BY SMT
  <2> QED BY <2>1, <2>3, <2>4
<1>8. SumOf(Squares, Samples) = z * z * Q - 2 * y * z * X + n * y * y
  <2>1. PICK a \in Int, b \in Int, c \in Int : a = z * z /\ b = -2 * y * z /\ c = y * y
    <3>1. z * z \in Int /\ -2 * y * z \in Int /\ y * y \in Int
      BY SMT
    <3> QED BY <3>1
  <2>2. IsLinear(Squares, DataSquares, data, Samples, a, b, c)
    <3>1. SUFFICES ASSUME NEW s \in Samples
                   PROVE  /\ data[s] \in Int /\ DataSquares[s] \in Int
                          /\ Squares[s] = a * DataSquares[s] + b * data[s] + c
      BY DEF IsLinear
    <3>2. PICK e \in Int : e = data[s]
      BY <1>1
    <3>3. (z * e - y) * (z * e - y) = (z * z) * (e * e) + (-2 * y * z) * e + y * y
      BY SMT
    <3>4. DataSquares[s] = e * e /\ DataSquares[s] \in Int
      BY <1>4, <3>2
    <3>5. Squares[s] = (z * e - y) * (z * e - y)
      BY <1>6, <3>2
    <3> QED BY <2>1, <3>2, <3>3, <3>4, <3>5
  <2>3. SumOf(Squares, Samples) = a * Q + b * X + c * n
    BY <1>1, <1>2, <1>5, <2>2, SumLinear
  <2>4. (z * z) * Q + (-2 * y * z) * X + (y * y) * n = z * z * Q - 2 * y * z * X + n * y * y
    BY SMT
  <2> QED BY <2>1, <2>3, <2>4
<1>9. About(AllMoments, y, z, n) = [d1 |-> z * X - n * y, d2 |-> z * z * Q - 2 * y * z * X + n * y * y]
  BY <1>5 DEF About, AllMoments
<1> QED BY <1>2, <1>3, <1>7, <1>8, <1>9

LEMMA StartSumsKeeps ==
  ASSUME ClipInv, StartSums
  PROVE  ClipInv'
<1>1. /\ cpc = "start" /\ cpc' = "clip" /\ num_sigma' = num_sigma /\ iters' = iters /\ data' = data
      /\ valid_n_elem' = num_elems /\ prev_upper_sigma' = Largest /\ iter' = 0
      /\ sigma' = Variance(total_accu', num_elems)
      /\ total_accu' = About(stats'.moments, stats.median.num, stats.median.den, num_elems)
  BY DEF StartSums, medianvars
<1>2. /\ DataOK /\ Narrow /\ num_sigma \in Nat /\ iters \in Nat /\ StatsIs /\ CentreOK
      /\ stats.moments_valid => stats.moments = AllMoments
  BY <1>1 DEF ClipInv
<1>3. stats'.moments = AllMoments /\ StatsIs' /\ stats'.median = stats.median
  <2>1. PICK grain \in Nat \ {0} : grain = 8
    OBVIOUS
  <2>2. PICK ranges \in Ranges(grain) :
          stats' = IF stats.moments_valid THEN stats
                   ELSE [stats EXCEPT !.moments = Totals(ranges), !.moments_valid = TRUE]
    BY <2>1 DEF StartSums
  <2>3. Totals(ranges) = AllMoments
    BY <1>2, TotalsAre
  <2>4. CASE stats.moments_valid
    BY <1>2, <2>2, <2>4 DEF StatsIs
  <2>5. CASE ~ stats.moments_valid
    <3>1. stats' = [stats EXCEPT !.moments = AllMoments, !.moments_valid = TRUE]
      BY <2>2, <2>3, <2>5
    <3>2. stats' = [median |-> stats.median, median_valid |-> stats.median_valid,
                    moments |-> AllMoments, moments_valid |-> TRUE]
      BY <1>2, <3>1 DEF StatsIs
    <3> QED BY <3>2 DEF StatsIs
  <2> QED BY <2>4, <2>5
<1>4. DataOK' /\ Narrow' /\ AllMoments' = AllMoments /\ CentreOK'
  BY <1>1, <1>2, <1>3, DataKept DEF CentreOK
<1>5. total_accu' = [d1 |-> SumOf(Deviations, Samples), d2 |-> SumOf(Squares, Samples)]
  BY <1>1, <1>2, <1>3, AboutMedian
<1>6. Samples' = Samples /\ Deviations' = Deviations /\ Squares' = Squares
      /\ Clipped'[0] = Clipped[0] /\ \A S : SigmaOf(S)' = SigmaOf(S)
  BY <1>1, <1>3, ClippedKept
<1>7. Clipped[0] = Samples
  BY ClippedIs
<1>8. num_elems = Cardinality(Samples)
  BY DEF num_elems
<1>9. sigma' = SigmaOf(Samples)
  BY <1>1, <1>5, <1>8 DEF SigmaOf
<1>10. \A s \in Samples : ~ Exceeds(Centred(s), Largest)
  <2>1. ASSUME NEW s \in Samples
        PROVE  ~ Exceeds(Centred(s), Largest)
    <3>1. PICK x \in Int : x = Centred(s)
      BY <1>2, CentredIs
    <3>2. ~ x * x * 0 > 1
      BY SMT
    <3>3. Largest # NaN /\ Largest.den = 0 /\ Largest.num = 1
      BY DEF Largest, NaN
    <3> QED BY <3>1, <3>2, <3>3 DEF Exceeds
  <2> QED BY <2>1
<1>11. {s \in Samples : ~ Exceeds(Centred(s), prev_upper_sigma)}' = Samples
  <2>1. \A s \in Samples : Centred(s)' = Centred(s)
    BY <1>1, <1>3, ClippedKept
  <2>2. {s \in Samples : ~ Exceeds(Centred(s), prev_upper_sigma)}'
          = {s \in Samples : ~ Exceeds(Centred(s), Largest)}
    BY <1>1, <1>6, <2>1 DEF Exceeds, NaN
  <2> QED BY <1>10, <2>2
<1>12. PICK S : S = Samples /\ Clipped'[iter'] = S /\ SigmaOf(S)' = SigmaOf(S)
  BY <1>1, <1>6, <1>7
<1>13. sigma' = SigmaOf(Clipped[iter])'
  BY <1>9, <1>12
<1>14. SumsOK'
  BY <1>1, <1>5, <1>6, <1>8, <1>11, <1>12, <1>13 DEF SumsOK, Largest
<1> QED BY <1>1, <1>2, <1>3, <1>4, <1>14 DEF ClipInv

(***************************************************************************)
(* Those removed at a step are the ones it leaves out, the limit falls,    *)
(* and the samples outside one limit are outside the next.                 *)
(***************************************************************************)
Removed(upper_sigma) == {s \in Samples : Outlier(s, upper_sigma)}

LEMMA RemovedIs ==
  ASSUME SumsOK
  PROVE  /\ Clipped[iter] \subseteq Samples
         /\ Removed(Times(num_sigma, sigma)) = Clipped[iter] \ ClipStep(Clipped[iter])
         /\ ClipStep(Clipped[iter]) \subseteq Clipped[iter]
<1>1. PICK S : S = Clipped[iter]
  OBVIOUS
<1>2. iter \in Nat /\ sigma = SigmaOf(S) /\ S = {s \in Samples : ~ Exceeds(Centred(s), prev_upper_sigma)}
  BY <1>1 DEF SumsOK
<1>3. Removed(Times(num_sigma, sigma)) = S \ ClipStep(S)
  BY <1>2 DEF Removed, Outlier, ClipStep
<1>4. S \subseteq Samples /\ ClipStep(S) \subseteq S
  BY <1>2 DEF ClipStep
<1> QED BY <1>1, <1>3, <1>4

LEMMA LimitType ==
  ASSUME DataOK, CentreOK, num_sigma \in Nat, NEW S \in SUBSET Samples
  PROVE  Times(num_sigma, SigmaOf(S)).num \in Int /\ Times(num_sigma, SigmaOf(S)).den \in Nat
<1>1. PICK n \in Nat, V \in Nat : SigmaOf(S) = IF S = {} THEN NaN ELSE [num |-> V, den |-> n * n]
  BY SpreadIs
<1>2. PICK x \in Nat, y \in Nat : SigmaOf(S).num = x /\ SigmaOf(S).den = y
  <2>1. n * n \in Nat
    BY SMT
  <2>2. SigmaOf(S).num \in Nat /\ SigmaOf(S).den \in Nat
    BY <1>1, <2>1 DEF NaN
  <2> QED BY <2>2
<1>3. PICK m \in Nat : m = num_sigma
  OBVIOUS
<1>4. m * m * x \in Int
  BY SMT
<1> QED BY <1>2, <1>3, <1>4 DEF Times

LEMMA LimitFalls ==
  ASSUME DataOK, CentreOK, num_sigma \in Nat, SumsOK, NEW r \in Clipped[iter],
         r \notin ClipStep(Clipped[iter])
  PROVE  ClipStep(Clipped[iter])
           = {s \in Samples : ~ Exceeds(Centred(s), Times(num_sigma, sigma))}
<1>1. PICK S : S = Clipped[iter]
  OBVIOUS
<1>2. /\ S \in SUBSET Samples /\ sigma = SigmaOf(S)
      /\ prev_upper_sigma.num \in Int /\ prev_upper_sigma.den \in Nat
      /\ S = {s \in Samples : ~ Exceeds(Centred(s), prev_upper_sigma)}
  BY <1>1 DEF SumsOK
<1>3. PICK u : u = Times(num_sigma, sigma)
  OBVIOUS
<1>4. PICK un \in Int, ud \in Nat : un = u.num /\ ud = u.den
  <2>1. u.num \in Int /\ u.den \in Nat
    BY <1>2, <1>3, LimitType
  <2> QED BY <2>1
<1>5. PICK pn \in Int, pd \in Nat : pn = prev_upper_sigma.num /\ pd = prev_upper_sigma.den
  BY <1>2
<1>6. r \in Samples /\ ~ Exceeds(Centred(r), prev_upper_sigma) /\ Exceeds(Centred(r), u)
  BY <1>1, <1>2, <1>3 DEF ClipStep
<1>7. ASSUME NEW s \in Samples, Exceeds(Centred(s), prev_upper_sigma)
      PROVE  Exceeds(Centred(s), u)
  <2>1. PICK x \in Int, y \in Int : x = Centred(r) /\ y = Centred(s)
    BY <1>6, CentredIs
  <2>2. prev_upper_sigma # NaN /\ ~ x * x * pd > pn
    BY <1>5, <1>6, <2>1 DEF Exceeds
  <2>3. y * y * pd > pn
    BY <1>5, <1>7, <2>1, <2>2 DEF Exceeds
  <2>4. SUFFICES ASSUME u # NaN
                 PROVE  y * y * ud > un
    BY <1>4, <2>1 DEF Exceeds
  <2>5. x * x * ud > un
    BY <1>4, <1>6, <2>1, <2>4 DEF Exceeds
  <2>6. PICK a \in Int, b \in Int : a = x * x /\ b = y * y
    <3>1. x * x \in Int /\ y * y \in Int
      BY SMT
    <3> QED BY <3>1
  <2>7. b > a
    <3>1. \A e, f \in Int, d \in Nat : ~ e * d > pn /\ f * d > pn => f > e
      BY SMT
    <3>2. ~ a * pd > pn /\ b * pd > pn
      BY <2>2, <2>3, <2>6
    <3> QED BY <3>1, <3>2
  <2>8. b * ud >= a * ud
    <3>1. \A e, f \in Int, d \in Nat : f > e => f * d >= e * d
      BY SMT
    <3> QED BY <2>7, <3>1
  <2>9. PICK ad \in Int, bd \in Int : ad = a * ud /\ bd = b * ud
    <3>1. a * ud \in Int /\ b * ud \in Int
      BY SMT
    <3> QED BY <3>1
  <2>10. ad > un /\ bd >= ad
    BY <2>5, <2>6, <2>8, <2>9
  <2>11. bd > un
    BY <2>10, SMT
  <2> QED BY <2>6, <2>9, <2>11
<1>8. ClipStep(S) = {s \in S : ~ Exceeds(Centred(s), u)}
  BY <1>2, <1>3 DEF ClipStep
<1> QED BY <1>1, <1>2, <1>3, <1>7, <1>8

\* A step that removes nothing is followed by others that remove nothing.
LEMMA StaysClipped ==
  ASSUME NEW i \in Nat, ClipStep(Clipped[i]) = Clipped[i], NEW j \in Nat, j >= i
  PROVE  Clipped[j] = Clipped[i]
<1> DEFINE G == {k \in Nat : Clipped[i + k] = Clipped[i]}
<1>1. 0 \in G
  OBVIOUS
<1>2. ASSUME NEW k \in Nat, k \in G
      PROVE  k + 1 \in G
  <2>1. i + k \in Nat /\ i + (k + 1) = (i + k) + 1
    OBVIOUS
  <2>2. Clipped[(i + k) + 1] = ClipStep(Clipped[i + k])
    BY <2>1, ClippedIs
  <2> QED BY <1>2, <2>1, <2>2
<1>3. Nat \subseteq G
  <2> HIDE DEF G
  <2> QED BY <1>1, <1>2, AllNaturals
<1>4. j - i \in Nat /\ i + (j - i) = j
  OBVIOUS
<1>5. j - i \in G
  BY <1>3, <1>4
<1> QED BY <1>4, <1>5

\* The sum over the samples that are left is that of all less that of the removed ones.
LEMMA SumLeft ==
  ASSUME DataOK, NEW S \in SUBSET Samples, NEW T \in SUBSET S, NEW grain \in Nat \ {0},
         NEW ranges \in Ranges(grain), NEW step \in Nat \ {0}, NEW w,
         \A s \in Samples : w[s] \in Int
  PROVE  SumOf(w, T)
           = SumOf(w, S) - SumOver(ranges, step, [s \in Samples |-> IF s \in S \ T THEN w[s] ELSE 0])
<1>1. PICK R : R = S \ T
  OBVIOUS
<1>2. PICK f : f = [s \in Samples |-> IF s \in R THEN w[s] ELSE 0]
  OBVIOUS
<1>3. IsFiniteSet(Samples)
  BY DataFacts
<1>4. /\ IsFiniteSet(T) /\ IsFiniteSet(R) /\ R \in SUBSET Samples /\ T \in SUBSET Samples
      /\ T \cap R = {} /\ T \union R = S
  <2>1. R \in SUBSET Samples /\ T \in SUBSET Samples /\ T \cap R = {} /\ T \union R = S
    BY <1>1
  <2>2. IsFiniteSet(T) /\ IsFiniteSet(R)
    BY <1>3, <2>1, FS_Subset
  <2> QED BY <2>1, <2>2
<1>5. \A s \in Samples : /\ f[s] \in Int
                         /\ s \in R => f[s] = w[s]
                         /\ s \notin R => f[s] = 0
  BY <1>2
<1>6. SumOver(ranges, step, f) = SumOf(f, Samples)
  BY <1>5, SumOverAll
<1>7. SumOf(f, Samples) = SumOf(f, R)
  BY <1>3, <1>4, <1>5, SumWithout
<1>8. SumOf(f, R) = SumOf(w, R)
  BY <1>4, <1>5, SumSame
<1>9. SumOf(w, S) = SumOf(w, T) + SumOf(w, R)
  BY <1>4, SumUnion
<1>10. SumOf(w, T) \in Int /\ SumOf(w, R) \in Int
  BY <1>4, SumIsInt
<1> QED BY <1>1, <1>2, <1>6, <1>7, <1>8, <1>9, <1>10

LEMMA ClipOnceKeeps ==
  ASSUME ClipInv, ClipOnce
  PROVE  ClipInv'
<1>1. /\ cpc = "clip" /\ iter < iters /\ data' = data /\ stats' = stats
      /\ num_sigma' = num_sigma /\ iters' = iters
  BY DEF ClipOnce, medianvars
<1>2. /\ DataOK /\ Narrow /\ num_sigma \in Nat /\ iters \in Nat /\ StatsIs /\ CentreOK /\ SumsOK
      /\ stats.moments_valid => stats.moments = AllMoments
  BY <1>1 DEF ClipInv
<1>3. /\ DataOK' /\ Narrow' /\ AllMoments' = AllMoments /\ CentreOK' /\ StatsIs'
      /\ Samples' = Samples /\ Deviations' = Deviations /\ Squares' = Squares
      /\ \A k \in Nat : Clipped'[k] = Clipped[k]
  BY <1>1, <1>2, DataKept, ClippedKept DEF CentreOK, StatsIs
<1>4. /\ num_sigma' \in Nat /\ iters' \in Nat
      /\ stats'.moments_valid => stats'.moments = AllMoments'
  BY <1>1, <1>2, <1>3
<1>5. PICK S, T : S = Clipped[iter] /\ T = ClipStep(S)
  OBVIOUS
<1>6. /\ iter \in Nat /\ valid_n_elem = Cardinality(S) /\ sigma = SigmaOf(S)
      /\ total_accu = [d1 |-> SumOf(Deviations, S), d2 |-> SumOf(Squares, S)]
  BY <1>2, <1>5 DEF SumsOK
<1>7. PICK u : u = Times(num_sigma, sigma)
  OBVIOUS
<1>8. S \in SUBSET Samples /\ T \in SUBSET S /\ Removed(u) = S \ T
  BY <1>2, <1>5, <1>7, RemovedIs
<1>9. IsFiniteSet(Samples) /\ \A s \in Samples : Deviations[s] \in Int /\ Squares[s] \in Int
  BY <1>2, CentredIs
<1>10. IsFiniteSet(S) /\ IsFiniteSet(T) /\ IsFiniteSet(S \ T)
  BY <1>8, <1>9, FS_Subset
<1>11. PICK grain \in Nat \ {0}, step \in Nat \ {0} : grain = 4 /\ step = 2
  OBVIOUS
<1> DEFINE Of(x) == [s \in Samples |-> IF Outlier(s, u) THEN x[s] ELSE 0]
<1>12. PICK ranges \in Ranges(grain) :
         IF CountOver(ranges, step, Removed(u)) = 0
         THEN cpc' = "done"
              /\ UNCHANGED <<total_accu, valid_n_elem, prev_upper_sigma, sigma, iter>>
         ELSE /\ valid_n_elem' = valid_n_elem - CountOver(ranges, step, Removed(u))
              /\ total_accu' = [d1 |-> total_accu.d1 - SumOver(ranges, step, Of(Deviations)),
                                d2 |-> total_accu.d2 - SumOver(ranges, step, Of(Squares))]
              /\ sigma' = Variance(total_accu', valid_n_elem')
              /\ prev_upper_sigma' = u
              /\ iter' = iter + 1
              /\ cpc' = cpc
  BY <1>7, <1>11 DEF ClipOnce, Removed
<1>13. CountOver(ranges, step, Removed(u)) = Cardinality(S \ T)
  BY <1>2, <1>8, CountOverAll
<1>14. Clipped[iter + 1] = T
  BY <1>5, <1>6, ClippedIs
<1>15. CASE Cardinality(S \ T) = 0
  <2>1. UNCHANGED <<iter, valid_n_elem, total_accu, sigma, prev_upper_sigma>> /\ cpc' = "done"
    BY <1>12, <1>13, <1>15
  <2>2. SumsOK'
    BY <1>1, <1>2, <2>1, SumsKept
  <2>3. T = S
    <3>1. S \ T = {}
      BY <1>10, <1>15, FS_EmptySet
    <3> QED BY <1>8, <3>1
  <2>4. Clipped[iters] = Clipped[iter]
    <3>1. iters >= iter
      BY <1>1, <1>2, <1>6
    <3> QED BY <1>2, <1>5, <1>6, <2>3, <3>1, StaysClipped
  <2>5. Clipped'[iters'] = Clipped'[iter']
    BY <1>1, <1>2, <1>3, <1>6, <2>1, <2>4
  <2> QED BY <1>3, <1>4, <2>1, <2>2, <2>5 DEF ClipInv
<1>16. CASE Cardinality(S \ T) # 0
  <2>1. /\ valid_n_elem' = valid_n_elem - Cardinality(S \ T)
        /\ total_accu' = [d1 |-> total_accu.d1 - SumOver(ranges, step, Of(Deviations)),
                          d2 |-> total_accu.d2 - SumOver(ranges, step, Of(Squares))]
        /\ sigma' = Variance(total_accu', valid_n_elem')
        /\ prev_upper_sigma' = u
        /\ iter' = iter + 1
        /\ cpc' = "clip"
    BY <1>1, <1>12, <1>13, <1>16
  <2>2. PICK r : r \in S \ T
    <3>1. S \ T # {}
      BY <1>16, FS_EmptySet
    <3> QED BY <3>1
  <2>3. \A s \in Samples : Outlier(s, u) <=> s \in S \ T
    BY <1>8 DEF Removed
  <2>4. Of(Deviations) = [s \in Samples |-> IF s \in S \ T THEN Deviations[s] ELSE 0]
        /\ Of(Squares) = [s \in Samples |-> IF s \in S \ T THEN Squares[s] ELSE 0]
    BY <2>3
  <2>5. SumOf(Deviations, T) = SumOf(Deviations, S) - SumOver(ranges, step, Of(Deviations))
    <3>1. PICK w : w = Deviations
      OBVIOUS
    <3>2. \A s \in Samples : w[s] \in Int
      BY <1>9, <3>1
    <3>3. SumOf(w, T)
            = SumOf(w, S) - SumOver(ranges, step, [s \in Samples |-> IF s \in S \ T THEN w[s] ELSE 0])
      BY <1>2, <1>8, <3>2, SumLeft
    <3> QED BY <2>4, <3>1, <3>3
  <2>6. SumOf(Squares, T) = SumOf(Squares, S) - SumOver(ranges, step, Of(Squares))
    <3>1. PICK w : w = Squares
      OBVIOUS
    <3>2. \A s \in Samples : w[s] \in Int
      BY <1>9, <3>1
    <3>3. SumOf(w, T)
            = SumOf(w, S) - SumOver(ranges, step, [s \in Samples |-> IF s \in S \ T THEN w[s] ELSE 0])
      BY <1>2, <1>8, <3>2, SumLeft
    <3> QED BY <2>4, <3>1, <3>3
  <2>7. total_accu' = [d1 |-> SumOf(Deviations, T), d2 |-> SumOf(Squares, T)]
    <3> HIDE DEF Of
    <3> QED BY <1>6, <2>1, <2>5, <2>6
  <2>8. valid_n_elem' = Cardinality(T)
    <3>1. (S \ T) \cap T = {} /\ (S \ T) \union T = S
      BY <1>8
    <3>2. Cardinality(T) \in Nat /\ Cardinality(S \ T) \in Nat
      BY <1>10, FS_CardinalityType
    <3>3. Cardinality((S \ T) \union T)
            = Cardinality(S \ T) + Cardinality(T) - Cardinality((S \ T) \cap T)
      BY <1>10, FS_Union
    <3>4. Cardinality((S \ T) \cap T) = 0
      BY <3>1, FS_EmptySet
    <3>5. Cardinality(S) = Cardinality(S \ T) + Cardinality(T)
      <4>1. PICK a \in Nat, b \in Nat : a = Cardinality(S \ T) /\ b = Cardinality(T)
        BY <3>2
      <4>2. Cardinality(S) = a + b - 0
        BY <3>1, <3>3, <3>4, <4>1
      <4> QED BY <4>1, <4>2
    <3> QED BY <1>6, <2>1, <3>2, <3>5
  <2>9. sigma' = SigmaOf(T) /\ SigmaOf(T)' = SigmaOf(T)
    BY <1>3, <2>1, <2>7, <2>8 DEF SigmaOf
  <2>10. T = {s \in Samples : ~ Exceeds(Centred(s), u)}
    BY <1>2, <1>5, <1>7, <2>2, LimitFalls
  <2>11. {s \in Samples : ~ Exceeds(Centred(s), prev_upper_sigma)}' = T
    <3>1. \A s \in Samples : Centred(s)' = Centred(s)
      BY <1>1, ClippedKept
    <3>2. {s \in Samples : ~ Exceeds(Centred(s), prev_upper_sigma)}'
            = {s \in Samples : ~ Exceeds(Centred(s), u)}
      BY <1>3, <2>1, <3>1 DEF Exceeds, NaN
    <3> QED BY <2>10, <3>2
  <2>12. Clipped'[iter'] = T /\ iter' \in Nat
    <3>1. iter + 1 \in Nat
      BY <1>6
    <3> QED BY <1>3, <1>14, <2>1, <3>1
  <2>13. u.num \in Int /\ u.den \in Nat
    BY <1>2, <1>6, <1>7, <1>8, LimitType
  <2>14. sigma' = SigmaOf(Clipped[iter])'
    BY <2>9, <2>12
  <2>15. SumsOK'
    BY <1>3, <2>1, <2>7, <2>8, <2>11, <2>12, <2>13, <2>14 DEF SumsOK
  <2>16. iter' <= iters'
    BY <1>1, <1>2, <1>6, <2>1
  <2> QED BY <1>3, <1>4, <2>1, <2>15, <2>16 DEF ClipInv
<1> QED BY <1>15, <1>16

LEMMA OverKeeps ==
  ASSUME ClipInv, ClipIterationsOver
  PROVE  ClipInv'
<1>1. /\ cpc = "clip" /\ iter >= iters /\ cpc' = "done"
      /\ UNCHANGED <<data, stats, num_sigma, iters, total_accu, valid_n_elem, prev_upper_sigma, sigma,
                     iter>>
  BY DEF ClipIterationsOver, medianvars
<1>2. /\ DataOK /\ Narrow /\ num_sigma \in Nat /\ iters \in Nat /\ StatsIs /\ CentreOK /\ SumsOK
      /\ iter <= iters
      /\ stats.moments_valid => stats.moments = AllMoments
  BY <1>1 DEF ClipInv
<1>3. SumsOK' /\ DataOK' /\ Narrow' /\ CentreOK' /\ AllMoments' = AllMoments
  BY <1>1, <1>2, SumsKept, DataKept, ClippedKept
<1>4. iter = iters
  BY <1>1, <1>2 DEF SumsOK
<1>5. StatsIs'
  BY <1>1, <1>2 DEF StatsIs
<1> QED BY <1>1, <1>2, <1>3, <1>4, <1>5 DEF ClipInv

LEMMA RmsStepKeeps ==
  ASSUME ClipInv, MedianInv, RmsStep
  PROVE  ClipInv'
BY AwaitKeeps, ReturnKeeps, StartSumsKeeps, ClipOnceKeeps, OverKeeps DEF RmsStep

LEMMA RmsIdleKeeps ==
  ASSUME ClipInv, UNCHANGED <<data, clipvars>>
  PROVE  ClipInv'
<1>1. UNCHANGED <<data, cpc, stats, num_sigma, iters, total_accu, valid_n_elem, prev_upper_sigma,
                  sigma, iter>>
  BY DEF clipvars
<1>2. StatsIs' /\ CentreOK'
  BY <1>1 DEF ClipInv, StatsIs, CentreOK
<1>3. DataOK' = DataOK /\ Narrow' = Narrow /\ AllMoments' = AllMoments
  BY <1>1, DataKept
<1>4. SumsOK => SumsOK'
  BY <1>1, SumsKept
<1>5. cpc = "done" => Clipped'[iters'] = Clipped'[iter']
  <2>1. ASSUME cpc = "done"
        PROVE  iter \in Nat /\ iters \in Nat /\ Clipped[iters] = Clipped[iter]
    BY <2>1 DEF ClipInv, SumsOK
  <2> QED BY <1>1, <2>1, ClippedKept
<1> QED BY <1>1, <1>2, <1>3, <1>4, <1>5 DEF ClipInv

LEMMA ClipInvImplies ==
  ASSUME ClipInv
  PROVE  SumsMatchSurvivors /\ SomeSampleSurvives
<1>1. cpc \in {"clip", "done"} => SumsOK /\ DataOK /\ CentreOK /\ num_sigma \in Nat
  BY DEF ClipInv
<1>2. SumsMatchSurvivors
  <2>1. cpc = "done" => Clipped[iters] = Clipped[iter]
    BY DEF ClipInv
  <2> QED BY <1>1, <2>1 DEF SumsMatchSurvivors, SumsOK
<1>3. ASSUME cpc \in {"clip", "done"}, num_sigma >= 3, iter <= 5,
             stats.median.num * MedianOf(Samples, Middle).den
               = MedianOf(Samples, Middle).num * stats.median.den
      PROVE  valid_n_elem > 0 /\ sigma # NaN
  <2>1. SumsOK /\ DataOK /\ CentreOK /\ num_sigma \in Nat
    BY <1>1, <1>3
  <2>2. PICK xn \in Int, xd \in Nat \ {0} :
          xn = MedianOf(Samples, Middle).num /\ xd = MedianOf(Samples, Middle).den
    BY <2>1, MedianIs
  <2>3. PICK c \in Int : c = lower + upper
    <3>1. lower + upper \in Int
      BY <2>1, MiddleFacts
    <3> QED BY <3>1
  <2>4. PICK y \in Int, z \in Nat \ {0} : y = stats.median.num /\ z = stats.median.den
    BY <2>1 DEF CentreOK
  <2>5. 2 * xn = xd * c /\ y * xd = xn * z
    BY <1>3, <2>1, <2>2, <2>3, <2>4, MedianIs
  <2>6. 2 * y = z * c
    <3>1. xd * (2 * y) = xd * (z * c)
      <4>1. xd * (2 * y) = 2 * (y * xd)
        BY SMT
      <4>2. 2 * (xn * z) = (2 * xn) * z
        BY SMT
      <4>3. (xd * c) * z = xd * (z * c)
        BY SMT
      <4> QED BY <2>5, <4>1, <4>2, <4>3
    <3>2. \A a \in Nat \ {0}, b, d \in Int : a * b = a * d => b = d
      BY SMT
    <3>3. 2 * y \in Int /\ z * c \in Int
      BY SMT
    <3> QED BY <3>1, <3>2, <3>3
  <2>7. iter \in 0 .. 5
    BY <1>3, <2>1 DEF SumsOK
  <2>8. Clipped[iter] # {}
    BY <1>3, <2>1, <2>3, <2>4, <2>6, <2>7, SomeClipped
  <2>9. PICK S : S = Clipped[iter]
    OBVIOUS
  <2>10. S \in SUBSET Samples /\ valid_n_elem = Cardinality(S) /\ sigma = SigmaOf(S) /\ S # {}
    BY <2>1, <2>8, <2>9 DEF SumsOK
  <2>11. PICK n \in Nat, X \in Int, Q \in Int, V \in Nat :
           /\ n = Cardinality(S)
           /\ SigmaOf(S) = [num |-> V, den |-> n * n]
           /\ n # 0
    BY <2>1, <2>10, SpreadIs
  <2>12. n * n # 0
    BY <2>11, SMT
  <2> QED BY <2>10, <2>11, <2>12 DEF NaN
<1> QED BY <1>2, <1>3 DEF SomeSampleSurvives
==============================================================================
