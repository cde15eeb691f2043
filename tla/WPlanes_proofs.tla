---------------------------- MODULE WPlanes_proofs ----------------------------
(***************************************************************************)
(* Proofs about the division of the visibilities into w-planes.            *)
(*                                                                         *)
(* The types hold for all arguments.  The three properties of the division *)
(* need the assumption under which average_w_planes works, InBoundsFirst:  *)
(* the visibilities that are gridded come first, one at least for each     *)
(* plane.  Then the planes divide an interval 0 .. g-1, and the invariant  *)
(* says how: each plane that is closed holds floor(g / num_wplanes)        *)
(* visibilities or one more, and so many are left that the planes still    *)
(* open can do the same.                                                   *)
(***************************************************************************)
EXTENDS WPlanes, NumberLemmas

------------------------------------------------------------------------------
(***************************************************************************)
(* The types.                                                              *)
(***************************************************************************)

\* Types, and a finite number of visibilities.
TInv == IsFiniteSet(DOMAIN good_vis) /\ PlanesTypeOK

(***************************************************************************)
(* The greatest of some integers, as Max chooses it.                       *)
(***************************************************************************)
LEMMA MaxOf ==
  ASSUME NEW S, S \subseteq Int, S # {}, NEW b \in Int, \A x \in S : x <= b
  PROVE  Max(S) \in S /\ \A y \in S : y <= Max(S)
<1>1. PICK k \in S : \A m \in S : m <= k
  BY Greatest
<1>2. k \in S /\ \A y \in S : k >= y
  BY <1>1
<1>3. Max(S) \in S /\ \A y \in S : Max(S) >= y
  BY <1>2 DEF Max
<1> QED BY <1>3

LEMMA MaxSingle ==
  ASSUME NEW x \in Int
  PROVE  Max({x}) = x
<1>1. Max({x}) \in {x}
  BY MaxOf
<1> QED BY <1>1

LEMMA GoodTyped ==
  ASSUME IsFiniteSet(DOMAIN good_vis)
  PROVE  /\ n \in Nat
         /\ Good \subseteq 0 .. n - 1
         /\ IsFiniteSet(Good)
         /\ Cardinality(Good) \in 0 .. n
<1>1. n \in Nat
  BY FS_CardinalityType DEF n
<1>2. Good \subseteq 0 .. n - 1
  BY DEF Good
<1>3. IsFiniteSet(0 .. n - 1) /\ Cardinality(0 .. n - 1) = n
  <2> DEFINE top == n - 1
  <2>1. IsFiniteSet(0 .. top) /\ Cardinality(0 .. top) = IF 0 > top THEN 0 ELSE top - 0 + 1
    BY <1>1, FS_Interval
  <2> QED BY <1>1, <2>1
<1>4. IsFiniteSet(Good) /\ Cardinality(Good) <= n
  BY <1>2, <1>3, FS_Subset
<1>5. Cardinality(Good) \in Nat
  BY <1>4, FS_CardinalityType
<1> QED BY <1>1, <1>2, <1>4, <1>5

(***************************************************************************)
(* The visibilities a plane takes are good ones, the loop stops behind     *)
(* one of them or at the end, and what is averaged are their indices; only *)
(* the index before the middle one can be -1.                              *)
(***************************************************************************)
LEMMA StepTyped ==
  ASSUME TInv, NEW size
  PROVE  /\ Taken(size) \subseteq 0 .. n - 1
         /\ StopAt(size) \in 0 .. n
         /\ Averaged(size) \subseteq -1 .. n - 1
<1>1. n \in Nat /\ Good \subseteq 0 .. n - 1
  BY GoodTyped DEF TInv
<1>2. begin \in 0 .. n
  BY DEF TInv, PlanesTypeOK
<1>3. Taken(size) \subseteq 0 .. n - 1
  BY <1>1 DEF Taken
<1>4. StopAt(size) \in 0 .. n
  <2>1. CASE size = 0
    BY <1>2, <2>1 DEF StopAt
  <2>2. CASE size # 0 /\ Cardinality(Taken(size)) # size
    BY <1>1, <2>2 DEF StopAt
  <2>3. CASE size # 0 /\ Cardinality(Taken(size)) = size
    <3>1. Taken(size) # {}
      BY <2>3, FS_EmptySet
    <3>2. Taken(size) \subseteq Int /\ \A x \in Taken(size) : x <= n
      BY <1>1, <1>3
    <3>3. Max(Taken(size)) \in 0 .. n - 1
      BY <1>1, <1>3, <3>1, <3>2, MaxOf
    <3> QED BY <1>1, <2>3, <3>3 DEF StopAt
  <2> QED BY <2>1, <2>2, <2>3
<1>5. Taken(size) # {} => Middle(size) \in 0 .. n - 1
  <2> SUFFICES ASSUME Taken(size) # {} PROVE Middle(size) \in 0 .. n - 1
    OBVIOUS
  <2> DEFINE mid == IF Wrapped THEN {} ELSE Nth(Taken(size), size \div 2)
  <2>1. mid \subseteq Taken(size)
    BY DEF Nth
  <2>2. Middle(size) = IF mid = {} THEN 0 ELSE Max(mid)
    BY DEF Middle
  <2>3. 0 \in 0 .. n - 1
    BY <1>1, <1>3
  <2> HIDE DEF mid
  <2>4. CASE mid = {}
    BY <2>2, <2>3, <2>4
  <2>5. CASE mid # {}
    <3>1. n \in Int /\ mid \subseteq Int /\ \A x \in mid : x <= n
      BY <1>1, <1>3, <2>1
    <3>2. Max(mid) \in mid
      BY ONLY <2>5, <3>1, MaxOf
    <3> QED BY <1>3, <2>1, <2>2, <2>5, <3>2
  <2> QED BY <2>4, <2>5
<1>6. Averaged(size) \subseteq -1 .. n - 1
  <2>1. CASE Taken(size) = {} \/ ~ median
    BY <1>1, <1>3, <2>1 DEF Averaged
  <2>2. CASE Taken(size) # {} /\ median
    <3>1. Averaged(size) \subseteq {Middle(size) - 1, Middle(size)}
      BY <2>2 DEF Averaged
    <3>2. Middle(size) \in -1 .. n - 1 /\ Middle(size) - 1 \in -1 .. n - 1
      BY <1>1, <1>5, <2>2
    <3> QED BY <3>1, <3>2
  <2> QED BY <2>1, <2>2
<1> QED BY <1>3, <1>4, <1>6

\* Before the first plane.
LEMMA TInvStart ==
  ASSUME IsFiniteSet(DOMAIN good_vis), good_vis \in [0 .. n - 1 -> 0..2],
         num_wplanes \in Nat \ {0}, median \in BOOLEAN, PlanesInit
  PROVE  TInv
<1>1. n \in Nat
  BY GoodTyped
<1>2. idx \in 0..num_wplanes /\ begin \in 0..n
  BY <1>1 DEF PlanesInit
<1>3. firstidx \in [Plane -> 0..n] /\ w_avg \in [Plane -> SUBSET (-1 .. n - 1)]
  BY <1>1 DEF PlanesInit
<1> QED BY <1>2, <1>3 DEF TInv, PlanesTypeOK

LEMMA TInvInit == Init => TInv
<1> SUFFICES ASSUME Init PROVE TInv
  OBVIOUS
<1>1. PICK a \in Arguments :
        /\ good_vis = a.good_vis
        /\ num_wplanes = a.num_wplanes
        /\ median = a.median
  BY DEF Init
<1>2. /\ IsFiniteSet(DOMAIN good_vis)
      /\ good_vis \in [0 .. n - 1 -> 0..2]
      /\ num_wplanes \in Nat \ {0}
      /\ median \in BOOLEAN
  BY <1>1, PlanesAssumption DEF n
<1> QED BY <1>2, TInvStart DEF Init

LEMMA TInvStep == TInv /\ [NextPlane \/ Returned]_vars => TInv'
<1> SUFFICES ASSUME TInv, [NextPlane \/ Returned]_vars PROVE TInv'
  OBVIOUS
<1>1. CASE NextPlane
  <2>1. PICK size \in plane_size :
          /\ w_avg' = [w_avg EXCEPT ![idx] = Averaged(size)]
          /\ begin' = StopAt(size)
    BY <1>1 DEF NextPlane
  <2>2. /\ good_vis' = good_vis /\ num_wplanes' = num_wplanes /\ median' = median
        /\ idx < num_wplanes /\ idx' = idx + 1
        /\ firstidx' = [firstidx EXCEPT ![idx] = begin]
    BY <1>1 DEF NextPlane
  <2>3. n' = n /\ Plane' = Plane
    BY <2>2 DEF n, Plane
  <2>4. StopAt(size) \in 0 .. n /\ Averaged(size) \in SUBSET (-1 .. n - 1)
    BY StepTyped
  <2>5. idx' \in 0 .. num_wplanes
    BY <2>2 DEF TInv, PlanesTypeOK
  <2>6. firstidx' \in [Plane -> 0 .. n]
    BY <2>2 DEF TInv, PlanesTypeOK
  <2>7. w_avg' \in [Plane -> SUBSET (-1 .. n - 1)]
    BY <2>1, <2>4 DEF TInv, PlanesTypeOK
  <2> QED BY <2>1, <2>2, <2>3, <2>4, <2>5, <2>6, <2>7 DEF TInv, PlanesTypeOK
<1>2. CASE Returned \/ UNCHANGED vars
  BY <1>2 DEF Returned, vars, planevars, TInv, PlanesTypeOK, n, Plane
<1> QED BY <1>1, <1>2

(***************************************************************************)
(* average_w_planes stays within its arrays, whatever the arguments: the   *)
(* planes begin at indices of visibilities, or behind the last, and an     *)
(* average is one of w-values; only w_lambda(idx_mid - 1) may be taken at  *)
(* -1, when a plane got no visibility in its middle.                       *)
(***************************************************************************)
THEOREM PlanesTyped == Spec => []PlanesTypeOK
<1>1. TInv => PlanesTypeOK
  BY DEF TInv
<1> QED BY <1>1, TInvInit, TInvStep, PTL DEF Spec

------------------------------------------------------------------------------
(***************************************************************************)
(* The planes follow each other, whatever the arguments: a plane never     *)
(* ends before its first visibility.                                       *)
(***************************************************************************)
Ordered ==
  /\ idx = 0 => begin = 0
  /\ idx > 0 => firstidx[0] = 0
  /\ \A p \in 0 .. idx - 1 : firstidx[p] <= begin
  /\ \A q \in 0 .. idx - 1 : \A p \in 0 .. q : firstidx[p] <= firstidx[q]

LEMMA StopForward ==
  ASSUME TInv, NEW size
  PROVE  begin <= StopAt(size)
<1>1. n \in Nat /\ Good \subseteq 0 .. n - 1 /\ begin \in 0 .. n
  BY GoodTyped DEF TInv, PlanesTypeOK
<1>2. CASE size = 0
  BY <1>1, <1>2 DEF StopAt
<1>3. CASE size # 0 /\ Cardinality(Taken(size)) # size
  BY <1>1, <1>3 DEF StopAt
<1>4. CASE size # 0 /\ Cardinality(Taken(size)) = size
  <2>1. Taken(size) # {} /\ Taken(size) \subseteq 0 .. n - 1
    BY <1>4, FS_EmptySet, StepTyped
  <2>2. \A x \in Taken(size) : x <= n
    BY <1>1, <2>1
  <2>3. Max(Taken(size)) \in Taken(size)
    <3>1. Taken(size) \subseteq Int /\ n \in Int
      BY <1>1, <2>1
    <3> QED BY <2>1, <2>2, <3>1, MaxOf
  <2>4. Max(Taken(size)) >= begin /\ Max(Taken(size)) \in 0 .. n - 1
    BY <2>1, <2>3 DEF Taken
  <2> QED BY <1>1, <1>4, <2>4 DEF StopAt
<1> QED BY <1>2, <1>3, <1>4

LEMMA OrderedStep == TInv /\ Ordered /\ [NextPlane \/ Returned]_vars => Ordered'
<1> SUFFICES ASSUME TInv, Ordered, [NextPlane \/ Returned]_vars PROVE Ordered'
  OBVIOUS
<1>1. /\ idx \in Nat /\ idx <= num_wplanes /\ num_wplanes \in Nat /\ begin \in Int
      /\ firstidx \in [0 .. num_wplanes - 1 -> Int]
  <2>1. n \in Nat
    BY GoodTyped DEF TInv
  <2> QED BY <2>1 DEF TInv, PlanesTypeOK, Plane
<1>2. CASE NextPlane
  <2>1. PICK size \in plane_size : begin' = StopAt(size)
    BY <1>2 DEF NextPlane
  <2>2. idx < num_wplanes /\ idx' = idx + 1 /\ firstidx' = [firstidx EXCEPT ![idx] = begin]
    BY <1>2 DEF NextPlane
  <2>3. begin' \in Int /\ begin <= begin'
    <3>1. n \in Nat
      BY GoodTyped DEF TInv
    <3> QED BY <2>1, <3>1, StepTyped, StopForward
  <2>4. /\ idx \in 0 .. num_wplanes - 1 /\ firstidx'[idx] = begin
        /\ \A p \in 0 .. idx - 1 : firstidx'[p] = firstidx[p] /\ firstidx[p] \in Int
    BY <1>1, <2>2
  <2>5. firstidx'[0] = 0
    <3>1. CASE idx = 0
      BY <2>4, <3>1 DEF Ordered
    <3>2. CASE idx > 0
      BY <1>1, <2>4, <3>2 DEF Ordered
    <3> QED BY <1>1, <3>1, <3>2
  <2>6. ASSUME NEW p \in 0 .. idx PROVE firstidx'[p] <= begin
    BY <1>1, <2>4 DEF Ordered
  <2>7. ASSUME NEW q \in 0 .. idx, NEW p \in 0 .. q PROVE firstidx'[p] <= firstidx'[q]
    <3>1. CASE q = idx
      BY <2>4, <2>6, <3>1
    <3>2. CASE q < idx
      BY <1>1, <2>4, <3>2 DEF Ordered
    <3> QED BY <1>1, <3>1, <3>2
  <2>8. \A p \in 0 .. idx : firstidx'[p] <= begin'
    <3> TAKE p \in 0 .. idx
    <3>1. firstidx'[p] \in Int
      BY <1>1, <2>4
    <3> QED BY <1>1, <2>3, <2>6, <3>1
  <2> QED BY <1>1, <2>2, <2>5, <2>7, <2>8 DEF Ordered
<1>3. CASE Returned \/ UNCHANGED vars
  BY <1>3 DEF Returned, vars, planevars, Ordered
<1> QED BY <1>2, <1>3

------------------------------------------------------------------------------
(***************************************************************************)
(* The division, when the visibilities in bounds come first.               *)
(***************************************************************************)

\* The number of visibilities a plane holds, or one less.
Share == Cardinality(Good) \div num_wplanes

\* The first visibility of plane p, for the planes closed so far and the next.
Boundary(p) == IF p < idx THEN firstidx[p] ELSE begin

\* The visibilities of a closed plane.
Interval(p) == Boundary(p) .. Boundary(p + 1) - 1

\* The good visibilities are the first ones, at least one for each plane.
GoodFirst ==
  /\ Good = 0 .. Cardinality(Good) - 1
  /\ num_wplanes <= Cardinality(Good)

\* The visibilities left fill the planes left with Share each, or one more.
EnoughLeft ==
  /\ Share * (num_wplanes - idx) <= Cardinality(Good) - begin
  /\ Cardinality(Good) - begin <= (Share + 1) * (num_wplanes - idx)

\* The closed planes follow each other from 0 on, hold Share visibilities or
\* one more, and their averages are taken over these.
ClosedPlanes ==
  /\ Boundary(0) = 0
  /\ \A p \in 0 .. idx : Boundary(p) \in 0 .. Cardinality(Good)
  /\ \A p \in 0 .. idx - 1 :
       /\ Boundary(p + 1) - Boundary(p) \in {Share, Share + 1}
       /\ w_avg[p] = IF median THEN MedianOf(Interval(p)) ELSE Interval(p)

\* The inductive invariant.
PInv == TInv /\ GoodFirst /\ EnoughLeft /\ ClosedPlanes

(***************************************************************************)
(* Rounding R / m up takes a share of floor or ceiling of the mean, and    *)
(* leaves m - 1 planes their shares.                                       *)
(***************************************************************************)
LEMMA CeilBetween ==
  ASSUME NEW R \in Nat, NEW m \in Nat \ {0}, NEW s \in Nat,
         s * m <= R, R <= (s + 1) * m
  PROVE  /\ Ceil(R, m) \in {s, s + 1}
         /\ s * (m - 1) <= R - Ceil(R, m)
         /\ R - Ceil(R, m) <= (s + 1) * (m - 1)
         /\ Ceil(R, m) <= R
<1> DEFINE d == (-R) \div m
           r == (-R) % m
           c == -d
<1>1. d \in Int /\ r \in 0 .. m - 1 /\ -R = m * d + r
  BY Division
<1>2. Ceil(R, m) = c
  BY DEF Ceil
<1> HIDE DEF d, r
<1>3. c \in Int /\ R = m * c - r
  BY <1>1
<1>4. c >= s
  <2> SUFFICES ASSUME c <= s - 1 PROVE FALSE
    BY <1>3
  <2>1. m * c <= m * (s - 1)
    BY <1>3
  <2>2. m * (s - 1) = s * m - m
    OBVIOUS
  <2> HIDE DEF c
  <2> QED BY <1>1, <1>3, <2>1, <2>2
<1>5. c <= s + 1
  <2> SUFFICES ASSUME c >= s + 2 PROVE FALSE
    BY <1>3
  <2>1. m * c >= m * (s + 2)
    BY <1>3
  <2>2. m * (s + 2) = (s + 1) * m + m
    OBVIOUS
  <2> HIDE DEF c
  <2> QED BY <1>1, <1>3, <2>1, <2>2
<1> HIDE DEF c
<1>6. c = s \/ c = s + 1
  BY <1>3, <1>4, <1>5
<1>7. /\ s * m \in Int /\ (s + 1) * m = s * m + m
      /\ s * (m - 1) = s * m - s
      /\ (s + 1) * (m - 1) = s * m + m - s - 1
      /\ m * s = s * m /\ m * (s + 1) = s * m + m
  OBVIOUS
<1>8. CASE c = s
  <2>1. R = s * m - r
    BY <1>3, <1>7, <1>8
  <2>2. R = s * m
    BY <1>1, <1>7, <2>1
  <2>3. s <= s * m
    OBVIOUS
  <2> QED BY <1>2, <1>7, <1>8, <2>2, <2>3
<1>9. CASE c = s + 1
  <2>1. R = s * m + m - r
    BY <1>1, <1>3, <1>7, <1>9
  <2>2. R >= s * m + 1
    BY <1>1, <1>7, <2>1
  <2>3. s <= s * m
    OBVIOUS
  <2> QED BY <1>2, <1>7, <1>9, <2>2, <2>3
<1> QED BY <1>6, <1>8, <1>9

(***************************************************************************)
(* The member of an interval that c others precede.                        *)
(***************************************************************************)
LEMMA NthOfInterval ==
  ASSUME NEW a \in Int, NEW b \in Int, NEW c \in Nat, a + c <= b
  PROVE  Nth(a .. b, c) = {a + c}
<1>1. ASSUME NEW k \in a .. b PROVE Cardinality({l \in a .. b : l < k}) = k - a
  <2>1. k \in Int /\ a <= k /\ k <= b + 1
    OBVIOUS
  <2> QED BY <2>1, CountBelow
<1>2. Nth(a .. b, c) = {k \in a .. b : k - a = c}
  BY <1>1 DEF Nth
<1> QED BY <1>2

(***************************************************************************)
(* The first c members of an interval.                                     *)
(***************************************************************************)
LEMMA FirstOfInterval ==
  ASSUME NEW a \in Int, NEW b \in Int, NEW c \in Nat, a + c - 1 <= b, NEW S, S = a .. b
  PROVE  {k \in S : Cardinality({l \in S : l < k}) < c} = a .. a + c - 1
<1>1. ASSUME NEW k \in a .. b PROVE Cardinality({l \in a .. b : l < k}) = k - a
  <2>1. k \in Int /\ a <= k /\ k <= b + 1
    OBVIOUS
  <2> QED BY <2>1, CountBelow
<1>2. {k \in S : Cardinality({l \in S : l < k}) < c} = {k \in a .. b : k - a < c}
  BY <1>1
<1> QED BY <1>2

(***************************************************************************)
(* If size good visibilities are left, the plane takes the next size ones, *)
(* stops behind them, and averages them or the middle of them.             *)
(***************************************************************************)
LEMMA TakeNext ==
  ASSUME TInv, GoodFirst, NEW size \in Nat \ {0}, begin + size <= Cardinality(Good)
  PROVE  /\ Taken(size) = begin .. begin + size - 1
         /\ StopAt(size) = begin + size
         /\ Averaged(size) = IF median THEN MedianOf(begin .. begin + size - 1)
                                       ELSE begin .. begin + size - 1
<1> DEFINE g == Cardinality(Good)
           b == begin
           e == begin + size - 1
           rest == {k \in Good : k >= b}
<1>1. g \in Nat /\ b \in Nat /\ n \in Nat
  BY GoodTyped DEF TInv, PlanesTypeOK
<1>2. Good = 0 .. g - 1 /\ b + size <= g
  BY DEF GoodFirst
<1>3. Taken(size) = {k \in rest : Cardinality({l \in rest : l < k}) < size}
  BY DEF Taken
<1>4. e \in Int /\ e = b + size - 1
  BY <1>1
<1> HIDE DEF g, b, e
<1>5. rest = b .. g - 1
  BY <1>1, <1>2
<1> HIDE DEF rest
<1>6. b .. g - 1 = b .. (g - 1) /\ g - 1 \in Int /\ b + size - 1 <= g - 1
  BY <1>1, <1>2
<1>7. {k \in rest : Cardinality({l \in rest : l < k}) < size} = b .. b + size - 1
  BY <1>1, <1>5, <1>6, FirstOfInterval
<1>8. Taken(size) = b .. e
  BY <1>3, <1>4, <1>7
<1>9. Cardinality(b .. e) = size /\ b .. e # {}
  <2>1. Cardinality(b .. e) = IF b > e THEN 0 ELSE e - b + 1
    BY <1>1, <1>4, FS_Interval
  <2> QED BY <1>1, <1>4, <2>1
<1>10. Max(b .. e) = e
  <2>1. b .. e \subseteq Int /\ e \in b .. e /\ \A x \in b .. e : x <= e
    BY <1>1, <1>4
  <2>2. Max(b .. e) \in b .. e /\ \A y \in b .. e : y <= Max(b .. e)
    BY ONLY <1>4, <1>9, <2>1, MaxOf
  <2> QED BY <1>1, <1>4, <2>1, <2>2
<1>11. StopAt(size) = b + size
  <2>1. StopAt(size) = Max(b .. e) + 1
    BY <1>8, <1>9 DEF StopAt
  <2> QED BY <1>1, <1>4, <1>10, <2>1
<1> DEFINE h == size \div 2
<1>12. h \in Nat /\ h < size /\ (size = 2 * h \/ size = 2 * h + 1)
       /\ (size % 2 = 0 <=> size = 2 * h)
  OBVIOUS
<1> HIDE DEF h
<1>13. Nth(b .. e, h) = {b + h}
  BY <1>1, <1>4, <1>12, NthOfInterval
<1>14. Middle(size) = b + h
  <2>1. ~ Wrapped
    BY <1>1, <1>2 DEF Wrapped, g, b
  <2>2. Nth(Taken(size), size \div 2) = {b + h}
    BY <1>8, <1>13 DEF h
  <2>3. Middle(size) = Max({b + h})
    BY <2>1, <2>2 DEF Middle
  <2> QED BY <1>1, <1>12, <2>3, MaxSingle
<1>15. CASE ~ median
  <2>1. Averaged(size) = b .. e
    BY <1>8, <1>9, <1>15 DEF Averaged
  <2> QED BY <1>8, <1>11, <1>15, <2>1 DEF b, e
<1>16. CASE median
  <2>1. Averaged(size) = IF size % 2 = 0 THEN {(b + h) - 1, b + h} ELSE {b + h}
    <3>1. Taken(size) # {}
      BY <1>8, <1>9
    <3>2. Averaged(size) = IF size % 2 = 0 THEN {Middle(size) - 1, Middle(size)}
                                           ELSE {Middle(size)}
      BY <1>16, <3>1, Zenon DEF Averaged
    <3> QED BY <1>14, <3>2
  <2>2. MedianOf(b .. e) = IF size % 2 = 0
                           THEN Nth(b .. e, h - 1) \union Nth(b .. e, h)
                           ELSE Nth(b .. e, h)
    BY <1>9 DEF MedianOf, h
  <2>3. CASE size % 2 = 0
    <3>1. h - 1 \in Nat /\ b + (h - 1) <= e /\ b + (h - 1) = (b + h) - 1
      BY <1>1, <1>4, <1>12, <2>3
    <3>2. Nth(b .. e, h - 1) = {(b + h) - 1}
      BY <1>1, <1>4, <3>1, NthOfInterval
    <3>3. Averaged(size) = MedianOf(b .. e)
      BY <1>13, <2>1, <2>2, <2>3, <3>2
    <3> QED BY <1>8, <1>11, <1>16, <3>3 DEF b, e
  <2>4. CASE size % 2 # 0
    <3>1. Averaged(size) = MedianOf(b .. e)
      BY <1>13, <2>1, <2>2, <2>4
    <3> QED BY <1>8, <1>11, <1>16, <3>1 DEF b, e
  <2> QED BY <2>3, <2>4
<1> QED BY <1>15, <1>16

\* Before the first plane.
LEMMA PInvStart ==
  ASSUME TInv, GoodFirst, PlanesInit
  PROVE  PInv
<1> DEFINE g == Cardinality(Good)
<1>1. num_wplanes \in Nat \ {0} /\ g \in Nat
  BY GoodTyped DEF TInv, PlanesTypeOK
<1>2. idx = 0 /\ begin = 0
  BY DEF PlanesInit
<1>3. EnoughLeft
  <2> HIDE DEF g
  <2> DEFINE s == g \div num_wplanes
             r == g % num_wplanes
  <2>1. s \in Int /\ r \in 0 .. num_wplanes - 1 /\ g = num_wplanes * s + r
    BY <1>1, Division
  <2>2. Share = s
    BY DEF Share, g
  <2> HIDE DEF s, r
  <2>3. /\ (s + 1) * num_wplanes = num_wplanes * s + num_wplanes
        /\ s * num_wplanes = num_wplanes * s
        /\ num_wplanes * s \in Int
    BY <1>1, <2>1
  <2>4. s * num_wplanes <= g /\ g <= (s + 1) * num_wplanes
    BY <1>1, <2>1, <2>3
  <2>5. num_wplanes - idx = num_wplanes /\ g - begin = g
    BY <1>1, <1>2
  <2> QED BY <2>2, <2>4, <2>5 DEF EnoughLeft, g
<1>4. ClosedPlanes
  BY <1>1, <1>2 DEF ClosedPlanes, Boundary
<1> QED BY <1>3, <1>4 DEF PInv

LEMMA PInvInit ==
  ASSUME InBoundsFirst
  PROVE  Init => PInv
<1> SUFFICES ASSUME Init PROVE PInv
  OBVIOUS
<1>1. PICK a \in Arguments :
        /\ good_vis = a.good_vis
        /\ num_wplanes = a.num_wplanes
        /\ median = a.median
  BY DEF Init
<1>2. TInv
  BY TInvInit
<1>3. GoodFirst
  <2>1. Good = {k \in DOMAIN a.good_vis : a.good_vis[k] # 0}
    BY <1>1, <1>2 DEF Good, TInv, PlanesTypeOK
  <2> QED BY <1>1, <2>1 DEF GoodFirst, InBoundsFirst
<1> QED BY <1>2, <1>3, PInvStart DEF Init

(***************************************************************************)
(* With a visibility for each plane, no plane's share is 0.                *)
(***************************************************************************)
LEMMA SharePositive ==
  ASSUME TInv, GoodFirst
  PROVE  Share \in Nat \ {0}
<1> DEFINE g == Cardinality(Good)
           s == g \div num_wplanes
           r == g % num_wplanes
<1>1. g \in Nat /\ num_wplanes \in Nat \ {0} /\ num_wplanes <= g
  BY GoodTyped DEF TInv, PlanesTypeOK, GoodFirst
<1>2. Share = s
  BY DEF Share
<1> HIDE DEF g
<1>3. s \in Int /\ r \in 0 .. num_wplanes - 1 /\ g = num_wplanes * s + r
  BY <1>1, Division
<1> HIDE DEF s, r
<1>4. s > 0
  <2> SUFFICES ASSUME s <= 0 PROVE FALSE
    BY <1>3
  <2>1. num_wplanes * s <= 0
    BY <1>1, <1>3
  <2> QED BY <1>1, <1>3, <2>1
<1> QED BY <1>2, <1>3, <1>4

(***************************************************************************)
(* The plane computed next takes Share visibilities or one more, and       *)
(* leaves enough for the others.                                           *)
(***************************************************************************)
LEMMA SizeFits ==
  ASSUME PInv, idx < num_wplanes
  PROVE  \E c \in {Share, Share + 1} :
           /\ plane_size = {c}
           /\ c \in Nat \ {0}
           /\ begin + c <= Cardinality(Good)
           /\ Share * (num_wplanes - (idx + 1)) <= Cardinality(Good) - (begin + c)
           /\ Cardinality(Good) - (begin + c) <= (Share + 1) * (num_wplanes - (idx + 1))
<1> DEFINE g == Cardinality(Good)
           R == g - begin
           m == num_wplanes - idx
           c == Ceil(R, m)
<1>1. /\ g \in Nat /\ begin \in 0 .. g /\ idx \in Nat
      /\ num_wplanes \in Nat \ {0} /\ num_wplanes <= g
  <2>1. g \in Nat /\ num_wplanes \in Nat \ {0} /\ idx \in 0 .. num_wplanes
    BY GoodTyped DEF PInv, TInv, PlanesTypeOK
  <2>2. Boundary(idx) \in 0 .. g /\ Boundary(idx) = begin
    BY <2>1 DEF PInv, ClosedPlanes, Boundary
  <2> QED BY <2>1, <2>2 DEF PInv, GoodFirst
<1>2. Share * m <= R /\ R <= (Share + 1) * m
  BY DEF PInv, EnoughLeft
<1>3. plane_size = {c}
  BY <1>1 DEF plane_size, Wrapped
<1>4. Share \in Nat \ {0}
  BY SharePositive DEF PInv
<1>5. R \in Nat /\ m \in Nat \ {0}
  BY <1>1
<1> HIDE DEF g, R, m
<1>6. /\ c \in {Share, Share + 1}
      /\ Share * (m - 1) <= R - c
      /\ R - c <= (Share + 1) * (m - 1)
      /\ c <= R
  BY <1>2, <1>4, <1>5, CeilBetween
<1> HIDE DEF c
<1>7. c \in Nat \ {0}
  BY <1>4, <1>6
<1>8. m - 1 = num_wplanes - (idx + 1) /\ R - c = g - (begin + c) /\ begin + c <= g
  BY <1>1, <1>6, <1>7 DEF R, m
<1>9. /\ Share * (num_wplanes - (idx + 1)) <= g - (begin + c)
      /\ g - (begin + c) <= (Share + 1) * (num_wplanes - (idx + 1))
  BY <1>6, <1>8
<1> QED BY <1>3, <1>6, <1>7, <1>8, <1>9 DEF g

LEMMA PInvStep == PInv /\ [NextPlane \/ Returned]_vars => PInv'
<1> SUFFICES ASSUME PInv, [NextPlane \/ Returned]_vars PROVE PInv'
  OBVIOUS
<1>1. TInv'
  BY TInvStep DEF PInv
<1>2. CASE NextPlane
  <2>1. /\ good_vis' = good_vis /\ num_wplanes' = num_wplanes /\ median' = median
        /\ idx < num_wplanes /\ idx' = idx + 1
        /\ firstidx' = [firstidx EXCEPT ![idx] = begin]
    BY <1>2 DEF NextPlane
  <2>2. PICK c \in {Share, Share + 1} :
           /\ plane_size = {c}
           /\ c \in Nat \ {0}
           /\ begin + c <= Cardinality(Good)
           /\ Share * (num_wplanes - (idx + 1)) <= Cardinality(Good) - (begin + c)
           /\ Cardinality(Good) - (begin + c) <= (Share + 1) * (num_wplanes - (idx + 1))
    BY <2>1, SizeFits
  <2>3. w_avg' = [w_avg EXCEPT ![idx] = Averaged(c)] /\ begin' = StopAt(c)
    BY <1>2, <2>2 DEF NextPlane
  <2>4. /\ begin' = begin + c
        /\ Averaged(c) = IF median THEN MedianOf(begin .. begin + c - 1)
                                   ELSE begin .. begin + c - 1
    BY <2>2, <2>3, TakeNext DEF PInv
  <2>5. Good' = Good /\ Share' = Share
    BY <2>1 DEF Good, Share, n
  <2>6. GoodFirst'
    BY <2>1, <2>5 DEF PInv, GoodFirst
  <2>7. EnoughLeft'
    BY <2>1, <2>2, <2>4, <2>5 DEF EnoughLeft
  <2>8. ClosedPlanes'
    <3> DEFINE g == Cardinality(Good)
    <3>1. /\ g \in Nat /\ idx \in Nat /\ begin \in Nat /\ num_wplanes \in Nat
          /\ firstidx \in [Plane -> 0 .. n] /\ n \in Nat
          /\ w_avg \in [Plane -> SUBSET (-1 .. n - 1)]
          /\ Share \in Int
      <4>1. g \in Nat /\ n \in Nat
        BY GoodTyped DEF PInv, TInv
      <4>2. Share \in Int
        BY <4>1, Division DEF Share, PInv, TInv, PlanesTypeOK
      <4> QED BY <4>1, <4>2 DEF PInv, TInv, PlanesTypeOK
    <3>2. \A p \in 0 .. idx : p \in Plane
      BY <2>1, <3>1 DEF Plane
    <3>3. \A p \in 0 .. idx : Boundary(p)' = Boundary(p)
      BY <2>1, <3>1, <3>2 DEF Boundary
    <3>4. /\ \A p \in Nat : p = idx + 1 => Boundary(p)' = begin + c
          /\ \A p \in Nat : p = idx => Boundary(p)' = begin /\ Boundary(p + 1)' = begin + c
      BY <2>1, <2>4, <3>1, <3>2 DEF Boundary
    <3>5. Boundary(0)' = 0
      BY <3>1, <3>3 DEF PInv, ClosedPlanes
    <3>6. \A p \in 0 .. idx' : Boundary(p)' \in 0 .. g
      <4> TAKE p \in 0 .. idx'
      <4>1. CASE p = idx + 1
        BY <2>2, <3>1, <3>4, <4>1
      <4>2. CASE p \in 0 .. idx
        BY <3>3, <4>2 DEF PInv, ClosedPlanes
      <4> QED BY <2>1, <3>1, <4>1, <4>2
    <3>7. ASSUME NEW p \in 0 .. idx' - 1
          PROVE  /\ Boundary(p + 1)' - Boundary(p)' \in {Share, Share + 1}
                 /\ w_avg'[p] = IF median THEN MedianOf(Boundary(p)' .. Boundary(p + 1)' - 1)
                                          ELSE Boundary(p)' .. Boundary(p + 1)' - 1
      <4>1. CASE p = idx
        <5>1. Boundary(p + 1)' = begin + c /\ Boundary(p)' = begin
          BY <3>1, <3>4, <4>1
        <5>2. Boundary(p + 1)' - Boundary(p)' = c
          BY <2>2, <3>1, <5>1
        <5>3. w_avg'[p] = Averaged(c)
          BY <2>3, <3>1, <3>2, <4>1
        <5>4. begin .. begin + c - 1 = Boundary(p)' .. Boundary(p + 1)' - 1
          BY <2>2, <3>1, <5>1
        <5> QED BY <2>2, <2>4, <5>2, <5>3, <5>4
      <4>2. CASE p \in 0 .. idx - 1
        <5>1. p \in 0 .. idx /\ p + 1 \in 0 .. idx /\ p # idx
          BY <3>1, <4>2
        <5>2. Boundary(p)' = Boundary(p) /\ Boundary(p + 1)' = Boundary(p + 1)
          BY <3>3, <5>1
        <5>3. w_avg'[p] = w_avg[p]
          BY <2>3, <3>1, <3>2, <5>1
        <5>4. /\ Boundary(p + 1) - Boundary(p) \in {Share, Share + 1}
              /\ w_avg[p] = IF median THEN MedianOf(Boundary(p) .. Boundary(p + 1) - 1)
                                      ELSE Boundary(p) .. Boundary(p + 1) - 1
          BY <4>2 DEF PInv, ClosedPlanes, Interval
        <5> QED BY <5>2, <5>3, <5>4
      <4> QED BY <2>1, <3>1, <4>1, <4>2
    <3>8. \A p \in 0 .. idx' - 1 :
            /\ Boundary(p + 1)' - Boundary(p)' \in {Share', Share' + 1}
            /\ w_avg'[p] = IF median' THEN MedianOf(Interval(p)') ELSE Interval(p)'
      BY <2>1, <2>5, <3>7 DEF Interval
    <3> QED BY <2>5, <3>5, <3>6, <3>8 DEF ClosedPlanes, MedianOf, Nth
  <2> QED BY <1>1, <2>6, <2>7, <2>8 DEF PInv
<1>3. CASE Returned \/ UNCHANGED vars
  <2>1. /\ good_vis' = good_vis /\ num_wplanes' = num_wplanes /\ median' = median
        /\ idx' = idx /\ begin' = begin /\ firstidx' = firstidx /\ w_avg' = w_avg
    BY <1>3 DEF Returned, vars, planevars
  <2>2. Good' = Good /\ Share' = Share
    BY <2>1 DEF Good, Share, n
  <2>3. GoodFirst' /\ EnoughLeft'
    BY <2>1, <2>2 DEF PInv, GoodFirst, EnoughLeft
  <2>4. \A p \in Int : Boundary(p)' = Boundary(p) /\ Boundary(p + 1)' = Boundary(p + 1)
    BY <2>1 DEF Boundary
  <2>5. \A p \in Int : Interval(p)' = Interval(p)
    BY <2>4 DEF Interval
  <2>6. idx \in Int
    BY DEF PInv, TInv, PlanesTypeOK
  <2>7. Boundary(0)' = 0
    BY <2>4 DEF PInv, ClosedPlanes
  <2>8. \A p \in 0 .. idx : Boundary(p)' \in 0 .. Cardinality(Good)
    BY <2>4, <2>6 DEF PInv, ClosedPlanes
  <2>9. \A p \in 0 .. idx - 1 :
          /\ Boundary(p + 1)' - Boundary(p)' \in {Share, Share + 1}
          /\ w_avg[p] = IF median THEN MedianOf(Interval(p)') ELSE Interval(p)'
    BY <2>4, <2>5, <2>6 DEF PInv, ClosedPlanes
  <2>10. ClosedPlanes'
    BY <2>1, <2>2, <2>7, <2>8, <2>9 DEF ClosedPlanes, MedianOf, Nth
  <2> QED BY <1>1, <2>3, <2>10 DEF PInv
<1> QED BY <1>2, <1>3

(***************************************************************************)
(* When all planes are closed, convolve_to_grid puts in each plane the     *)
(* visibilities that average_w_planes counted to it.                       *)
(***************************************************************************)
LEMMA MembersInterval ==
  ASSUME PInv, idx = num_wplanes, NEW p \in Plane
  PROVE  /\ Members(p) = Interval(p)
         /\ w_avg[p] = IF median THEN MedianOf(Interval(p)) ELSE Interval(p)
         /\ Share \in Nat
         /\ Cardinality(Interval(p)) \in {Share, Share + 1}
<1> DEFINE g == Cardinality(Good)
           lo == Boundary(p)
           hi == Boundary(p + 1)
<1>1. /\ g \in Nat /\ n \in Nat /\ g <= n /\ num_wplanes \in Nat \ {0} /\ begin \in Nat
      /\ Good = 0 .. g - 1
  BY GoodTyped DEF PInv, TInv, PlanesTypeOK, GoodFirst
<1>2. p \in 0 .. idx - 1 /\ p \in 0 .. idx /\ p + 1 \in 0 .. idx
  BY <1>1 DEF Plane
<1>3. Share \in Nat
  BY SharePositive DEF PInv
<1>4. begin = g
  <2>1. num_wplanes - idx = 0 /\ Share * 0 = 0 /\ (Share + 1) * 0 = 0
    BY <1>1, <1>3
  <2> QED BY <1>1, <2>1 DEF PInv, EnoughLeft
<1>5. lo \in 0 .. g /\ hi \in 0 .. g
  BY <1>2 DEF PInv, ClosedPlanes
<1>6. hi - lo \in {Share, Share + 1}
  BY <1>2 DEF PInv, ClosedPlanes
<1>7. w_avg[p] = IF median THEN MedianOf(Interval(p)) ELSE Interval(p)
  BY <1>2 DEF PInv, ClosedPlanes
<1>8. lo = firstidx[p] /\ hi = IF p = num_wplanes - 1 THEN g ELSE firstidx[p + 1]
  BY <1>1, <1>2, <1>4 DEF Boundary
<1>9. Interval(p) = lo .. hi - 1
  BY DEF Interval
<1>10. Members(p) = {k \in 0 .. g - 1 : lo <= k /\ k < IF p = num_wplanes - 1 THEN n ELSE hi}
  <2>1. CASE p = num_wplanes - 1
    BY <1>1, <1>8, <2>1 DEF Members
  <2>2. CASE p # num_wplanes - 1
    BY <1>1, <1>8, <2>2 DEF Members
  <2> QED BY <2>1, <2>2
<1>11. p = num_wplanes - 1 => hi = g
  BY <1>8
<1> HIDE DEF g, lo, hi
<1>12. Members(p) = lo .. hi - 1
  BY <1>1, <1>5, <1>10, <1>11
<1>13. Cardinality(lo .. hi - 1) = hi - lo
  <2> DEFINE top == hi - 1
  <2>1. top \in Int /\ lo \in Int
    BY <1>5
  <2> HIDE DEF top
  <2>2. Cardinality(lo .. top) = IF lo > top THEN 0 ELSE top - lo + 1
    BY <2>1, FS_Interval
  <2>3. hi - lo >= 0
    BY <1>1, <1>3, <1>5, <1>6
  <2>4. top = hi - 1
    BY DEF top
  <2>5. (IF lo > top THEN 0 ELSE top - lo + 1) = hi - lo
    BY <1>1, <1>5, <2>3, <2>4
  <2> QED BY <2>2, <2>4, <2>5
<1> QED BY <1>3, <1>6, <1>7, <1>9, <1>12, <1>13

(***************************************************************************)
(* Every plane takes at least one visibility, which average_w_planes       *)
(* asserts: if the visibilities in bounds come first and there is one for  *)
(* each plane.                                                             *)
(***************************************************************************)
THEOREM NoPlaneEmpty ==
  ASSUME InBoundsFirst
  PROVE  Spec => []PlaneNeverEmpty
<1>1. PInv => PlaneNeverEmpty
  <2> SUFFICES ASSUME PInv, idx < num_wplanes, NEW size \in plane_size PROVE size >= 1
    BY DEF PlaneNeverEmpty
  <2>1. \E c \in {Share, Share + 1} : plane_size = {c} /\ c \in Nat \ {0}
    BY SizeFits
  <2> QED BY <2>1
<1> QED BY <1>1, PInvInit, PInvStep, PTL DEF Spec

(***************************************************************************)
(* Under the same assumption, the w-value average_w_planes gives a plane   *)
(* is the mean, or the median, of exactly the visibilities that            *)
(* convolve_to_grid then convolves with that plane's kernel.               *)
(***************************************************************************)
THEOREM PlanesMatchMembers ==
  ASSUME InBoundsFirst
  PROVE  Spec => []PlanesRepresented
<1>1. PInv => PlanesRepresented
  <2> SUFFICES ASSUME PInv, idx = num_wplanes, NEW p \in Plane
               PROVE  w_avg[p] = IF median THEN MedianOf(Members(p)) ELSE Members(p)
    BY DEF PlanesRepresented
  <2> QED BY MembersInterval
<1> QED BY <1>1, PInvInit, PInvStep, PTL DEF Spec

(***************************************************************************)
(* And the planes hold the same number of visibilities, give or take one:  *)
(* the size, rounded up again for each plane from what is left, is always  *)
(* the mean rounded up or down.                                            *)
(***************************************************************************)
THEOREM PlanesOfEqualSize ==
  ASSUME InBoundsFirst
  PROVE  Spec => []PlanesBalanced
<1>1. PInv => PlanesBalanced
  <2> SUFFICES ASSUME PInv, idx = num_wplanes, NEW p \in Plane, NEW q \in Plane
               PROVE  Cardinality(Members(p)) <= Cardinality(Members(q)) + 1
    BY DEF PlanesBalanced
  <2>1. Share \in Nat /\ Cardinality(Members(p)) \in {Share, Share + 1}
    BY MembersInterval
  <2>2. Cardinality(Members(q)) \in {Share, Share + 1}
    BY MembersInterval
  <2> QED BY <2>1, <2>2
<1> QED BY <1>1, PInvInit, PInvStep, PTL DEF Spec
==============================================================================
