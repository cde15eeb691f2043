------------------------------- MODULE WPlanes -------------------------------
(***************************************************************************)
(* average_w_planes of src/stp/gridder/gridder.cpp: the visibilities,      *)
(* sorted by |w|, are divided into planes of about the same number of good *)
(* visibilities, one plane per step.  An average is represented by the     *)
(* indices of the w-values it is computed from.                            *)
(***************************************************************************)
EXTENDS Integers, FiniteSets, FiniteSetsExt

CONSTANTS
  Arguments       \* the arguments considered: records of good_vis, num_wplanes, median

\* Visibilities with indices from 0 on, and at least one plane.
ASSUME PlanesAssumption ==
  \A a \in Arguments :
    /\ IsFiniteSet(DOMAIN a.good_vis)
    /\ a.good_vis \in [0 .. Cardinality(DOMAIN a.good_vis) - 1 -> 0..2]
    /\ a.num_wplanes \in Nat \ {0}
    /\ a.median \in BOOLEAN

VARIABLES
  good_vis,       \* 0: not gridded, 1 or 2: times it is gridded
  num_wplanes,
  median,         \* the wplanes_median parameter
  idx,            \* the plane computed next
  begin,          \* its first visibility
  firstidx,       \* w_planes_firstidx
  w_avg           \* w_avg_values

planevars == <<idx, begin, firstidx, w_avg>>

\* Number of visibilities, indices 0..n-1.
n == Cardinality(DOMAIN good_vis)

Good == {k \in 0 .. n - 1 : good_vis[k] # 0}

Plane == 0 .. num_wplanes - 1

Ceil(a, b) == -((-a) \div b)

\* The unsigned difference num_gvis - begin has wrapped around.
Wrapped == Cardinality(Good) < begin

\* Any size beyond the number of visibilities: a multiple of two, as every
\* large double is.
Huge == 2 * n + 2

\* Mutant of plane_size: computed once, for all planes.
plane_size_once == {Ceil(Cardinality(Good), num_wplanes)}

\* The number of good visibilities the plane should take.  A wrapped difference
\* is 2^64 as a double: whether that converts back to an unsigned integer, and
\* to which, is undefined.
plane_size ==
  IF ~ Wrapped
  THEN {Ceil(Cardinality(Good) - begin, num_wplanes - idx)}
  ELSE IF num_wplanes - idx = 1 THEN {0, Huge} ELSE {Huge}

\* The good visibilities taken, and where the loop over k stops.
Taken(size) ==
  LET rest == {k \in Good : k >= begin}
  IN  {k \in rest : Cardinality({l \in rest : l < k}) < size}

\* Mutant of StopAt: the loop ends one visibility too late.
StopAtPast(size) ==
  IF size = 0 THEN begin
  ELSE IF Cardinality(Taken(size)) = size THEN Max(Taken(size)) + 2 ELSE n

StopAt(size) ==
  IF size = 0 THEN begin
  ELSE IF Cardinality(Taken(size)) = size THEN Max(Taken(size)) + 1 ELSE n

\* The members of S that exactly c members precede.
Nth(S, c) == {k \in S : Cardinality({l \in S : l < k}) = c}

\* idx_mid: the good visibility the counter finds in the middle, 0 if it never
\* gets there.
Middle(size) ==
  LET mid == IF Wrapped THEN {} ELSE Nth(Taken(size), size \div 2)
  IN  IF mid = {} THEN 0 ELSE Max(mid)

\* Mutant of Averaged: the median of an even number is the upper of the two.
AveragedUpper(size) ==
  IF Taken(size) = {} THEN {}
  ELSE IF ~ median THEN Taken(size)
  ELSE {Middle(size)}

\* The w-values averaged.
Averaged(size) ==
  IF Taken(size) = {} THEN {}
  ELSE IF ~ median THEN Taken(size)
  ELSE IF size % 2 = 0 THEN {Middle(size) - 1, Middle(size)} ELSE {Middle(size)}

NextPlane ==
  /\ idx < num_wplanes
  /\ \E size \in plane_size :
       /\ w_avg' = [w_avg EXCEPT ![idx] = Averaged(size)]
       /\ begin' = StopAt(size)
  /\ firstidx' = [firstidx EXCEPT ![idx] = begin]
  /\ idx' = idx + 1
  /\ UNCHANGED <<good_vis, num_wplanes, median>>

PlanesInit ==
  /\ idx = 0
  /\ begin = 0
  /\ firstidx = [p \in Plane |-> 0]
  /\ w_avg = [p \in Plane |-> {}]

Init ==
  /\ \E a \in Arguments :
       /\ good_vis = a.good_vis
       /\ num_wplanes = a.num_wplanes
       /\ median = a.median
  /\ PlanesInit

vars == <<good_vis, num_wplanes, median, planevars>>

\* The function has returned.
Returned == idx = num_wplanes /\ UNCHANGED vars

Spec == Init /\ [][NextPlane \/ Returned]_vars

------------------------------------------------------------------------------
PlanesTypeOK ==
  /\ good_vis \in [0 .. n - 1 -> 0..2]
  /\ num_wplanes \in Nat \ {0}
  /\ median \in BOOLEAN
  /\ idx \in 0..num_wplanes
  /\ begin \in 0..n
  /\ firstidx \in [Plane -> 0..n]
  /\ w_avg \in [Plane -> SUBSET (-1 .. n - 1)]

\* The good visibilities convolve_to_grid puts in plane p: those up to the
\* first index of the next plane, all that are left in the last one.
Members(p) ==
  LET last == IF p = num_wplanes - 1 THEN n ELSE firstidx[p + 1]
  IN  {k \in Good : firstidx[p] <= k /\ k < last}

\* The element in the middle of S, or the two in the middle.
MedianOf(S) ==
  LET c == Cardinality(S)
  IN  IF c % 2 = 0 THEN Nth(S, c \div 2 - 1) \union Nth(S, c \div 2) ELSE Nth(S, c \div 2)

\* What average_w_planes takes for granted: the visibilities that are out of
\* bounds are the last ones in |w|, and there is one in bounds for each plane.
InBoundsFirst ==
  \A a \in Arguments :
    LET good == {k \in DOMAIN a.good_vis : a.good_vis[k] # 0}
    IN  /\ good = 0 .. Cardinality(good) - 1
        /\ a.num_wplanes <= Cardinality(good)

(***************************************************************************)
(* Each plane takes at least one visibility (assert(plane_size >= 1)).     *)
(***************************************************************************)
PlaneNeverEmpty == idx < num_wplanes => \A size \in plane_size : size >= 1

(***************************************************************************)
(* The w-value of a plane is the mean, or the median, of exactly the good  *)
(* visibilities that the gridder then convolves with the plane's kernel.   *)
(***************************************************************************)
PlanesRepresented ==
  idx = num_wplanes =>
    \A p \in Plane :
      w_avg[p] = IF median THEN MedianOf(Members(p)) ELSE Members(p)

(***************************************************************************)
(* The planes hold the same number of visibilities, give or take one.      *)
(***************************************************************************)
PlanesBalanced ==
  idx = num_wplanes =>
    \A p, q \in Plane : Cardinality(Members(p)) <= Cardinality(Members(q)) + 1
==============================================================================
