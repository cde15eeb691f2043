------------------------ MODULE ConvolveToGrid_proofs -------------------------
(***************************************************************************)
(* What convolve_to_grid adds to the grid, for every image size, kernel    *)
(* support, oversampling, set of visibilities and number of w-planes.      *)
(*                                                                         *)
(* Three layers.  On the integers: rounding is odd and periodic, so that   *)
(* the two halves of the plane mirror each other.  On one visibility: the  *)
(* loops over the rows and columns of a kernel (Footprint) reach exactly   *)
(* the pixels of its convolution on the periodic plane (Spread).  On the   *)
(* run: TInv follows each visibility from the input through the sort, the  *)
(* half-plane and the bounds to its w-plane, GridInv says that the grid is *)
(* the sum over the visibilities that the loops have got past, and AvgInv  *)
(* imports the invariant of average_w_planes from WPlanes_proofs.          *)
(***************************************************************************)
EXTENDS ConvolveToGrid, NumberLemmas

------------------------------------------------------------------------------
(***************************************************************************)
(* rint: within half of the quotient, odd, and monotone enough to compare  *)
(* it with whole numbers.                                                  *)
(***************************************************************************)
LEMMA RintNear ==
  ASSUME NEW x \in Int, NEW b \in Nat \ {0}
  PROVE  Rint(x, b) \in Int /\ -b <= 2 * (x - b * Rint(x, b)) /\ 2 * (x - b * Rint(x, b)) <= b
<1> DEFINE f == x \div b
           r == x % b
<1>1. f \in Int /\ r \in 0 .. b - 1 /\ x = b * f + r
  BY Division
<1>2. Rint(x, b) = IF 2 * r < b \/ (2 * r = b /\ f % 2 = 0) THEN f ELSE f + 1
  BY DEF Rint
<1> HIDE DEF f, r
<1>3. b * f \in Int /\ b * (f + 1) = b * f + b
  BY <1>1
<1>4. CASE Rint(x, b) = f /\ 2 * r <= b
  BY <1>1, <1>3, <1>4
<1>5. CASE Rint(x, b) = f + 1 /\ 2 * r >= b
  BY <1>1, <1>3, <1>5
<1> QED BY <1>1, <1>2, <1>4, <1>5

\* A number at most half of b is rounded to 0: ties go to the even number.
LEMMA RintZero ==
  ASSUME NEW x \in Int, NEW b \in Nat \ {0}, -b <= 2 * x, 2 * x <= b
  PROVE  Rint(x, b) = 0
<1> DEFINE f == x \div b
           r == x % b
<1>1. Rint(x, b) = IF 2 * r < b \/ (2 * r = b /\ f % 2 = 0) THEN f ELSE f + 1
  BY DEF Rint
<1>2. f \in Int /\ r \in 0 .. b - 1 /\ x = b * f + r
  BY Division
<1> HIDE DEF f, r
<1>3. b * f \in Int /\ b * f > -b - b /\ b * f < b
  BY <1>2
<1>4. f = 0 \/ f = -1
  <2>1. f <= 0
    <3>1. CASE f >= 1
      <4>1. b * f >= b
        BY <1>2, <3>1, SMT
      <4> QED BY <1>3, <4>1
    <3> QED BY <1>2, <3>1
  <2>2. f >= -1
    <3>1. CASE f <= -2
      <4>1. b * f <= -(2 * b)
        BY <1>2, <3>1, SMT
      <4> QED BY <1>3, <4>1
    <3> QED BY <1>2, <3>1
  <2> QED BY <1>2, <2>1, <2>2
<1>5. CASE f = 0
  <2>1. x = r /\ f % 2 = 0
    BY <1>2, <1>5
  <2> QED BY <1>1, <1>2, <1>5, <2>1
<1>6. CASE f = -1
  <2>1. b * f = -b
    BY <1>6
  <2>2. x = r - b /\ 2 * r >= b
    BY <1>2, <2>1
  <2>3. f % 2 = 1
    <3>1. f \div 2 \in Int /\ f % 2 \in 0 .. 1 /\ f = 2 * (f \div 2) + (f % 2)
      BY <1>2, Division
    <3> QED BY <1>6, <3>1
  <2> QED BY <1>1, <1>2, <1>6, <2>2, <2>3
<1> QED BY <1>4, <1>5, <1>6

LEMMA RintOdd ==
  ASSUME NEW x \in Int, NEW b \in Nat \ {0}
  PROVE  Rint(-x, b) = -Rint(x, b)
<1> DEFINE f == x \div b
           r == x % b
           g == (-x) \div b
           s == (-x) % b
<1>1. /\ Rint(x, b) = IF 2 * r < b \/ (2 * r = b /\ f % 2 = 0) THEN f ELSE f + 1
      /\ Rint(-x, b) = IF 2 * s < b \/ (2 * s = b /\ g % 2 = 0) THEN g ELSE g + 1
  BY DEF Rint
<1>2. f \in Int /\ r \in 0 .. b - 1 /\ x = b * f + r
  BY Division
<1>3. g \in Int /\ s \in 0 .. b - 1 /\ -x = b * g + s
  <2> DEFINE y == -x
  <2>1. y \in Int
    OBVIOUS
  <2> HIDE DEF y
  <2>2. y \div b \in Int /\ y % b \in 0 .. b - 1 /\ y = b * (y \div b) + (y % b)
    BY <2>1, Division
  <2> QED BY <2>2 DEF y
<1> HIDE DEF f, r, g, s
<1>4. b * (f + g) = b * f + b * g /\ b * f \in Int /\ b * g \in Int
  BY <1>2, <1>3
<1>5. b * (f + g) = -(r + s)
  <2>1. b * f = x - r /\ b * g = -x - s
    BY <1>2, <1>3, <1>4
  <2> QED BY <1>2, <1>3, <1>4, <2>1
<1>6. CASE r = 0
  <2>1. b * (f + g) > -b /\ b * (f + g) < b
    BY <1>2, <1>3, <1>5, <1>6
  <2>2. f + g = 0
    <3>1. f + g \in Int
      BY <1>2, <1>3
    <3> QED BY <2>1, <3>1, SmallMultiple
  <2>3. s = 0
    BY <1>3, <1>5, <1>6, <2>2
  <2> QED BY <1>1, <1>2, <1>3, <1>6, <2>2, <2>3
<1>7. CASE r # 0
  <2>1. b * (f + g + 1) = b * (f + g) + b
    BY <1>2, <1>3
  <2>2. b * (f + g + 1) > -b /\ b * (f + g + 1) < b
    BY <1>2, <1>3, <1>5, <1>7, <2>1
  <2>3. f + g + 1 = 0
    <3>1. f + g + 1 \in Int
      BY <1>2, <1>3
    <3> QED BY <2>2, <3>1, SmallMultiple
  <2>4. g = -f - 1
    BY <1>2, <1>3, <2>3
  <2>5. s = b - r
    <3>1. b * (f + g + 1) = 0
      BY <2>3
    <3> QED BY <1>2, <1>3, <1>5, <2>1, <3>1
  <2>6. f % 2 = 0 <=> g % 2 # 0
    BY <1>2, <2>4
  <2> QED BY <1>1, <1>2, <1>3, <1>7, <2>4, <2>5, <2>6
<1> QED BY <1>6, <1>7

\* What is at least m times b is rounded to m or more, and likewise downwards.
LEMMA RintAtLeast ==
  ASSUME NEW x \in Int, NEW b \in Nat \ {0}, NEW m \in Int, m * b <= x
  PROVE  m <= Rint(x, b)
<1>1. PICK r \in Int : r = Rint(x, b) /\ 2 * (x - b * r) <= b
  BY RintNear
<1>2. CASE r <= m - 1
  <2>1. b * r <= b * (m - 1)
    BY <1>2, SMT
  <2>2. b * (m - 1) = m * b - b /\ b * r \in Int /\ m * b \in Int
    OBVIOUS
  <2> QED BY <1>1, <2>1, <2>2
<1> QED BY <1>1, <1>2

LEMMA RintAtMost ==
  ASSUME NEW x \in Int, NEW b \in Nat \ {0}, NEW m \in Int, x <= m * b
  PROVE  Rint(x, b) <= m
<1>1. (-m) * b = -(m * b)
  OBVIOUS
<1>2. -m <= Rint(-x, b)
  <2>1. (-m) * b <= -x
    BY <1>1
  <2> QED BY <2>1, RintAtLeast
<1>3. Rint(-x, b) = -Rint(x, b) /\ Rint(x, b) \in Int
  BY RintOdd, RintNear
<1> QED BY <1>2, <1>3

------------------------------------------------------------------------------
(***************************************************************************)
(* The sub-pixel kernel of a coordinate is the nearest one, that of its    *)
(* negation the opposite one: the clamp of OversampledOffset has no effect.*)
(***************************************************************************)

\* The signed number of the sub-pixel kernel.
SubPixel(x, os) == Rint(UvFrac(x) * os, Sub)

LEMMA FracOdd ==
  ASSUME NEW x \in Int
  PROVE  /\ UvFrac(x) \in Int /\ UvFrac(-x) = -UvFrac(x)
         /\ -Sub <= 2 * UvFrac(x) /\ 2 * UvFrac(x) <= Sub
<1>1. Sub \in Nat \ {0}
  BY GridAssumption
<1>2. PICK r \in Int : r = Rint(x, Sub) /\ Rint(-x, Sub) = -r
                       /\ -Sub <= 2 * (x - Sub * r) /\ 2 * (x - Sub * r) <= Sub
  BY <1>1, RintNear, RintOdd
<1>3. Sub * r \in Int /\ Sub * (-r) = -(Sub * r)
  BY <1>1, <1>2
<1> QED BY <1>1, <1>2, <1>3 DEF UvFrac

LEMMA SubPixelOdd ==
  ASSUME NEW x \in Int, NEW os \in Nat
  PROVE  SubPixel(x, os) \in Int /\ SubPixel(-x, os) = -SubPixel(x, os)
<1>1. Sub \in Nat \ {0} /\ UvFrac(x) \in Int /\ UvFrac(-x) = -UvFrac(x)
  BY GridAssumption, FracOdd
<1>2. UvFrac(x) * os \in Int /\ UvFrac(-x) * os = -(UvFrac(x) * os)
  BY <1>1
<1> QED BY <1>1, <1>2, RintOdd, RintNear DEF SubPixel

LEMMA OffsetNearest ==
  ASSUME NEW x \in Int, NEW os \in Nat \ {0}, os = 1 \/ os % 2 = 0
  PROVE  OversampledOffset(x, os) - os \div 2 = SubPixel(x, os)
<1> DEFINE h   == os \div 2
           val == SubPixel(x, os)
<1>1. PICK a \in Int : a = UvFrac(x) /\ -Sub <= 2 * a /\ 2 * a <= Sub
  BY FracOdd
<1>2. Sub \in Nat \ {0} /\ h \in Nat /\ val \in Int
  BY GridAssumption, SubPixelOdd
<1>3. -h <= val /\ val <= h
  <2>1. CASE os = 1
    <3>1. a * 1 = a
      BY <1>1
    <3> QED BY <1>1, <1>2, <2>1, <3>1, RintZero DEF SubPixel
  <2>2. CASE os % 2 = 0
    <3>1. os = 2 * h
      BY <2>2
    <3> HIDE DEF h
    <3>2. a * os = (2 * a) * h /\ (2 * a) * h \in Int
      BY <1>1, <1>2, <3>1
    <3>3. (2 * a) * h <= Sub * h /\ (-Sub) * h <= (2 * a) * h
      BY <1>1, <1>2, SMT
    <3>4. Sub * h = h * Sub /\ (-Sub) * h = (-h) * Sub
      BY <1>2
    <3>5. a * os \in Int /\ a * os <= h * Sub /\ (-h) * Sub <= a * os
      BY <3>2, <3>3, <3>4
    <3>6. Rint(a * os, Sub) <= h
      BY <1>2, <3>5, RintAtMost
    <3>7. -h <= Rint(a * os, Sub)
      BY <1>2, <3>5, RintAtLeast
    <3> QED BY <1>1, <3>6, <3>7 DEF SubPixel
  <2> QED BY <2>1, <2>2
<1>4. OversampledOffset(x, os) = (IF val > h THEN h ELSE IF val < -h THEN -h ELSE val) + h
  BY DEF OversampledOffset, SubPixel
<1> HIDE DEF h, val
<1> QED BY <1>2, <1>3, <1>4 DEF h, val

------------------------------------------------------------------------------
(***************************************************************************)
(* The pixels of a kernel: the corrections of WrappedCol and of the two    *)
(* gridders' rows are the residue modulo the size of the image.            *)
(***************************************************************************)
LEMMA GridFacts ==
  /\ image_size \in Nat \ {0} /\ half_image_size \in Nat /\ image_size = 2 * half_image_size
  /\ max_support \in Nat \ {0} /\ max_support < half_image_size
  /\ Sub \in Nat \ {0}
<1>1. image_size \in Nat /\ image_size % 2 = 0 /\ 2 * max_support + 1 < image_size
      /\ max_support \in Nat \ {0} /\ Sub \in Nat \ {0}
  BY GridAssumption
<1>2. half_image_size \in Nat /\ image_size = 2 * half_image_size
  BY <1>1 DEF half_image_size
<1> QED BY <1>1, <1>2

LEMMA WrappedIsResidue ==
  ASSUME NEW y \in Int, -image_size <= y, y < 2 * image_size
  PROVE  WrappedCol(y) = y % image_size /\ WrappedCol(y) \in 0 .. image_size - 1
<1> DEFINE m == image_size
<1>1. m \in Nat \ {0}
  BY GridFacts
<1> HIDE DEF m
<1>2. CASE y < m
  <2>1. y % m = IF y < 0 THEN y + m ELSE y
    BY <1>1, <1>2, SignedResidue DEF m
  <2> QED BY <1>1, <1>2, <2>1 DEF WrappedCol, m
<1>3. CASE y >= m
  <2> DEFINE z == y - m
  <2>1. z \in Int /\ 0 <= z /\ z < m /\ -m <= z
    BY <1>1, <1>3 DEF m
  <2>2. z % m = IF z < 0 THEN z + m ELSE z
    <3> HIDE DEF z
    <3> QED BY <1>1, <2>1, SignedResidue
  <2>3. (z + m) % m = z % m
    <3> HIDE DEF z
    <3> QED BY <1>1, <2>1, ModAdd
  <2>4. z + m = y
    BY <1>1
  <2>5. y % m = y - m
    BY <2>1, <2>2, <2>3, <2>4
  <2> QED BY <1>1, <1>3, <2>1, <2>5 DEF WrappedCol, m
<1> QED BY <1>1, <1>2, <1>3

\* Where the centre of a kernel is placed along one axis, for the visibility
\* (t = 1) or its conjugate (t = -1).
PlacedCentre(x) == IF shift_uv THEN Shifted(Rint(x, Sub) + half_image_size)
                   ELSE Rint(x, Sub) + half_image_size

CentreOf(x, t) == IF t = -1 THEN image_size - PlacedCentre(x) ELSE PlacedCentre(x)

\* The untruncated kernel is inside the image, without the first pixel.
Within(x) == -half_image_size < Rint(x, Sub) - max_support
             /\ Rint(x, Sub) + max_support < half_image_size

Signs == {1, -1}

LEMMA KernelPixel ==
  ASSUME NEW x \in Int, Within(x), NEW t \in Signs, NEW d \in -max_support .. max_support
  PROVE  /\ CentreOf(x, t) \in 0 .. image_size
         /\ WrappedCol(CentreOf(x, t) + d) = Pixel(t * Rint(x, Sub) + d)
         /\ Pixel(t * Rint(x, Sub) + d) \in 0 .. image_size - 1
<1> DEFINE m == image_size
           h == half_image_size
           g == CentreOf(x, t)
<1>1. m \in Nat \ {0} /\ h \in Nat /\ m = 2 * h /\ max_support \in Nat \ {0} /\ max_support < h
      /\ d \in Int /\ -max_support <= d /\ d <= max_support
  BY GridFacts
<1>2. PICK r \in Int : r = Rint(x, Sub)
  BY RintNear, GridFacts
<1>3. -h < r - max_support /\ r + max_support < h
  BY <1>2 DEF Within
<1>4. PICK y \in Int : y = t * r + d /\ (t = 1 => y = r + d) /\ (t = -1 => y = d - r)
  <2>1. t * r + d \in Int /\ (t = 1 => t * r + d = r + d) /\ (t = -1 => t * r + d = d - r)
    BY <1>1, <1>2 DEF Signs
  <2> QED BY <2>1
<1> HIDE DEF m, h, g
<1>5. g = IF t = -1 THEN m - (IF shift_uv THEN Shifted(r + h) ELSE r + h)
          ELSE (IF shift_uv THEN Shifted(r + h) ELSE r + h)
  BY <1>2 DEF CentreOf, PlacedCentre, g, m, h
<1>6. Shifted(r + h) = IF r < 0 THEN r + m ELSE r
  BY <1>1, <1>2, <1>3 DEF Shifted, h
<1>7. g \in 0 .. m
  BY <1>1, <1>2, <1>3, <1>5, <1>6 DEF Signs
<1>8. WrappedCol(g + d) = (g + d) % m /\ WrappedCol(g + d) \in 0 .. m - 1
  <2>1. g + d \in Int /\ -m <= g + d /\ g + d < 2 * m
    BY <1>1, <1>7
  <2> QED BY <2>1, WrappedIsResidue DEF m
<1>9. Pixel(y) = (IF shift_uv THEN y ELSE y + h) % m
  <2>1. y + 0 = y
    OBVIOUS
  <2> QED BY <2>1 DEF Pixel, m, h
<1>10. (g + d) % m = Pixel(y)
  <2>1. CASE ~ shift_uv
    <3>1. g + d = y + h
      BY <1>1, <1>2, <1>4, <1>5, <2>1 DEF Signs
    <3> QED BY <1>9, <2>1, <3>1
  <2>2. CASE shift_uv
    <3>1. g + d = y \/ g + d = y + m
      BY <1>1, <1>2, <1>4, <1>5, <1>6, <2>2 DEF Signs
    <3>2. (y + m) % m = y % m
      BY <1>1, ModAdd
    <3> QED BY <1>9, <2>2, <3>1, <3>2
  <2> QED BY <2>1, <2>2
<1>11. t * Rint(x, Sub) + d = y
  BY <1>2, <1>4
<1> QED BY <1>7, <1>8, <1>10, <1>11 DEF g, m

------------------------------------------------------------------------------
(***************************************************************************)
(* One visibility.                                                         *)
(***************************************************************************)
LEMMA InputOK ==
  ASSUME input \in Inputs
  PROVE  /\ n \in Nat /\ Vis = 0 .. n - 1 /\ IsFiniteSet(Vis)
         /\ \A k \in Vis : /\ input.uv[k] = <<input.uv[k][1], input.uv[k][2]>>
                           /\ input.uv[k][1] \in Int /\ input.uv[k][2] \in Int
                           /\ input.w[k] \in Int
         /\ input.weights \in [Vis -> Int]
         /\ shift_uv \in BOOLEAN /\ halfplane_gridding \in BOOLEAN /\ kernel_exact \in BOOLEAN
         /\ use_wproj \in BOOLEAN /\ median \in BOOLEAN
         /\ num_wplanes \in Nat \ {0} /\ (~ use_wproj => num_wplanes = 1)
         /\ oversampling \in Nat \ {0} /\ (oversampling = 1 \/ oversampling % 2 = 0)
         /\ (kernel_exact => oversampling = 1)
<1>1. IsFiniteSet(DOMAIN input.uv) /\ DOMAIN input.uv = 0 .. Cardinality(DOMAIN input.uv) - 1
  BY ConvolveAssumption
<1>2. Cardinality(DOMAIN input.uv) \in Nat
  BY <1>1, FS_CardinalityType
<1>3. /\ \A k \in Vis : input.uv[k] \in Int \X Int /\ input.w[k] \in Int
      /\ input.weights \in [Vis -> Int]
  BY ConvolveAssumption DEF Vis
<1> QED
  BY <1>1, <1>2, <1>3, ConvolveAssumption
  DEF n, Vis, shift_uv, halfplane_gridding, kernel_exact, use_wproj, median, num_wplanes, oversampling

\* The sign of the value gridded: that of the visibility, or of its conjugate.
ConjSign(gv) == IF gv = 1 THEN -1 ELSE 1

LEMMA NearestOdd ==
  ASSUME input \in Inputs, NEW x \in Int
  PROVE  Nearest(x) \in Int /\ Nearest(-x) = -Nearest(x)
<1>1. oversampling \in Nat
  BY InputOK
<1>2. CASE kernel_exact
  BY <1>2, FracOdd DEF Nearest
<1>3. CASE ~ kernel_exact
  BY <1>1, <1>3, SubPixelOdd DEF Nearest, SubPixel
<1> QED BY <1>2, <1>3

\* The offsets that one axis of the visibility, or of its copy, gives the kernel.
OffsetOf(x, gv) == IF gv = 1 /\ oversampling > 1 THEN oversampling - OversampledOffset(x, oversampling)
                   ELSE OversampledOffset(x, oversampling)

FracOf(x, gv) == IF gv = 1 THEN -UvFrac(x) ELSE UvFrac(x)

\* Sub-pixels, or parts of a pixel, of a kernel.
Unit == IF kernel_exact THEN Sub ELSE oversampling

\* The kernel is evaluated where the nearest one for the visibility is.
LEMMA KernelAxis ==
  ASSUME input \in Inputs, NEW x \in Int, NEW gv \in {0, 1}, NEW j \in Int, NEW s \in Int
  PROVE  KernelAt(j, s, OffsetOf(x, gv), FracOf(x, gv)) = Unit * (j - s) - ConjSign(gv) * Nearest(x)
<1> DEFINE cp   == OffsetOf(x, gv)
           frac == FracOf(x, gv)
<1>1. oversampling \in Nat \ {0} /\ (oversampling = 1 \/ oversampling % 2 = 0)
  BY InputOK
<1>2. PICK v \in Int : v = Nearest(x)
  BY NearestOdd
<1>3. ConjSign(gv) * Nearest(x) = IF gv = 1 THEN -v ELSE v
  BY <1>2 DEF ConjSign
<1>4. CASE kernel_exact
  <2>1. frac = ConjSign(gv) * Nearest(x)
    BY <1>2, <1>3, <1>4 DEF Nearest, FracOf
  <2>2. KernelAt(j, s, cp, frac) = Sub * (j - s) - frac
    BY <1>4 DEF KernelAt
  <2> QED BY <1>4, <2>1, <2>2 DEF Unit
<1>5. CASE ~ kernel_exact
  <2> DEFINE h   == oversampling \div 2
             val == OversampledOffset(x, oversampling)
  <2>1. v = val - h
    <3>1. val - h = SubPixel(x, oversampling)
      BY <1>1, OffsetNearest
    <3> QED BY <1>2, <1>5, <3>1 DEF Nearest, SubPixel
  <2>2. h \in Nat /\ (oversampling = 1 => h = 0) /\ (oversampling # 1 => oversampling = 2 * h)
    BY <1>1
  <2>3. val \in Int
    <3>1. UvFrac(x) \in Int
      BY FracOdd
    <3>2. UvFrac(x) * oversampling \in Int
      BY <1>1, <3>1
    <3>3. Rint(UvFrac(x) * oversampling, Sub) \in Int
      BY <3>2, RintNear, GridFacts
    <3> QED BY <2>2, <3>3 DEF OversampledOffset
  <2>4. KernelAt(j, s, cp, frac) = oversampling * (j - s) - (cp - h)
    BY <1>5 DEF KernelAt
  <2>5. oversampling = 1 => v = 0
    <3>1. oversampling = 1 => UvFrac(x) * oversampling = UvFrac(x)
      BY FracOdd
    <3>2. oversampling = 1 => Rint(UvFrac(x), Sub) = 0
      BY FracOdd, RintZero, GridFacts
    <3> QED BY <1>2, <1>5, <3>1, <3>2 DEF Nearest
  <2> HIDE DEF h, val, cp
  <2>6. cp = IF gv = 1 /\ oversampling > 1 THEN oversampling - val ELSE val
    BY DEF val, cp, OffsetOf
  <2>7. cp - h = IF gv = 1 THEN -v ELSE v
    BY <1>1, <1>2, <2>1, <2>2, <2>3, <2>5, <2>6
  <2>8. cp - h = ConjSign(gv) * Nearest(x)
    BY <1>3, <2>7
  <2>9. KernelAt(j, s, cp, frac) = oversampling * (j - s) - ConjSign(gv) * Nearest(x)
    BY <2>4, <2>8
  <2> QED BY <1>5, <2>9 DEF Unit, cp
<1> QED BY <1>4, <1>5

\* The rows and kernel of a gridder, as Footprint and Contributions choose them.
RowsOf(g, s) == IF kernel_exact THEN GridRowsExact(g, s, image_rows) ELSE GridRows(g, s, image_rows)

\* The rows added to are those of the kernel's pixels that are on the grid.
LEMMA RowsOnGrid ==
  ASSUME input \in Inputs, Supported(Inputs), NEW x \in Int, Within(x), NEW gv \in {0, 1},
         gv = 1 => halfplane_gridding, NEW s \in 1 .. max_support
  PROVE  LET rows == RowsOf(CentreOf(x, ConjSign(gv)), s)
         IN  /\ DOMAIN rows
                  = {i \in 0 .. 2 * s : Pixel(ConjSign(gv) * Rint(x, Sub) + (i - s)) < image_rows}
             /\ \A i \in DOMAIN rows : rows[i] = Pixel(ConjSign(gv) * Rint(x, Sub) + (i - s))
<1> DEFINE t == ConjSign(gv)
           g == CentreOf(x, t)
           rows == RowsOf(g, s)
           at(i) == Pixel(t * Rint(x, Sub) + (i - s))
<1>1. /\ image_size \in Nat \ {0} /\ half_image_size \in Nat /\ image_size = 2 * half_image_size
      /\ max_support \in Nat \ {0} /\ max_support < half_image_size
      /\ s \in Nat /\ s <= max_support
  BY GridFacts
<1>2. t \in Signs /\ (gv = 1 <=> t = -1)
  BY DEF ConjSign, Signs
<1>3. /\ halfplane_gridding \in BOOLEAN /\ shift_uv \in BOOLEAN /\ kernel_exact \in BOOLEAN
      /\ (halfplane_gridding => shift_uv)
      /\ (shift_uv /\ ~ kernel_exact => halfplane_gridding)
  BY InputOK DEF Supported, halfplane_gridding, shift_uv, kernel_exact
<1>4. image_rows \in Int /\ (halfplane_gridding => image_rows = half_image_size + 1)
      /\ (~ halfplane_gridding => image_rows = image_size)
  BY <1>1 DEF image_rows
<1>5. /\ g \in 0 .. image_size
      /\ \A i \in 0 .. 2 * s : WrappedCol(g - s + i) = at(i) /\ at(i) \in 0 .. image_size - 1
  <2> SUFFICES ASSUME NEW i \in 0 .. 2 * s
               PROVE  /\ g \in 0 .. image_size
                      /\ WrappedCol(g - s + i) = at(i) /\ at(i) \in 0 .. image_size - 1
    <3>1. 0 \in 0 .. 2 * s
      BY <1>1
    <3> QED BY <3>1
  <2> DEFINE d == i - s
  <2>1. d \in -max_support .. max_support
    BY <1>1
  <2> HIDE DEF d, t
  <2>2. /\ CentreOf(x, t) \in 0 .. image_size
        /\ WrappedCol(CentreOf(x, t) + d) = Pixel(t * Rint(x, Sub) + d)
        /\ Pixel(t * Rint(x, Sub) + d) \in 0 .. image_size - 1
    BY <1>2, <2>1, KernelPixel
  <2>3. g - s + i = g + d
    BY <1>1, <2>2 DEF d
  <2> QED BY <2>2, <2>3 DEF d
<1> HIDE DEF g, t, at, rows
<1>6. CASE kernel_exact
  <2>1. rows = [i \in {y \in 0 .. 2 * s : WrappedCol(g - s + y) < image_rows} |-> WrappedCol(g - s + i)]
    BY <1>6 DEF rows, RowsOf, GridRowsExact
  <2>2. DOMAIN rows = {i \in 0 .. 2 * s : at(i) < image_rows} /\ \A i \in DOMAIN rows : rows[i] = at(i)
    BY <1>5, <2>1
  <2> QED BY <2>2 DEF at, rows, g, t
<1>7. CASE ~ kernel_exact
  <2> DEFINE row(i) == IF g - s + i >= image_size THEN g - s + i - image_size ELSE g - s + i
  <2>1. rows = [i \in {y \in 0 .. 2 * s : g - s + y >= 0 /\ row(y) < image_rows} |-> row(i)]
    BY <1>7 DEF rows, RowsOf, GridRows
  <2>2. ASSUME NEW i \in 0 .. 2 * s
        PROVE  /\ g - s + i >= 0 => row(i) = at(i)
               /\ g - s + i < 0 => ~ (at(i) < image_rows)
    <3>2. g - s + i \in Int
      BY <1>1, <1>5
    <3>1. PICK y \in Int : y = g - s + i
      BY <3>2
    <3>5. at(i) = IF y < 0 THEN y + image_size ELSE IF y >= image_size THEN y - image_size ELSE y
      <4>1. at(i) = WrappedCol(y)
        BY <1>5, <3>1
      <4> QED BY <4>1 DEF WrappedCol
    <3>3. g - s + i >= 0 => row(i) = at(i)
      <4>1. g \in Int /\ s \in Int /\ i \in Int /\ image_size \in Int
        BY <1>1, <1>5
      <4>2. row(i) = IF y >= image_size THEN y - image_size ELSE y
        BY <3>1, <4>1
      <4> HIDE DEF row
      <4> QED BY <1>1, <3>1, <3>5, <4>2
    <3>4. ASSUME g - s + i < 0 PROVE ~ (at(i) < image_rows)
      <4>1. at(i) = y + image_size
        BY <3>1, <3>4, <3>5
      <4>2. CASE halfplane_gridding
        BY <1>1, <1>4, <1>5, <3>1, <4>1, <4>2
      <4>3. CASE ~ halfplane_gridding
        <5>1. t = 1 /\ ~ shift_uv
          BY <1>2, <1>3, <1>7, <4>3 DEF Signs
        <5>2. g = Rint(x, Sub) + half_image_size
          BY <5>1 DEF g, CentreOf, PlacedCentre
        <5>3. Rint(x, Sub) \in Int /\ -half_image_size < Rint(x, Sub) - max_support
          BY RintNear, GridFacts DEF Within
        <5> QED BY <1>1, <3>4, <5>2, <5>3
      <4> QED BY <4>2, <4>3
    <3> QED BY <3>3, <3>4
  <2>3. DOMAIN rows = {i \in 0 .. 2 * s : at(i) < image_rows}
    <3>1. DOMAIN rows = {y \in 0 .. 2 * s : g - s + y >= 0 /\ row(y) < image_rows}
      BY <2>1
    <3>2. \A y \in 0 .. 2 * s : (g - s + y >= 0 /\ row(y) < image_rows) <=> at(y) < image_rows
      <4> TAKE y \in 0 .. 2 * s
      <4>1. g - s + y \in Int
        BY <1>1, <1>5
      <4> HIDE DEF row
      <4>2. CASE g - s + y >= 0
        <5>1. row(y) = at(y)
          BY <2>2, <4>2
        <5> QED BY <4>2, <5>1
      <4>3. CASE ~ (g - s + y >= 0)
        <5>1. g - s + y < 0
          BY <4>1, <4>3
        <5>2. ~ (at(y) < image_rows)
          BY <2>2, <5>1
        <5> QED BY <4>3, <5>2
      <4> QED BY <4>2, <4>3
    <3> HIDE DEF row
    <3> QED BY <3>1, <3>2
  <2>4. \A i \in DOMAIN rows : rows[i] = at(i)
    <3> SUFFICES ASSUME NEW i \in DOMAIN rows PROVE rows[i] = at(i)
      OBVIOUS
    <3>1. rows[i] = row(i) /\ i \in 0 .. 2 * s /\ g - s + i >= 0
      BY <2>1
    <3> HIDE DEF row
    <3> QED BY <2>2, <3>1
  <2> HIDE DEF row
  <2> QED BY <2>3, <2>4 DEF at, rows, g, t
<1> QED BY <1>6, <1>7

\* A pixel of a kernel is met by one of its rows (columns) only.
LEMMA PixelInjective ==
  ASSUME input \in Inputs, NEW z \in Int, NEW d \in -max_support .. max_support,
         NEW e \in -max_support .. max_support, Pixel(z + d) = Pixel(z + e)
  PROVE  d = e
<1> DEFINE m == image_size
           o == IF shift_uv THEN 0 ELSE half_image_size
           y == z + d + o
           x == z + e + o
<1>1. m \in Nat \ {0} /\ o \in Int /\ max_support \in Nat /\ 2 * max_support < m
  BY GridFacts
<1>2. y \in Int /\ x \in Int /\ y % m = x % m /\ y - x = d - e
  <2>1. max_support \in Int /\ o \in Int
    BY <1>1
  <2> HIDE DEF o
  <2>2. d \in Int /\ e \in Int /\ y \in Int /\ x \in Int /\ y - x = d - e
    BY <2>1
  <2>3. Pixel(z + d) = y % m /\ Pixel(z + e) = x % m
    BY DEF Pixel, o
  <2> QED BY <2>2, <2>3
<1> HIDE DEF m, o, y, x
<1>3. y \div m \in Int /\ y = m * (y \div m) + (y % m) /\ y % m \in 0 .. m - 1
  BY <1>1, <1>2, Division
<1>4. x \div m \in Int /\ x = m * (x \div m) + (x % m)
  BY <1>1, <1>2, Division
<1>5. PICK a \in Int, b \in Int, r \in Int : y = m * a + r /\ x = m * b + r
  BY <1>2, <1>3, <1>4
<1>6. m * (a - b) = m * a - m * b /\ m * a \in Int /\ m * b \in Int
  BY <1>1
<1>7. m * (a - b) = y - x
  BY <1>2, <1>5, <1>6
<1>8. y - x \in Int /\ -m < y - x /\ y - x < m
  BY <1>1, <1>2
<1>9. a - b = 0
  <2>1. a - b \in Int /\ m * (a - b) > -m /\ m * (a - b) < m
    BY <1>1, <1>7, <1>8
  <2> QED BY <1>1, <2>1, SmallMultiple
<1>10. y - x = 0
  BY <1>1, <1>7, <1>9
<1> QED BY <1>2, <1>10

\* What is known of the visibility at position k, from the input.
Tracks(k) ==
  /\ vis[k] \in [id : Vis, conj : BOOLEAN]
  /\ uv_lambda[k] = IF vis[k].conj THEN <<-input.uv[vis[k].id][1], -input.uv[vis[k].id][2]>>
                    ELSE input.uv[vis[k].id]
  /\ w_lambda[k] = IF use_wproj /\ vis[k].conj THEN -input.w[vis[k].id] ELSE input.w[vis[k].id]
  /\ vis_weights[k] = input.weights[vis[k].id]

\* The sign of what is gridded, relative to the visibility of the input.
SignOf(k, gv) == IF vis[k].conj # (gv = 1) THEN -1 ELSE 1

LEMMA SignCases ==
  ASSUME NEW k, NEW gv \in {0, 1}, vis[k].conj \in BOOLEAN
  PROVE  /\ vis[k].conj => SignOf(k, gv) = IF gv = 1 THEN 1 ELSE -1
         /\ ~ vis[k].conj => SignOf(k, gv) = IF gv = 1 THEN -1 ELSE 1
         /\ SignOf(k, gv) \in Signs
<1>1. CASE vis[k].conj = TRUE /\ gv = 1
  BY <1>1 DEF SignOf, Signs
<1>2. CASE vis[k].conj = TRUE /\ gv = 0
  BY <1>2 DEF SignOf, Signs
<1>3. CASE vis[k].conj = FALSE /\ gv = 1
  BY <1>3 DEF SignOf, Signs
<1>4. CASE vis[k].conj = FALSE /\ gv = 0
  BY <1>4 DEF SignOf, Signs
<1> QED BY <1>1, <1>2, <1>3, <1>4

\* One axis: the signs of the visibility and of its copy make one sign.
LEMMA SignAxis ==
  ASSUME input \in Inputs, NEW k \in Vis, Tracks(k), NEW gv \in {0, 1}, NEW a \in {1, 2}
  PROVE  /\ uv_lambda[k][a] \in Int
         /\ SignOf(k, gv) \in Signs
         /\ Rint(input.uv[vis[k].id][a], Sub) \in Int
         /\ ConjSign(gv) * Rint(uv_lambda[k][a], Sub) = SignOf(k, gv) * Rint(input.uv[vis[k].id][a], Sub)
         /\ ConjSign(gv) * Nearest(uv_lambda[k][a]) = SignOf(k, gv) * Nearest(input.uv[vis[k].id][a])
<1>1. PICK u \in Int : u = input.uv[vis[k].id][a]
  BY InputOK DEF Tracks
<1>2. uv_lambda[k][a] = IF vis[k].conj THEN -u ELSE u
  BY <1>1, InputOK DEF Tracks
<1>3. /\ Rint(-u, Sub) = -Rint(u, Sub) /\ Rint(u, Sub) \in Int
      /\ Nearest(-u) = -Nearest(u) /\ Nearest(u) \in Int
  BY RintOdd, RintNear, NearestOdd, GridFacts
<1>4. PICK r \in Int, v \in Int : r = Rint(u, Sub) /\ v = Nearest(u) /\ Rint(-u, Sub) = -r /\ Nearest(-u) = -v
  BY <1>3
<1>5. vis[k].conj \in BOOLEAN
  BY DEF Tracks
<1>6. SignOf(k, gv) \in Signs /\ ConjSign(gv) \in Signs
  BY <1>5, SignCases DEF Signs, ConjSign
<1>9. PICK t \in {1, -1} : t = ConjSign(gv)
  BY DEF ConjSign
<1>10. /\ t * (-r) = (-t) * r /\ t * (-v) = (-t) * v
  <2>1. CASE t = 1
    BY <1>4, <2>1
  <2>2. CASE t = -1
    BY <1>4, <2>2
  <2> QED BY <1>9, <2>1, <2>2
<1>7. CASE vis[k].conj
  <2>1. uv_lambda[k][a] = -u
    BY <1>2, <1>7
  <2>2. SignOf(k, gv) = -t
    <3>1. SignOf(k, gv) = IF gv = 1 THEN 1 ELSE -1
      BY <1>5, <1>7, SignCases
    <3>2. t = IF gv = 1 THEN -1 ELSE 1
      BY <1>9 DEF ConjSign
    <3> QED BY ONLY <3>1, <3>2
  <2>3. /\ t * Rint(-u, Sub) = (-t) * Rint(u, Sub)
        /\ t * Nearest(-u) = (-t) * Nearest(u)
    BY <1>4, <1>10
  <2>4. ConjSign(gv) * Rint(uv_lambda[k][a], Sub) = SignOf(k, gv) * Rint(input.uv[vis[k].id][a], Sub)
    BY ONLY <1>1, <1>9, <2>1, <2>2, <2>3, Zenon
  <2>5. ConjSign(gv) * Nearest(uv_lambda[k][a]) = SignOf(k, gv) * Nearest(input.uv[vis[k].id][a])
    BY ONLY <1>1, <1>9, <2>1, <2>2, <2>3, Zenon
  <2>6. uv_lambda[k][a] \in Int /\ Rint(input.uv[vis[k].id][a], Sub) \in Int
    BY <1>1, <1>3, <2>1
  <2> QED BY <1>6, <2>4, <2>5, <2>6
<1>8. CASE ~ vis[k].conj
  <2>1. uv_lambda[k][a] = u /\ SignOf(k, gv) = ConjSign(gv)
    <3>1. SignOf(k, gv) = IF gv = 1 THEN -1 ELSE 1
      BY <1>5, <1>8, SignCases
    <3> QED BY <1>2, <1>8, <3>1 DEF ConjSign
  <2>2. ConjSign(gv) * Rint(uv_lambda[k][a], Sub) = SignOf(k, gv) * Rint(input.uv[vis[k].id][a], Sub)
    BY ONLY <1>1, <2>1, Zenon
  <2>3. ConjSign(gv) * Nearest(uv_lambda[k][a]) = SignOf(k, gv) * Nearest(input.uv[vis[k].id][a])
    BY ONLY <1>1, <2>1, Zenon
  <2>4. uv_lambda[k][a] \in Int /\ Rint(input.uv[vis[k].id][a], Sub) \in Int
    BY <1>1, <1>3, <2>1
  <2> QED BY <1>6, <2>2, <2>3, <2>4
<1> QED BY <1>7, <1>8

------------------------------------------------------------------------------
(***************************************************************************)
(* The convolution of a visibility, or of its conjugate, with a kernel of  *)
(* plane p and support s.                                                  *)
(***************************************************************************)
Box(s) == (-s .. s) \X (-s .. s)

\* The contribution to the pixel that is displaced by d.
PointOf(id, sign, p, d) ==
  LET u == input.uv[id][1]
      v == input.uv[id][2]
  IN  <<Pixel(sign * Rint(v, Sub) + d[2]), Pixel(sign * Rint(u, Sub) + d[1]),
        [id     |-> id,
         conj   |-> sign = -1,
         weight |-> input.weights[id],
         kernel |-> Displacement(Unit * d[1] - sign * Nearest(u), Unit * d[2] - sign * Nearest(v)),
         conj_kernel |-> use_wproj /\ sign * input.w[id] < 0,
         plane  |-> p]>>

Spread(id, sign, p, s) == {PointOf(id, sign, p, d) : d \in Box(s)}

\* The rest is on the grid.
OnRows(S) == {c \in S : c[1] < image_rows}

\* What convolve_to_grid adds for row i and column j of the kernel.
Added(k, gv, i, j) ==
  LET s      == conv_support[pi]
      offset == [a \in 1..2 |-> OversampledOffset(uv_lambda[k][a], oversampling)]
      cp     == IF gv = 1 THEN ConjOffset(offset, oversampling) ELSE offset
      frac   == [a \in 1..2 |->
                   IF gv = 1 THEN -UvFrac(uv_lambda[k][a]) ELSE UvFrac(uv_lambda[k][a])]
      fp     == Footprint(k, gv)
  IN  <<fp.rows[i], fp.cols[j],
         [id     |-> vis[k].id,
          conj   |-> vis[k].conj # (gv = 1),
          weight |-> vis_weights[k],
          kernel |-> Displacement(KernelAt(j, s, cp[1], frac[1]),
                                  KernelAt(i, s, cp[2], frac[2])),
          conj_kernel |-> use_wproj /\ ConjW(w_lambda[k], gv) < 0,
          plane  |-> pi]>>

LEMMA ContributionsAdded ==
  ASSUME NEW k, NEW gv
  PROVE  Contributions(k, gv)
           = {Added(k, gv, ij[1], ij[2]) :
                ij \in (DOMAIN Footprint(k, gv).rows) \X (DOMAIN Footprint(k, gv).cols)}
BY DEF Contributions, Added

\* The visibility at position k is placed on the grid and its kernel is inside.
PlacedInside(k) ==
  /\ kernel_centre_on_grid[k] = <<PlacedCentre(uv_lambda[k][1]), PlacedCentre(uv_lambda[k][2])>>
  /\ Within(uv_lambda[k][1]) /\ Within(uv_lambda[k][2])

\* Where the kernel of Contributions is centred in its cache, and off its pixel.
CpOf(k, gv) ==
  LET offset == [a \in 1..2 |-> OversampledOffset(uv_lambda[k][a], oversampling)]
  IN  IF gv = 1 THEN ConjOffset(offset, oversampling) ELSE offset

FracsOf(k, gv) ==
  [a \in 1..2 |-> IF gv = 1 THEN -UvFrac(uv_lambda[k][a]) ELSE UvFrac(uv_lambda[k][a])]

\* The position in the kernel of the pixel displaced by d along an axis.
Position(k, gv, a, d) == Unit * d - SignOf(k, gv) * Nearest(input.uv[vis[k].id][a])

LEMMA KernelValue ==
  ASSUME input \in Inputs, NEW k \in Vis, Tracks(k), NEW gv \in {0, 1}, NEW a \in {1, 2},
         NEW j \in Int, NEW s \in Int
  PROVE  KernelAt(j, s, CpOf(k, gv)[a], FracsOf(k, gv)[a]) = Position(k, gv, a, j - s)
<1>1. PICK x \in Int : x = uv_lambda[k][a]
        /\ ConjSign(gv) * Nearest(x) = SignOf(k, gv) * Nearest(input.uv[vis[k].id][a])
  BY SignAxis
<1>2. CpOf(k, gv)[a] = OffsetOf(x, gv)
  <2>1. CASE gv = 1 /\ oversampling > 1
    BY <1>1, <2>1 DEF CpOf, ConjOffset, OffsetOf
  <2>2. CASE ~ (gv = 1 /\ oversampling > 1)
    BY <1>1, <2>2 DEF CpOf, ConjOffset, OffsetOf
  <2> QED BY <2>1, <2>2
<1>3. FracsOf(k, gv)[a] = FracOf(x, gv)
  BY <1>1 DEF FracsOf, FracOf
<1>4. KernelAt(j, s, OffsetOf(x, gv), FracOf(x, gv)) = Unit * (j - s) - ConjSign(gv) * Nearest(x)
  BY KernelAxis
<1>5. Unit * (j - s) - ConjSign(gv) * Nearest(x) = Position(k, gv, a, j - s)
  BY ONLY <1>1, Zenon DEF Position
<1> QED BY ONLY <1>2, <1>3, <1>4, <1>5, Zenon

\* The row (a = 2) or column (a = 1) on the grid of a pixel of its kernel.
At(k, gv, a, d) == Pixel(SignOf(k, gv) * Rint(input.uv[vis[k].id][a], Sub) + d)

LEMMA AtAxis ==
  ASSUME input \in Inputs, NEW k \in Vis, Tracks(k), NEW gv \in {0, 1}, NEW a \in {1, 2},
         NEW d
  PROVE  At(k, gv, a, d) = Pixel(ConjSign(gv) * Rint(uv_lambda[k][a], Sub) + d)
<1>1. ConjSign(gv) * Rint(uv_lambda[k][a], Sub) = SignOf(k, gv) * Rint(input.uv[vis[k].id][a], Sub)
  BY SignAxis
<1> QED BY ONLY <1>1, Zenon DEF At

LEMMA FootprintIs ==
  ASSUME input \in Inputs, Supported(Inputs), NEW k \in Vis, Tracks(k), NEW gv \in {0, 1},
         gv = 1 => halfplane_gridding, PlacedInside(k), NEW s \in 1 .. max_support,
         conv_support[pi] = s
  PROVE  /\ DOMAIN Footprint(k, gv).rows = {i \in 0 .. 2 * s : At(k, gv, 2, i - s) < image_rows}
         /\ \A i \in DOMAIN Footprint(k, gv).rows : Footprint(k, gv).rows[i] = At(k, gv, 2, i - s)
         /\ DOMAIN Footprint(k, gv).cols = 0 .. 2 * s
         /\ \A j \in 0 .. 2 * s : Footprint(k, gv).cols[j] = At(k, gv, 1, j - s)
<1> DEFINE fp == Footprint(k, gv)
           t  == ConjSign(gv)
           gc == IF gv = 1 THEN ConjCentre(kernel_centre_on_grid[k]) ELSE kernel_centre_on_grid[k]
<1>1. gc = <<CentreOf(uv_lambda[k][1], t), CentreOf(uv_lambda[k][2], t)>>
  BY DEF PlacedInside, ConjCentre, CentreOf, ConjSign
<1>2. PICK x \in Int, y \in Int : x = uv_lambda[k][1] /\ y = uv_lambda[k][2] /\ Within(x) /\ Within(y)
  BY SignAxis DEF PlacedInside
<1>3. fp.rows = RowsOf(gc[2], s) /\ fp.cols = GridCols(gc[1], s)
  BY DEF Footprint, RowsOf
<1>4. gc[1] = CentreOf(x, t) /\ gc[2] = CentreOf(y, t)
  BY <1>1, <1>2
<1>5. \A d : At(k, gv, 2, d) = Pixel(t * Rint(y, Sub) + d) /\ At(k, gv, 1, d) = Pixel(t * Rint(x, Sub) + d)
  BY <1>2, AtAxis
<1> HIDE DEF gc, fp
<1>6. fp.rows = RowsOf(CentreOf(y, t), s)
  BY <1>3, <1>4
<1>7. /\ DOMAIN fp.rows = {i \in 0 .. 2 * s : Pixel(t * Rint(y, Sub) + (i - s)) < image_rows}
      /\ \A i \in DOMAIN fp.rows : fp.rows[i] = Pixel(t * Rint(y, Sub) + (i - s))
  <2>1. LET rows == RowsOf(CentreOf(y, t), s)
        IN  /\ DOMAIN rows = {i \in 0 .. 2 * s : Pixel(t * Rint(y, Sub) + (i - s)) < image_rows}
            /\ \A i \in DOMAIN rows : rows[i] = Pixel(t * Rint(y, Sub) + (i - s))
    BY <1>2, RowsOnGrid
  <2> QED BY <1>6, <2>1, Zenon
<1>8. ASSUME NEW j \in 0 .. 2 * s
      PROVE  WrappedCol(CentreOf(x, t) - s + j) = Pixel(t * Rint(x, Sub) + (j - s))
  <2> DEFINE d == j - s
  <2>1. d \in -max_support .. max_support /\ s \in Int /\ j \in Int
    BY GridFacts
  <2>2. t \in Signs
    BY DEF ConjSign, Signs
  <2> HIDE DEF d, t
  <2>3. CentreOf(x, t) \in Int /\ WrappedCol(CentreOf(x, t) + d) = Pixel(t * Rint(x, Sub) + d)
    BY <1>2, <2>1, <2>2, KernelPixel, GridFacts
  <2>4. CentreOf(x, t) - s + j = CentreOf(x, t) + d
    BY <2>1, <2>3 DEF d
  <2> QED BY <2>3, <2>4 DEF d
<1>9. /\ DOMAIN fp.cols = 0 .. 2 * s
      /\ \A j \in 0 .. 2 * s : fp.cols[j] = Pixel(t * Rint(x, Sub) + (j - s))
  <2>1. fp.cols = [j \in 0 .. 2 * s |-> WrappedCol(CentreOf(x, t) - s + j)]
    BY <1>3, <1>4 DEF GridCols
  <2> QED BY <1>8, <2>1
<1> QED BY <1>5, <1>7, <1>9 DEF fp

LEMMA AddedIsPoint ==
  ASSUME input \in Inputs, Supported(Inputs), NEW k \in Vis, Tracks(k), NEW gv \in {0, 1},
         gv = 1 => halfplane_gridding, PlacedInside(k), NEW s \in 1 .. max_support,
         conv_support[pi] = s,
         NEW i \in DOMAIN Footprint(k, gv).rows, NEW j \in 0 .. 2 * s
  PROVE  Added(k, gv, i, j) = PointOf(vis[k].id, SignOf(k, gv), pi, <<j - s, i - s>>)
<1> DEFINE id     == vis[k].id
           sign   == SignOf(k, gv)
           cp     == CpOf(k, gv)
           frac   == FracsOf(k, gv)
<1>1. i \in 0 .. 2 * s /\ i \in Int /\ j \in Int /\ s \in Int
  BY FootprintIs
<1>2. /\ KernelAt(j, s, cp[1], frac[1]) = Unit * (j - s) - sign * Nearest(input.uv[id][1])
      /\ KernelAt(i, s, cp[2], frac[2]) = Unit * (i - s) - sign * Nearest(input.uv[id][2])
  <2>1. ASSUME NEW a \in {1, 2}, NEW y \in Int
        PROVE  KernelAt(y, s, cp[a], frac[a]) = Position(k, gv, a, y - s)
    BY <1>1, KernelValue
  <2>2. 1 \in {1, 2} /\ 2 \in {1, 2}
    OBVIOUS
  <2> HIDE DEF cp, frac
  <2>3. /\ KernelAt(j, s, cp[1], frac[1]) = Position(k, gv, 1, j - s)
        /\ KernelAt(i, s, cp[2], frac[2]) = Position(k, gv, 2, i - s)
    BY <1>1, <2>1, <2>2
  <2> QED BY <2>3, Zenon DEF Position
<1>3. /\ Footprint(k, gv).rows[i] = Pixel(sign * Rint(input.uv[id][2], Sub) + (i - s))
      /\ Footprint(k, gv).cols[j] = Pixel(sign * Rint(input.uv[id][1], Sub) + (j - s))
  BY FootprintIs DEF At
<1>4. (vis[k].conj # (gv = 1)) = (sign = -1)
  <2>1. vis[k].conj \in BOOLEAN
    BY DEF Tracks
  <2>2. CASE vis[k].conj # (gv = 1)
    BY <2>2 DEF SignOf
  <2>3. CASE ~ (vis[k].conj # (gv = 1))
    BY <2>3 DEF SignOf
  <2> QED BY <2>2, <2>3
<1>5. vis_weights[k] = input.weights[id]
  BY DEF Tracks
<1>6. (use_wproj /\ ConjW(w_lambda[k], gv) < 0) = (use_wproj /\ sign * input.w[id] < 0)
  <2>1. PICK w \in Int : w = input.w[id]
    BY InputOK DEF Tracks
  <2>2. use_wproj \in BOOLEAN /\ vis[k].conj \in BOOLEAN
    BY InputOK DEF Tracks
  <2>3. ASSUME use_wproj PROVE ConjW(w_lambda[k], gv) = sign * w
    <3>1. w_lambda[k] = IF vis[k].conj THEN -w ELSE w
      BY <2>1, <2>3 DEF Tracks
    <3>2. CASE vis[k].conj /\ gv = 1
      <4>1. sign = 1
        BY <2>2, <3>2, SignCases
      <4> QED BY <3>1, <3>2, <4>1 DEF ConjW
    <3>3. CASE vis[k].conj /\ gv # 1
      <4>1. sign = -1
        BY <2>2, <3>3, SignCases
      <4> QED BY <3>1, <3>3, <4>1 DEF ConjW
    <3>4. CASE ~ vis[k].conj /\ gv = 1
      <4>1. sign = -1
        BY <2>2, <3>4, SignCases
      <4> QED BY <3>1, <3>4, <4>1 DEF ConjW
    <3>5. CASE ~ vis[k].conj /\ gv # 1
      <4>1. sign = 1
        BY <2>2, <3>5, SignCases
      <4> QED BY <3>1, <3>5, <4>1 DEF ConjW
    <3> QED BY <3>2, <3>3, <3>4, <3>5
  <2>4. CASE use_wproj
    <3>1. ConjW(w_lambda[k], gv) = sign * input.w[id]
      BY <2>1, <2>3, <2>4
    <3> QED BY <3>1
  <2>5. CASE ~ use_wproj
    BY <2>5
  <2> QED BY <2>4, <2>5
<1>7. Added(k, gv, i, j)
        = <<Footprint(k, gv).rows[i], Footprint(k, gv).cols[j],
            [id     |-> id,
             conj   |-> vis[k].conj # (gv = 1),
             weight |-> vis_weights[k],
             kernel |-> Displacement(KernelAt(j, s, cp[1], frac[1]), KernelAt(i, s, cp[2], frac[2])),
             conj_kernel |-> use_wproj /\ ConjW(w_lambda[k], gv) < 0,
             plane  |-> pi]>>
  BY Zenon DEF Added, CpOf, FracsOf
<1>8. PointOf(id, sign, pi, <<j - s, i - s>>)
        = <<Pixel(sign * Rint(input.uv[id][2], Sub) + (i - s)), Pixel(sign * Rint(input.uv[id][1], Sub) + (j - s)),
            [id     |-> id,
             conj   |-> sign = -1,
             weight |-> input.weights[id],
             kernel |-> Displacement(Unit * (j - s) - sign * Nearest(input.uv[id][1]),
                                     Unit * (i - s) - sign * Nearest(input.uv[id][2])),
             conj_kernel |-> use_wproj /\ sign * input.w[id] < 0,
             plane  |-> pi]>>
  <2> DEFINE d == <<j - s, i - s>>
  <2>1. d[1] = j - s /\ d[2] = i - s
    OBVIOUS
  <2> HIDE DEF d
  <2>2. PointOf(id, sign, pi, d)
        = <<Pixel(sign * Rint(input.uv[id][2], Sub) + d[2]), Pixel(sign * Rint(input.uv[id][1], Sub) + d[1]),
            [id     |-> id,
             conj   |-> sign = -1,
             weight |-> input.weights[id],
             kernel |-> Displacement(Unit * d[1] - sign * Nearest(input.uv[id][1]),
                                     Unit * d[2] - sign * Nearest(input.uv[id][2])),
             conj_kernel |-> use_wproj /\ sign * input.w[id] < 0,
             plane  |-> pi]>>
    BY Zenon DEF PointOf
  <2> QED BY <2>1, <2>2, Zenon DEF d
<1> QED BY ONLY <1>2, <1>3, <1>4, <1>5, <1>6, <1>7, <1>8, Zenon

------------------------------------------------------------------------------
(***************************************************************************)
(* What a visibility, with its copy, adds to the grid.                     *)
(***************************************************************************)
LEMMA PointAt ==
  ASSUME NEW k, NEW gv, NEW p, NEW d
  PROVE  /\ PointOf(vis[k].id, SignOf(k, gv), p, d)[1] = At(k, gv, 2, d[2])
         /\ PointOf(vis[k].id, SignOf(k, gv), p, d)[2] = At(k, gv, 1, d[1])
BY DEF PointOf, At

LEMMA AtInjective ==
  ASSUME input \in Inputs, NEW k \in Vis, Tracks(k), NEW gv \in {0, 1}, NEW a \in {1, 2},
         NEW d \in -max_support .. max_support, NEW e \in -max_support .. max_support,
         At(k, gv, a, d) = At(k, gv, a, e)
  PROVE  d = e
<1>1. PICK r \in Int, t \in Signs : r = Rint(input.uv[vis[k].id][a], Sub) /\ t = SignOf(k, gv)
  BY SignAxis
<1>2. PICK z \in Int : z = t * r
  <2>1. t * r \in Int
    BY DEF Signs
  <2> QED BY <2>1
<1>3. Pixel(z + d) = Pixel(z + e)
  <2>1. \A y : At(k, gv, a, y) = Pixel(z + y)
    BY ONLY <1>1, <1>2, Zenon DEF At
  <2> QED BY <2>1
<1> QED BY <1>3, PixelInjective

LEMMA ContributionsSpread ==
  ASSUME input \in Inputs, Supported(Inputs), NEW k \in Vis, Tracks(k), NEW gv \in {0, 1},
         gv = 1 => halfplane_gridding, PlacedInside(k), NEW s \in 1 .. max_support,
         conv_support[pi] = s
  PROVE  /\ Contributions(k, gv) = OnRows(Spread(vis[k].id, SignOf(k, gv), pi, s))
         /\ IsFiniteSet(Contributions(k, gv))
         /\ Cardinality(Contributions(k, gv))
              = Cardinality((DOMAIN Footprint(k, gv).rows) \X (DOMAIN Footprint(k, gv).cols))
<1> DEFINE R == DOMAIN Footprint(k, gv).rows
           C == DOMAIN Footprint(k, gv).cols
           id == vis[k].id
           sign == SignOf(k, gv)
           point(d) == PointOf(id, sign, pi, d)
<1>1. R = {i \in 0 .. 2 * s : At(k, gv, 2, i - s) < image_rows} /\ C = 0 .. 2 * s
  BY FootprintIs
<1>2. s \in Nat /\ s <= max_support /\ max_support \in Nat
  BY GridFacts
<1>3. Contributions(k, gv) = {Added(k, gv, ij[1], ij[2]) : ij \in R \X C}
  BY ContributionsAdded
<1>4. ASSUME NEW i \in R, NEW j \in C PROVE Added(k, gv, i, j) = point(<<j - s, i - s>>)
  BY <1>1, AddedIsPoint
<1> HIDE DEF R, C
<1>5. Contributions(k, gv) = {point(<<ij[2] - s, ij[1] - s>>) : ij \in R \X C}
  <2>1. \A ij \in R \X C : Added(k, gv, ij[1], ij[2]) = point(<<ij[2] - s, ij[1] - s>>)
    BY <1>4
  <2> HIDE DEF point
  <2> QED BY <1>3, <2>1, ZenonT(30)
<1>6. \A d : point(d)[1] = At(k, gv, 2, d[2]) /\ point(d)[2] = At(k, gv, 1, d[1])
  BY PointAt, ZenonT(30)
<1> HIDE DEF point
<1>7. Contributions(k, gv) \subseteq OnRows(Spread(id, sign, pi, s))
  <2> SUFFICES ASSUME NEW i \in R, NEW j \in C
               PROVE  point(<<j - s, i - s>>) \in OnRows(Spread(id, sign, pi, s))
    BY <1>5
  <2> DEFINE d == <<j - s, i - s>>
  <2>1. d \in Box(s) /\ d[2] = i - s
    BY <1>1, <1>2 DEF Box
  <2>2. At(k, gv, 2, d[2]) < image_rows
    BY <1>1, <2>1
  <2> HIDE DEF d
  <2>3. point(d) \in Spread(id, sign, pi, s)
    BY <2>1 DEF Spread, point
  <2>4. point(d)[1] < image_rows
    BY <1>6, <2>2
  <2>5. point(d) \in OnRows(Spread(id, sign, pi, s))
    BY <2>3, <2>4 DEF OnRows
  <2> QED BY <2>5 DEF d
<1>8. OnRows(Spread(id, sign, pi, s)) \subseteq Contributions(k, gv)
  <2> SUFFICES ASSUME NEW c \in OnRows(Spread(id, sign, pi, s)) PROVE c \in Contributions(k, gv)
    OBVIOUS
  <2>1. PICK d \in Box(s) : c = point(d)
    BY DEF OnRows, Spread, point
  <2>2. PICK x \in -s .. s, y \in -s .. s : d = <<x, y>>
    BY <2>1 DEF Box
  <2> DEFINE i == y + s
             j == x + s
  <2>3. i \in 0 .. 2 * s /\ j \in 0 .. 2 * s /\ i - s = y /\ j - s = x
    BY <1>2
  <2> HIDE DEF i, j
  <2>4. At(k, gv, 2, y) < image_rows
    <3>1. c[1] < image_rows
      BY DEF OnRows
    <3>2. c[1] = At(k, gv, 2, y)
      BY <1>6, <2>1, <2>2
    <3> QED BY <3>1, <3>2
  <2>5. i \in R /\ j \in C
    BY <1>1, <2>3, <2>4
  <2>6. c = point(<<j - s, i - s>>)
    BY <2>1, <2>2, <2>3
  <2> DEFINE ij == <<i, j>>
  <2>7. ij \in R \X C /\ ij[1] = i /\ ij[2] = j
    BY <2>5
  <2> HIDE DEF ij
  <2>8. c = point(<<ij[2] - s, ij[1] - s>>)
    BY <2>6, <2>7, Zenon
  <2> QED BY <1>5, <2>7, <2>8
<1>9. /\ IsFiniteSet(Contributions(k, gv))
      /\ Cardinality(Contributions(k, gv)) = Cardinality(R \X C)
  <2> DEFINE f == [ij \in R \X C |-> point(<<ij[2] - s, ij[1] - s>>)]
  <2>1. IsFiniteSet(R \X C)
    <3>1. IsFiniteSet(0 .. 2 * s)
      BY <1>2, FS_Interval
    <3>2. R \subseteq 0 .. 2 * s /\ C = 0 .. 2 * s
      BY <1>1
    <3>3. IsFiniteSet(R) /\ IsFiniteSet(C)
      BY <3>1, <3>2, FS_Subset
    <3> QED BY <3>3, FS_Product
  <2>2. Contributions(k, gv) = {f[ij] : ij \in R \X C}
    BY <1>5
  <2>3. ASSUME NEW ij \in R \X C, NEW lm \in R \X C, f[ij] = f[lm] PROVE ij = lm
    <3>1. PICK i \in R, j \in C, l \in R, m \in C : ij = <<i, j>> /\ lm = <<l, m>>
      BY <2>3
    <3>2. point(<<j - s, i - s>>) = point(<<m - s, l - s>>)
      BY <2>3, <3>1
    <3>3. At(k, gv, 2, i - s) = At(k, gv, 2, l - s) /\ At(k, gv, 1, j - s) = At(k, gv, 1, m - s)
      <4>1. \A x, y : <<x, y>>[1] = x /\ <<x, y>>[2] = y
        OBVIOUS
      <4> QED BY <1>6, <3>2, <4>1
    <3>4. /\ i - s \in -max_support .. max_support /\ l - s \in -max_support .. max_support
          /\ j - s \in -max_support .. max_support /\ m - s \in -max_support .. max_support
          /\ i \in Int /\ j \in Int /\ l \in Int /\ m \in Int
      BY <1>1, <1>2
    <3>5. i - s = l - s /\ j - s = m - s
      BY <3>3, <3>4, AtInjective
    <3> QED BY <1>2, <3>1, <3>4, <3>5
  <2> HIDE DEF f
  <2> QED BY <2>1, <2>2, <2>3, ImageOneToOne
<1> QED BY <1>7, <1>8, <1>9 DEF R, C

\* After ConvertToHalfplane.
Folded(k) ==
  /\ halfplane_gridding => uv_lambda[k][2] >= 0
  /\ ~ halfplane_gridding => ~ vis[k].conj

\* The times a visibility in bounds is gridded.
Copies(k) == IF halfplane_gridding /\ NearZero(uv_lambda[k][2]) THEN 2 ELSE 1

SignSet == IF halfplane_gridding THEN {1, -1} ELSE {1}

\* The part on the grid of the convolutions of a visibility and of its conjugate.
OnGrid(id, p, s) == OnRows(UNION {Spread(id, sign, p, s) : sign \in SignSet})

LEMMA SumOfFirst ==
  ASSUME NEW w
  PROVE  /\ w[0] \in Int => SumOf(w, {0}) = w[0]
         /\ w[0] \in Int /\ w[1] \in Int => SumOf(w, {0, 1}) = w[0] + w[1]
<1>1. IsFiniteSet({}) /\ SumOf(w, {}) = 0
  BY FS_EmptySet, SumEmpty
<1>2. ASSUME w[0] \in Int PROVE SumOf(w, {0}) = w[0]
  <2>1. SumOf(w, {} \union {0}) = w[0] + SumOf(w, {})
    BY <1>1, <1>2, SumAdd
  <2>2. {} \union {0} = {0}
    OBVIOUS
  <2> QED BY <1>1, <1>2, <2>1, <2>2
<1>3. ASSUME w[0] \in Int, w[1] \in Int PROVE SumOf(w, {0, 1}) = w[0] + w[1]
  <2>1. IsFiniteSet({0})
    BY FS_Singleton
  <2>2. SumOf(w, {0} \union {1}) = w[1] + SumOf(w, {0})
    <3>1. 1 \notin {0} /\ \A x \in {0} \union {1} : w[x] \in Int
      BY <1>3
    <3> QED BY <2>1, <3>1, SumAdd
  <2>3. {0} \union {1} = {0, 1}
    OBVIOUS
  <2>4. SumOf(w, {0, 1}) = w[1] + w[0]
    BY <1>2, <1>3, <2>2, <2>3
  <2> QED BY ONLY <1>3, <2>4
<1> QED BY <1>2, <1>3

LEMMA SignBoth ==
  ASSUME NEW k, vis[k].conj \in BOOLEAN
  PROVE  /\ vis[k].conj => SignOf(k, 0) = -1 /\ SignOf(k, 1) = 1
         /\ ~ vis[k].conj => SignOf(k, 0) = 1 /\ SignOf(k, 1) = -1
<1>1. CASE vis[k].conj = TRUE
  BY <1>1 DEF SignOf
<1>2. CASE vis[k].conj = FALSE
  BY <1>2 DEF SignOf
<1> QED BY <1>1, <1>2

\* A visibility that is not near the 0-frequency has its conjugate off the grid.
LEMMA NoConjugateRows ==
  ASSUME input \in Inputs, Supported(Inputs), NEW k \in Vis, Tracks(k), Folded(k),
         halfplane_gridding, ~ NearZero(uv_lambda[k][2]), Within(uv_lambda[k][2]),
         NEW p, NEW s \in 1 .. max_support
  PROVE  OnRows(Spread(vis[k].id, SignOf(k, 1), p, s)) = {}
<1> SUFFICES ASSUME NEW d \in Box(s)
             PROVE  ~ (PointOf(vis[k].id, SignOf(k, 1), p, d)[1] < image_rows)
  BY DEF OnRows, Spread
<1> DEFINE m == image_size
           h == half_image_size
           M == max_support
<1>1. m \in Nat \ {0} /\ h \in Nat /\ m = 2 * h /\ M \in Nat \ {0} /\ M < h /\ s <= M /\ s \in Nat
      /\ Sub \in Nat \ {0}
  BY GridFacts
<1>2. image_rows = h + 1 /\ shift_uv
  BY DEF image_rows, Supported, shift_uv, halfplane_gridding
<1>3. PICK x \in Int : x = uv_lambda[k][2] /\ x >= 0 /\ Within(x) /\ ~ NearZero(x)
  BY SignAxis DEF Folded
<1>4. x >= (M + 1) * Sub
  <2>1. -(M + 1) * Sub = -((M + 1) * Sub) /\ (M + 1) * Sub \in Nat /\ (M + 1) * Sub > 0
    BY <1>1
  <2> QED BY <1>3, <2>1 DEF NearZero
<1> HIDE DEF m, h, M
<1>5. PICK r \in Int : r = Rint(x, Sub) /\ r >= M + 1 /\ r + M < h
  <2>1. M + 1 \in Int
    BY <1>1
  <2>2. M + 1 <= Rint(x, Sub)
    BY <1>1, <1>4, <2>1, RintAtLeast
  <2> QED BY <1>1, <1>3, <2>2, RintNear DEF Within, h, M
<1>6. PICK e \in Int : e = d[2] /\ -s <= e /\ e <= s
  BY <1>1 DEF Box
<1>7. PointOf(vis[k].id, SignOf(k, 1), p, d)[1] = Pixel(ConjSign(1) * r + e)
  <2>1. PointOf(vis[k].id, SignOf(k, 1), p, d)[1] = At(k, 1, 2, d[2])
    BY DEF PointOf, At
  <2>2. At(k, 1, 2, e) = Pixel(ConjSign(1) * r + e)
    BY <1>3, <1>5, AtAxis
  <2> QED BY <1>6, <2>1, <2>2
<1>8. Pixel(ConjSign(1) * r + e) = (e - r) % m
  <2>1. ConjSign(1) * r + e + 0 = e - r
    BY DEF ConjSign
  <2> QED BY <1>2, <2>1 DEF Pixel, m
<1>9. (e - r) % m = e - r + m
  <2>1. e - r \in Int /\ -m <= e - r /\ e - r < m /\ e - r < 0
    BY <1>1, <1>5, <1>6
  <2> QED BY <1>1, <2>1, SignedResidue
<1> QED BY <1>1, <1>2, <1>5, <1>6, <1>7, <1>8, <1>9

\* The visibility and its copy together.
LEMMA VisibilityAdds ==
  ASSUME input \in Inputs, Supported(Inputs), NEW k \in Vis, Tracks(k), Folded(k),
         PlacedInside(k), NEW s \in 1 .. max_support, conv_support[pi] = s,
         good_vis[k] = Copies(k)
  PROVE  LET copies == 0 .. good_vis[k] - 1
             size == [gv \in copies |->
                        Cardinality((DOMAIN Footprint(k, gv).rows) \X (DOMAIN Footprint(k, gv).cols))]
             added == UNION {Contributions(k, gv) : gv \in copies}
         IN  /\ added = OnGrid(vis[k].id, pi, s)
             /\ IsFiniteSet(added)
             /\ SumOf(size, copies) = Cardinality(added)
<1> DEFINE copies == 0 .. good_vis[k] - 1
           size == [gv \in copies |->
                      Cardinality((DOMAIN Footprint(k, gv).rows) \X (DOMAIN Footprint(k, gv).cols))]
           added == UNION {Contributions(k, gv) : gv \in copies}
           id == vis[k].id
           S(gv) == Spread(id, SignOf(k, gv), pi, s)
<1>1. halfplane_gridding \in BOOLEAN /\ vis[k].conj \in BOOLEAN
  BY InputOK DEF Tracks
<1>2. ASSUME NEW gv \in {0, 1}, gv = 1 => halfplane_gridding
      PROVE  /\ Contributions(k, gv) = OnRows(S(gv))
             /\ IsFiniteSet(Contributions(k, gv))
             /\ Cardinality(Contributions(k, gv))
                  = Cardinality((DOMAIN Footprint(k, gv).rows) \X (DOMAIN Footprint(k, gv).cols))
             /\ Cardinality(Contributions(k, gv)) \in Nat
  <2>1. IsFiniteSet(Contributions(k, gv))
    BY <1>2, ContributionsSpread
  <2> QED BY <1>2, <2>1, ContributionsSpread, FS_CardinalityType
<1>3. ~ halfplane_gridding => SignOf(k, 0) = 1
  BY <1>1, SignBoth DEF Folded
<1>4. {SignOf(k, 0), SignOf(k, 1)} = {1, -1}
  BY <1>1, SignBoth
<1>5. halfplane_gridding => OnGrid(id, pi, s) = OnRows(S(0)) \union OnRows(S(1))
  <2> SUFFICES ASSUME halfplane_gridding PROVE OnGrid(id, pi, s) = OnRows(S(0)) \union OnRows(S(1))
    OBVIOUS
  <2>1. SignSet = {SignOf(k, 0), SignOf(k, 1)}
    BY <1>4 DEF SignSet
  <2>2. UNION {Spread(id, sign, pi, s) : sign \in SignSet} = S(0) \union S(1)
    <3> HIDE DEF id
    <3> QED BY <2>1
  <2> QED BY <2>2 DEF OnGrid, OnRows
<1>6. ~ halfplane_gridding => OnGrid(id, pi, s) = OnRows(S(0))
  <2> SUFFICES ASSUME ~ halfplane_gridding PROVE OnGrid(id, pi, s) = OnRows(S(0))
    OBVIOUS
  <2>1. SignSet = {SignOf(k, 0)}
    BY <1>3 DEF SignSet
  <2>2. UNION {Spread(id, sign, pi, s) : sign \in SignSet} = S(0)
    <3> HIDE DEF id
    <3> QED BY <2>1
  <2> QED BY <2>2 DEF OnGrid
<1> HIDE DEF S
<1>7. CASE good_vis[k] = 1
  <2>1. copies = {0} /\ added = Contributions(k, 0)
    <3>1. copies = {0}
      BY <1>7
    <3> HIDE DEF copies
    <3> QED BY <3>1
  <2>2. added = OnGrid(id, pi, s)
    <3>1. CASE ~ halfplane_gridding
      BY <1>2, <1>6, <2>1, <3>1
    <3>2. CASE halfplane_gridding
      <4>1. ~ NearZero(uv_lambda[k][2])
        BY <1>7, <3>2 DEF Copies
      <4>2. OnRows(S(1)) = {}
        BY <3>2, <4>1, NoConjugateRows DEF S, PlacedInside
      <4> QED BY <1>2, <1>5, <2>1, <3>2, <4>2
    <3> QED BY <3>1, <3>2
  <2>3. size[0] = Cardinality(added) /\ size[0] \in Int
    <3>1. size[0] = Cardinality((DOMAIN Footprint(k, 0).rows) \X (DOMAIN Footprint(k, 0).cols))
      BY <2>1
    <3> HIDE DEF size, added
    <3> QED BY <1>2, <2>1, <3>1
  <2>4. SumOf(size, copies) = Cardinality(added)
    <3> HIDE DEF size, added, copies
    <3>1. SumOf(size, {0}) = size[0]
      BY <2>3, SumOfFirst
    <3> QED BY <2>1, <2>3, <3>1
  <2>5. IsFiniteSet(added)
    <3>1. IsFiniteSet(Contributions(k, 0))
      BY <1>2
    <3> HIDE DEF added
    <3> QED BY <2>1, <3>1
  <2> QED BY <2>2, <2>4, <2>5
<1>8. CASE good_vis[k] = 2
  <2>1. halfplane_gridding
    BY <1>8 DEF Copies
  <2>2. copies = {0, 1} /\ added = Contributions(k, 0) \union Contributions(k, 1)
    <3>1. copies = {0, 1}
      BY <1>8
    <3> HIDE DEF copies
    <3> QED BY <3>1
  <2>3. added = OnGrid(id, pi, s)
    <3>1. Contributions(k, 0) = OnRows(S(0)) /\ Contributions(k, 1) = OnRows(S(1))
      BY <1>2, <2>1
    <3> HIDE DEF copies, added
    <3> QED BY <1>5, <2>1, <2>2, <3>1
  <2>4. /\ size[0] = Cardinality(Contributions(k, 0)) /\ size[0] \in Nat
        /\ size[1] = Cardinality(Contributions(k, 1)) /\ size[1] \in Nat
    <3>1. /\ size[0] = Cardinality((DOMAIN Footprint(k, 0).rows) \X (DOMAIN Footprint(k, 0).cols))
          /\ size[1] = Cardinality((DOMAIN Footprint(k, 1).rows) \X (DOMAIN Footprint(k, 1).cols))
      BY <2>2
    <3> HIDE DEF size, added
    <3> QED BY <1>2, <2>1, <3>1
  <2>5. Contributions(k, 0) \cap Contributions(k, 1) = {}
    <3>1. ASSUME NEW gv \in {0, 1}, NEW c \in S(gv)
          PROVE  c[3].conj = (SignOf(k, gv) = -1)
      BY <3>1 DEF S, Spread, PointOf
    <3>2. SignOf(k, 0) = -1 <=> SignOf(k, 1) # -1
      BY <1>1, SignBoth
    <3>3. ASSUME NEW c, c \in Contributions(k, 0), c \in Contributions(k, 1) PROVE FALSE
      <4>1. c \in S(0) /\ c \in S(1)
        BY <1>2, <2>1, <3>3 DEF OnRows
      <4>2. (SignOf(k, 0) = -1) = (SignOf(k, 1) = -1)
        BY <3>1, <4>1
      <4> QED BY <3>2, <4>2
    <3> QED BY <3>3
  <2>6. IsFiniteSet(added) /\ Cardinality(added) = size[0] + size[1]
    <3>1. IsFiniteSet(Contributions(k, 0)) /\ IsFiniteSet(Contributions(k, 1))
      BY <1>2, <2>1
    <3>2. /\ IsFiniteSet(added)
          /\ Cardinality(added) = Cardinality(Contributions(k, 0)) + Cardinality(Contributions(k, 1))
                                  - Cardinality({})
      <4> HIDE DEF added
      <4> QED BY <2>2, <2>5, <3>1, FS_Union
    <3>3. Cardinality({}) = 0
      BY FS_EmptySet
    <3> HIDE DEF size, added
    <3> QED BY <2>4, <3>2, <3>3
  <2>7. SumOf(size, copies) = Cardinality(added)
    <3> HIDE DEF size, added, copies
    <3>1. SumOf(size, {0, 1}) = size[0] + size[1]
      BY <2>4, SumOfFirst
    <3> QED BY <2>2, <2>6, <3>1
  <2> QED BY <2>3, <2>6, <2>7
<1> QED BY <1>7, <1>8 DEF Copies

------------------------------------------------------------------------------
(***************************************************************************)
(* The division into w-planes, from its own module.                        *)
(***************************************************************************)
PP == INSTANCE WPlanes_proofs WITH Arguments <- {}

LEMMA SameFinite ==
  ASSUME NEW S
  PROVE  PP!IsFiniteSet(S) <=> IsFiniteSet(S)
BY DEF PP!IsFiniteSet, IsFiniteSet

LEMMA SameCardinality ==
  ASSUME NEW S
  PROVE  PP!Cardinality(S) = Cardinality(S) /\ Planes!Cardinality(S) = Cardinality(S)
BY DEF PP!Cardinality, Planes!Cardinality, Cardinality, PP!IsFiniteSet, Planes!IsFiniteSet, IsFiniteSet

LEMMA SameMax ==
  ASSUME NEW S
  PROVE  PP!Max(S) = Planes!Max(S)
BY DEF PP!Max, Planes!Max

LEMMA SameInit == Planes!PlanesInit <=> PP!PlanesInit
BY DEF Planes!PlanesInit, PP!PlanesInit, Planes!Plane, PP!Plane

LEMMA SameNext == Planes!NextPlane => PP!NextPlane
<1>1. Planes!n = PP!n
  BY SameCardinality DEF Planes!n, PP!n
<1>2. Planes!Good = PP!Good
  BY <1>1 DEF Planes!Good, PP!Good
<1>3. Planes!Wrapped = PP!Wrapped
  BY <1>2, SameCardinality DEF Planes!Wrapped, PP!Wrapped
<1>4. Planes!plane_size = PP!plane_size
  BY <1>1, <1>2, <1>3, SameCardinality
  DEF Planes!plane_size, PP!plane_size, Planes!Ceil, PP!Ceil, Planes!Huge, PP!Huge
<1>5. \A S, k : Planes!Cardinality({l \in S : l < k}) = PP!Cardinality({l \in S : l < k})
  BY SameCardinality
<1>6. ASSUME NEW size PROVE Planes!Taken(size) = PP!Taken(size)
  BY <1>2, <1>5 DEF Planes!Taken, PP!Taken
<1>7. ASSUME NEW size PROVE Planes!StopAt(size) = PP!StopAt(size)
  BY <1>1, <1>6, SameCardinality, SameMax DEF Planes!StopAt, PP!StopAt
<1>8. ASSUME NEW S, NEW c PROVE Planes!Nth(S, c) = PP!Nth(S, c)
  BY <1>5 DEF Planes!Nth, PP!Nth
<1>9. ASSUME NEW size PROVE Planes!Middle(size) = PP!Middle(size)
  <2>1. Planes!Nth(Planes!Taken(size), size \div 2) = PP!Nth(PP!Taken(size), size \div 2)
    BY <1>6, <1>8
  <2> QED BY <1>3, <2>1, SameMax DEF Planes!Middle, PP!Middle
<1>10. ASSUME NEW size PROVE Planes!Averaged(size) = PP!Averaged(size)
  BY <1>6, <1>9 DEF Planes!Averaged, PP!Averaged
<1> QED BY <1>4, <1>7, <1>10 DEF Planes!NextPlane, PP!NextPlane

------------------------------------------------------------------------------
(***************************************************************************)
(* The inductive invariant, first without the grid's contents: what is     *)
(* known of the visibilities when they have been sorted, inverted and      *)
(* placed, of their division into planes, and of the loop's indices.       *)
(***************************************************************************)
Inside(k) == Within(uv_lambda[k][1]) /\ Within(uv_lambda[k][2])

Unplaced == {"sort", "halfplane", "place"}
Gridding == {"plane", "grid", "done"}

\* Each visibility of the input is at one position, as itself or its conjugate.
TracksInv ==
  /\ input \in Inputs
  /\ pc \in Unplaced \union {"average"} \union Gridding
  /\ vis \in [Vis -> [id : Vis, conj : BOOLEAN]]
  /\ vis_weights \in [Vis -> Int]
  /\ sample_grid_total \in Int
  /\ good_vis \in [Vis -> 0..2]
  /\ \A k \in Vis : Tracks(k)
  /\ \A k, l \in Vis : vis[k].id = vis[l].id => k = l

FoldInv ==
  /\ pc \in {"sort", "halfplane"} => \A k \in Vis : ~ vis[k].conj /\ good_vis[k] = 1
  /\ pc \notin {"sort", "halfplane"} => \A k \in Vis : Folded(k) /\ good_vis[k] \in {0, Copies(k)}
  /\ pc = "place" => \A k \in Vis : good_vis[k] # 0

PlaceInv ==
  pc \notin Unplaced =>
    /\ \A k \in Vis : good_vis[k] # 0 <=> Inside(k)
    /\ \A k \in Vis : kernel_centre_on_grid[k]
                        = <<PlacedCentre(uv_lambda[k][1]), PlacedCentre(uv_lambda[k][2])>>
    /\ sample_grid_total = 2 * SumOf(vis_weights, {k \in Vis : good_vis[k] # 0})

SortInv ==
  use_wproj /\ pc # "sort" =>
    \A k, l \in Vis : k < l => Abs(w_lambda[k]) <= Abs(w_lambda[l])

PlaneInv ==
  /\ pc \in Unplaced \/ ~ use_wproj => Planes!PlanesInit
  /\ pc \notin Unplaced => PP!TInv
  /\ PP!Ordered
  /\ pc = "average" => use_wproj
  /\ pc \in Gridding /\ use_wproj => idx = num_wplanes

VisInv == TracksInv /\ FoldInv /\ PlaceInv /\ SortInv /\ PlaneInv

\* The loop over the planes and their visibilities.
LoopInv ==
  /\ pi \in 0 .. num_wplanes
  /\ conv_support \in [Plane -> 1..max_support]
  /\ vi \in 0 .. n
  /\ pc \notin Gridding => pi = 0 /\ vis_grid = {} /\ adds = 0
  /\ pc \in {"plane", "grid"} => pi < num_wplanes
  /\ pc = "done" => pi = num_wplanes
  /\ pc = "grid" => firstidx[pi] <= vi /\ vi <= vi_end
  /\ \A c \in vis_grid : c[1] \in 0 .. image_rows - 1 /\ c[2] \in 0 .. image_size - 1

TInv == VisInv /\ LoopInv

LEMMA TypesFollow == TInv => ConvolveTypeOK
<1> SUFFICES ASSUME TInv PROVE ConvolveTypeOK
  OBVIOUS
<1>1. \A k \in Vis : good_vis[k] = 2 => halfplane_gridding
  BY DEF TInv, VisInv, FoldInv, Copies
<1> QED BY <1>1 DEF TInv, VisInv, TracksInv, LoopInv, ConvolveTypeOK, Unplaced, Gridding

LEMMA OrderedStart == Planes!PlanesInit => PP!Ordered
<1> SUFFICES ASSUME Planes!PlanesInit PROVE PP!Ordered
  OBVIOUS
<1>1. idx = 0 /\ begin = 0
  BY DEF Planes!PlanesInit
<1> QED BY <1>1 DEF PP!Ordered

\* The planes before they are computed.
LEMMA PlanesStart ==
  input \in Inputs /\ good_vis \in [Vis -> 0..2] /\ Planes!PlanesInit => PP!TInv
<1> SUFFICES ASSUME input \in Inputs, good_vis \in [Vis -> 0..2], Planes!PlanesInit PROVE PP!TInv
  OBVIOUS
<1>1. DOMAIN good_vis = Vis
  OBVIOUS
<1>2. PP!n = n
  BY <1>1, SameCardinality DEF PP!n, n
<1>3. Vis = 0 .. PP!n - 1 /\ IsFiniteSet(Vis)
  BY <1>2, InputOK
<1>4. PP!IsFiniteSet(DOMAIN good_vis)
  BY <1>1, <1>3, SameFinite
<1>5. good_vis \in [0 .. PP!n - 1 -> 0..2]
  BY <1>3
<1>6. num_wplanes \in Nat \ {0} /\ median \in BOOLEAN
  BY InputOK
<1> QED BY <1>4, <1>5, <1>6, SameInit, PP!TInvStart

LEMMA TInvInit == Init => TInv
<1> SUFFICES ASSUME Init PROVE TInv
  OBVIOUS
<1>1. input \in Inputs /\ pc = "sort" /\ Planes!PlanesInit
  BY DEF Init
<1>2. /\ n \in Nat /\ Vis = 0 .. n - 1 /\ num_wplanes \in Nat \ {0}
      /\ \A k \in Vis : input.w[k] \in Int
  BY <1>1, InputOK
<1>3. max_support \in Nat \ {0}
  BY GridFacts
<1>4. TracksInv
  <2>1. /\ vis \in [Vis -> [id : Vis, conj : BOOLEAN]]
        /\ vis_weights \in [Vis -> Int] /\ sample_grid_total \in Int
        /\ good_vis \in [Vis -> 0..2]
    BY <1>1, InputOK DEF Init
  <2>2. \A k \in Vis : vis[k].id = k /\ ~ vis[k].conj
    BY DEF Init
  <2>3. \A k \in Vis : /\ uv_lambda[k] = input.uv[k] /\ w_lambda[k] = input.w[k]
                       /\ vis_weights[k] = input.weights[k]
    BY DEF Init
  <2>4. \A k \in Vis : Tracks(k)
    BY <2>1, <2>2, <2>3 DEF Tracks
  <2> QED BY <1>1, <2>1, <2>2, <2>4 DEF TracksInv, Unplaced
<1>5. FoldInv
  BY <1>1 DEF Init, FoldInv
<1>6. PlaceInv /\ SortInv
  BY <1>1 DEF PlaceInv, SortInv, Unplaced
<1>7. PlaneInv
  BY <1>1, OrderedStart DEF PlaneInv, Unplaced, Gridding
<1>8. LoopInv
  <2>1. pi = 0 /\ vi = 0 /\ vis_grid = {} /\ adds = 0 /\ conv_support \in [Plane -> 1..max_support]
    BY <1>3 DEF Init
  <2> QED BY <1>1, <1>2, <2>1 DEF LoopInv, Gridding
<1> QED BY <1>4, <1>5, <1>6, <1>7, <1>8 DEF TInv, VisInv

------------------------------------------------------------------------------
LEMMA AbsNeg == \A x \in Int : Abs(-x) = Abs(x) /\ Abs(x) \in Int
  BY DEF Abs

LEMMA SortStep == TInv /\ SortByAbsW => TInv'
<1> SUFFICES ASSUME TInv, SortByAbsW PROVE TInv'
  OBVIOUS
<1>1. /\ pc = "sort" /\ pc' = "halfplane" /\ input' = input /\ good_vis' = good_vis
      /\ UNCHANGED <<sample_grid_total, planevars, pi, gridvars>>
  BY DEF SortByAbsW
<1>2. /\ Vis' = Vis /\ n' = n /\ use_wproj' = use_wproj /\ num_wplanes' = num_wplanes
      /\ image_rows' = image_rows /\ Plane' = Plane /\ halfplane_gridding' = halfplane_gridding
  BY <1>1 DEF Vis, n, use_wproj, num_wplanes, image_rows, halfplane_gridding, Plane
<1>3. TracksInv /\ FoldInv /\ PlaneInv /\ LoopInv
  BY DEF TInv, VisInv
<1>4. PICK f \in [Vis -> Vis] :
        /\ \A k, l \in Vis : f[k] = f[l] => k = l
        /\ \A k \in Vis : /\ uv_lambda'[k] = uv_lambda[f[k]] /\ w_lambda'[k] = w_lambda[f[k]]
                          /\ vis'[k] = vis[f[k]] /\ vis_weights'[k] = vis_weights[f[k]]
        /\ vis' \in [Vis -> [id : Vis, conj : BOOLEAN]] /\ vis_weights' \in [Vis -> Int]
        /\ use_wproj => \A k, l \in Vis : k < l => Abs(w_lambda[f[k]]) <= Abs(w_lambda[f[l]])
  <2>1. CASE use_wproj
    <3>1. PICK f \in SortIndex(w_lambda) :
            /\ uv_lambda' = Sorted(uv_lambda, f)
            /\ w_lambda' = Sorted(w_lambda, f)
            /\ vis' = Sorted(vis, f)
            /\ vis_weights' = SortedWeights(f)
      BY <2>1 DEF SortByAbsW
    <3>2. /\ f \in [Vis -> Vis] /\ \A k, l \in Vis : f[k] = f[l] => k = l
          /\ \A k, l \in Vis : k < l => Abs(w_lambda[f[k]]) <= Abs(w_lambda[f[l]])
      BY <3>1 DEF SortIndex, Permutation
    <3>3. /\ \A k \in Vis : /\ uv_lambda'[k] = uv_lambda[f[k]] /\ w_lambda'[k] = w_lambda[f[k]]
                            /\ vis'[k] = vis[f[k]] /\ vis_weights'[k] = vis_weights[f[k]]
      BY <3>1 DEF Sorted, SortedWeights
    <3>4. vis' \in [Vis -> [id : Vis, conj : BOOLEAN]] /\ vis_weights' \in [Vis -> Int]
      BY <1>3, <3>1, <3>2 DEF Sorted, SortedWeights, TracksInv
    <3> QED BY <3>2, <3>3, <3>4
  <2>2. CASE ~ use_wproj
    <3> DEFINE f == [k \in Vis |-> k]
    <3>1. f \in [Vis -> Vis] /\ \A k \in Vis : f[k] = k
      OBVIOUS
    <3>2. UNCHANGED visvars
      BY <2>2 DEF SortByAbsW
    <3> HIDE DEF f
    <3> QED BY <1>3, <2>2, <3>1, <3>2 DEF visvars, TracksInv
  <2> QED BY <2>1, <2>2
<1>5. TracksInv'
  <2>1. ASSUME NEW k \in Vis PROVE Tracks(k)'
    <3>1. Tracks(f[k])
      BY <1>3, <1>4 DEF TracksInv
    <3> QED BY <1>1, <1>2, <1>4, <3>1 DEF Tracks
  <2>2. ASSUME NEW k \in Vis, NEW l \in Vis, vis'[k].id = vis'[l].id PROVE k = l
    <3>1. vis[f[k]].id = vis[f[l]].id
      BY <1>4, <2>2
    <3>2. f[k] = f[l]
      BY <1>3, <1>4, <3>1 DEF TracksInv
    <3> QED BY <1>4, <3>2
  <2> QED BY <1>1, <1>2, <1>3, <1>4, <2>1, <2>2 DEF TracksInv, Unplaced
<1>6. FoldInv'
  BY <1>1, <1>2, <1>3, <1>4 DEF FoldInv
<1>7. PlaceInv'
  BY <1>1 DEF PlaceInv, Unplaced
<1>8. SortInv'
  BY <1>2, <1>4 DEF SortInv
<1>9. PlaneInv'
  <2>1. Planes!PlanesInit'
    BY <1>1, <1>2, <1>3 DEF PlaneInv, planevars, Planes!PlanesInit, Planes!Plane, Unplaced
  <2>2. PP!Ordered'
    BY <2>1, OrderedStart, PTL
  <2> QED BY <1>1, <2>1, <2>2 DEF PlaneInv, Unplaced, Gridding
<1>10. LoopInv'
  BY <1>1, <1>2, <1>3 DEF LoopInv, gridvars, Gridding
<1> QED BY <1>5, <1>6, <1>7, <1>8, <1>9, <1>10 DEF TInv, VisInv

LEMMA ConvertStep == TInv /\ ConvertToHalfplane => TInv'
<1> SUFFICES ASSUME TInv, ConvertToHalfplane PROVE TInv'
  OBVIOUS
<1>1. /\ pc = "halfplane" /\ pc' = "place" /\ input' = input /\ vis_weights' = vis_weights
      /\ UNCHANGED <<sample_grid_total, planevars, pi, gridvars>>
  BY DEF ConvertToHalfplane
<1>2. /\ Vis' = Vis /\ n' = n /\ use_wproj' = use_wproj /\ num_wplanes' = num_wplanes
      /\ image_rows' = image_rows /\ Plane' = Plane /\ halfplane_gridding' = halfplane_gridding
  BY <1>1 DEF Vis, n, use_wproj, num_wplanes, image_rows, halfplane_gridding, Plane
<1>3. TracksInv /\ FoldInv /\ SortInv /\ PlaneInv /\ LoopInv
  BY DEF TInv, VisInv
<1>4. halfplane_gridding \in BOOLEAN /\ use_wproj \in BOOLEAN
  BY <1>3, InputOK DEF TracksInv
<1>5. ASSUME NEW k \in Vis
      PROVE  /\ Tracks(k) /\ ~ vis[k].conj /\ good_vis[k] = 1
             /\ uv_lambda[k] = <<uv_lambda[k][1], uv_lambda[k][2]>>
             /\ uv_lambda[k][1] \in Int /\ uv_lambda[k][2] \in Int /\ w_lambda[k] \in Int
  <2>1. Tracks(k) /\ ~ vis[k].conj /\ good_vis[k] = 1
    BY <1>1, <1>3 DEF TracksInv, FoldInv
  <2>2. uv_lambda[k] = input.uv[vis[k].id] /\ w_lambda[k] = input.w[vis[k].id] /\ vis[k].id \in Vis
    BY <2>1 DEF Tracks
  <2> QED BY <1>3, <2>1, <2>2, InputOK DEF TracksInv
<1>6. ASSUME halfplane_gridding, NEW k \in Vis
      PROVE  /\ good_vis'[k] = IF NearZero(uv_lambda[k][2]) THEN 2 ELSE 1
             /\ uv_lambda[k][2] < 0 =>
                  /\ uv_lambda'[k] = <<-uv_lambda[k][1], -uv_lambda[k][2]>>
                  /\ w_lambda'[k] = IF use_wproj THEN -w_lambda[k] ELSE w_lambda[k]
                  /\ vis'[k].id = vis[k].id /\ vis'[k].conj
             /\ ~ (uv_lambda[k][2] < 0) =>
                  /\ uv_lambda'[k] = uv_lambda[k] /\ w_lambda'[k] = w_lambda[k]
                  /\ vis'[k] = vis[k]
             /\ vis'[k] \in [id : Vis, conj : BOOLEAN]
  <2> DEFINE inverted == {l \in Vis : uv_lambda[l][2] < 0}
  <2>1. /\ good_vis' = [l \in Vis |-> IF NearZero(uv_lambda[l][2]) THEN 2 ELSE good_vis[l]]
        /\ uv_lambda' = [l \in Vis |-> IF l \in inverted THEN <<-uv_lambda[l][1], -uv_lambda[l][2]>>
                                       ELSE uv_lambda[l]]
        /\ w_lambda' = ConvertedW(inverted)
        /\ vis' = [l \in Vis |-> IF l \in inverted THEN [vis[l] EXCEPT !.conj = ~ @] ELSE vis[l]]
    BY <1>6 DEF ConvertToHalfplane
  <2>2. vis[k] \in [id : Vis, conj : BOOLEAN]
    BY <1>5 DEF Tracks
  <2>3. k \in inverted <=> uv_lambda[k][2] < 0
    OBVIOUS
  <2>4. w_lambda'[k] = IF use_wproj /\ k \in inverted THEN -w_lambda[k] ELSE w_lambda[k]
    BY <2>1 DEF ConvertedW
  <2> HIDE DEF inverted
  <2>5. CASE k \in inverted
    <3>1. vis'[k] = [vis[k] EXCEPT !.conj = ~ @]
      BY <2>1, <2>5
    <3>2. vis'[k].id = vis[k].id /\ vis'[k].conj = ~ vis[k].conj /\ vis'[k] \in [id : Vis, conj : BOOLEAN]
      BY <2>2, <3>1
    <3> QED BY <1>5, <2>1, <2>3, <2>4, <2>5, <3>2
  <2>6. CASE k \notin inverted
    BY <1>5, <2>1, <2>2, <2>3, <2>4, <2>6
  <2> QED BY <2>5, <2>6
<1>7. ASSUME ~ halfplane_gridding
      PROVE  good_vis' = good_vis /\ uv_lambda' = uv_lambda /\ w_lambda' = w_lambda /\ vis' = vis
  BY <1>7 DEF ConvertToHalfplane
<1>8. vis' \in [Vis -> [id : Vis, conj : BOOLEAN]] /\ good_vis' \in [Vis -> 0..2]
  <2>1. CASE halfplane_gridding
    <3>1. /\ vis' = [k \in Vis |-> vis'[k]]
          /\ good_vis' = [k \in Vis |-> good_vis'[k]]
      BY <2>1 DEF ConvertToHalfplane
    <3>2. \A k \in Vis : vis'[k] \in [id : Vis, conj : BOOLEAN] /\ good_vis'[k] \in 0..2
      BY <1>6, <2>1
    <3> QED BY <3>1, <3>2
  <2>2. CASE ~ halfplane_gridding
    BY <1>3, <1>7, <2>2 DEF TracksInv
  <2> QED BY <2>1, <2>2
<1>9. ASSUME NEW k \in Vis
      PROVE  /\ Tracks(k)' /\ Folded(k)' /\ good_vis'[k] = Copies(k)' /\ good_vis'[k] # 0
             /\ vis'[k].id = vis[k].id
             /\ w_lambda'[k] = w_lambda[k] \/ w_lambda'[k] = -w_lambda[k]
  <2>1. CASE halfplane_gridding /\ uv_lambda[k][2] < 0
    <3>1. PICK u \in Int, v \in Int : uv_lambda[k] = <<u, v>> /\ u = uv_lambda[k][1] /\ v = uv_lambda[k][2]
      BY <1>5
    <3>2. /\ uv_lambda'[k] = <<-u, -v>> /\ v < 0
          /\ w_lambda'[k] = IF use_wproj THEN -w_lambda[k] ELSE w_lambda[k]
          /\ vis'[k].id = vis[k].id /\ vis'[k].conj /\ vis'[k] \in [id : Vis, conj : BOOLEAN]
      BY <1>6, <2>1, <3>1
    <3>3. NearZero(-v) <=> NearZero(v)
      <4>1. PICK c \in Int : c = (max_support + 1) * Sub /\ -(max_support + 1) * Sub = -c
        BY GridFacts
      <4> QED BY <3>1, <4>1 DEF NearZero
    <3>4. Tracks(k)'
      <4>1. /\ uv_lambda[k] = input.uv[vis[k].id] /\ w_lambda[k] = input.w[vis[k].id]
            /\ vis_weights[k] = input.weights[vis[k].id]
        BY <1>5 DEF Tracks
      <4>2. input.uv[vis[k].id][1] = u /\ input.uv[vis[k].id][2] = v
        BY <3>1, <4>1
      <4> QED BY <1>1, <1>2, <3>2, <4>1, <4>2 DEF Tracks
    <3>5. Folded(k)'
      BY <1>2, <2>1, <3>2 DEF Folded
    <3>6. uv_lambda'[k][2] = -v
      BY <3>2
    <3>7. good_vis'[k] = IF NearZero(v) THEN 2 ELSE 1
      BY <1>6, <2>1, <3>1
    <3>8. good_vis'[k] = Copies(k)' /\ good_vis'[k] # 0
      BY <1>2, <2>1, <3>3, <3>6, <3>7 DEF Copies
    <3> QED BY <3>2, <3>4, <3>5, <3>8
  <2>2. CASE halfplane_gridding /\ ~ (uv_lambda[k][2] < 0)
    <3>1. uv_lambda'[k] = uv_lambda[k] /\ w_lambda'[k] = w_lambda[k] /\ vis'[k] = vis[k]
      BY <1>6, <2>2
    <3>2. Tracks(k)'
      BY <1>1, <1>2, <1>5, <3>1 DEF Tracks
    <3>3. Folded(k)'
      BY <1>2, <1>5, <2>2, <3>1 DEF Folded
    <3>4. good_vis'[k] = Copies(k)' /\ good_vis'[k] # 0
      BY <1>2, <1>6, <2>2, <3>1 DEF Copies
    <3> QED BY <3>1, <3>2, <3>3, <3>4
  <2>3. CASE ~ halfplane_gridding
    BY <1>1, <1>2, <1>5, <1>7, <2>3 DEF Tracks, Folded, Copies
  <2> QED BY <2>1, <2>2, <2>3
<1>10. TracksInv'
  <2>1. ASSUME NEW k \in Vis, NEW l \in Vis, vis'[k].id = vis'[l].id PROVE k = l
    <3>1. vis[k].id = vis[l].id
      BY <1>9, <2>1
    <3> QED BY <1>3, <3>1 DEF TracksInv
  <2> QED BY <1>1, <1>2, <1>3, <1>8, <1>9, <2>1 DEF TracksInv, Unplaced
<1>11. FoldInv'
  BY <1>1, <1>2, <1>9 DEF FoldInv
<1>12. PlaceInv'
  BY <1>1 DEF PlaceInv, Unplaced
<1>13. SortInv'
  <2>1. \A k \in Vis : Abs(w_lambda'[k]) = Abs(w_lambda[k])
    BY <1>5, <1>9, AbsNeg
  <2> QED BY <1>1, <1>2, <1>3, <2>1 DEF SortInv
<1>14. PlaneInv'
  <2>1. Planes!PlanesInit'
    BY <1>1, <1>2, <1>3 DEF PlaneInv, planevars, Planes!PlanesInit, Planes!Plane, Unplaced
  <2>2. PP!Ordered'
    BY <2>1, OrderedStart, PTL
  <2> QED BY <1>1, <2>1, <2>2 DEF PlaneInv, Unplaced, Gridding
<1>15. LoopInv'
  BY <1>1, <1>2, <1>3 DEF LoopInv, gridvars, Gridding
<1> QED BY <1>10, <1>11, <1>12, <1>13, <1>14, <1>15 DEF TInv, VisInv

LEMMA OutOfBoundsOutside ==
  ASSUME NEW u \in Int, NEW v \in Int
  PROVE  /\ OutOfBounds(KernelCentre(<<u, v>>)) <=> ~ (Within(u) /\ Within(v))
         /\ KernelCentre(<<u, v>>) = <<Rint(u, Sub) + half_image_size, Rint(v, Sub) + half_image_size>>
<1>1. PICK r \in Int, t \in Int : r = Rint(u, Sub) /\ t = Rint(v, Sub)
  BY RintNear, GridFacts
<1>2. KernelCentre(<<u, v>>) = <<r + half_image_size, t + half_image_size>>
  BY <1>1 DEF KernelCentre
<1>3. Within(u) <=> -half_image_size < r - max_support /\ r + max_support < half_image_size
  BY <1>1 DEF Within
<1>4. Within(v) <=> -half_image_size < t - max_support /\ t + max_support < half_image_size
  BY <1>1 DEF Within
<1>5. OutOfBounds(<<r + half_image_size, t + half_image_size>>)
        <=> \/ r + half_image_size - max_support <= 0 \/ r + half_image_size + max_support >= image_size
            \/ t + half_image_size - max_support <= 0 \/ t + half_image_size + max_support >= image_size
  <2> DEFINE kc == <<r + half_image_size, t + half_image_size>>
  <2>1. kc[1] = r + half_image_size /\ kc[2] = t + half_image_size
    OBVIOUS
  <2>2. \A a : a \in 1..2 <=> a = 1 \/ a = 2
    OBVIOUS
  <2> HIDE DEF kc
  <2>3. OutOfBounds(kc) <=> \/ kc[1] - max_support <= 0 \/ kc[1] + max_support >= image_size
                            \/ kc[2] - max_support <= 0 \/ kc[2] + max_support >= image_size
    BY <2>2 DEF OutOfBounds
  <2>4. OutOfBounds(kc) <=> \/ r + half_image_size - max_support <= 0
                            \/ r + half_image_size + max_support >= image_size
                            \/ t + half_image_size - max_support <= 0
                            \/ t + half_image_size + max_support >= image_size
    BY <2>1, <2>3, GridFacts
  <2> QED BY <2>4, Zenon DEF kc
<1> QED BY <1>1, <1>2, <1>3, <1>4, <1>5, GridFacts

LEMMA PlaceStep == TInv /\ PlaceKernels => TInv'
<1> SUFFICES ASSUME TInv, PlaceKernels PROVE TInv'
  OBVIOUS
<1> DEFINE centre == [k \in Vis |-> KernelCentre(uv_lambda[k])]
<1>1. /\ pc = "place" /\ pc' = (IF use_wproj THEN "average" ELSE "plane") /\ input' = input
      /\ UNCHANGED <<visvars, planevars, pi, gridvars>>
      /\ sample_grid_total' = Summed(good_vis')
      /\ good_vis' = [k \in Vis |-> IF OutOfBounds(centre[k]) THEN 0 ELSE good_vis[k]]
      /\ kernel_centre_on_grid' = [k \in Vis |-> IF shift_uv
                                                 THEN <<Shifted(centre[k][1]), Shifted(centre[k][2])>>
                                                 ELSE centre[k]]
  BY DEF PlaceKernels
<1>2. /\ Vis' = Vis /\ n' = n /\ use_wproj' = use_wproj /\ num_wplanes' = num_wplanes
      /\ image_rows' = image_rows /\ Plane' = Plane /\ halfplane_gridding' = halfplane_gridding
      /\ shift_uv' = shift_uv
  BY <1>1 DEF Vis, n, use_wproj, num_wplanes, image_rows, halfplane_gridding, Plane, shift_uv
<1>3. TracksInv /\ FoldInv /\ SortInv /\ PlaneInv /\ LoopInv
  BY DEF TInv, VisInv
<1>4. uv_lambda' = uv_lambda /\ w_lambda' = w_lambda /\ vis' = vis /\ vis_weights' = vis_weights
  BY <1>1 DEF visvars
<1>5. ASSUME NEW k \in Vis
      PROVE  /\ good_vis[k] = Copies(k) /\ Folded(k) /\ Tracks(k)
             /\ good_vis'[k] = IF Inside(k) THEN Copies(k) ELSE 0
             /\ kernel_centre_on_grid'[k]
                  = <<PlacedCentre(uv_lambda[k][1]), PlacedCentre(uv_lambda[k][2])>>
  <2>1. good_vis[k] = Copies(k) /\ Folded(k) /\ Tracks(k)
    BY <1>1, <1>3 DEF FoldInv, TracksInv
  <2>2. PICK u \in Int, v \in Int : uv_lambda[k] = <<u, v>>
    <3>1. input.uv[vis[k].id] = <<input.uv[vis[k].id][1], input.uv[vis[k].id][2]>>
          /\ input.uv[vis[k].id][1] \in Int /\ input.uv[vis[k].id][2] \in Int
      BY <1>3, <2>1, InputOK DEF TracksInv, Tracks
    <3>2. uv_lambda[k] \in Int \X Int
      BY <2>1, <3>1 DEF Tracks
    <3> QED BY <3>2
  <2>3. uv_lambda[k][1] = u /\ uv_lambda[k][2] = v
    BY <2>2
  <2>4. centre[k] = <<Rint(u, Sub) + half_image_size, Rint(v, Sub) + half_image_size>>
        /\ (OutOfBounds(centre[k]) <=> ~ Inside(k))
    BY <2>2, <2>3, OutOfBoundsOutside DEF Inside
  <2> HIDE DEF centre
  <2>5. good_vis'[k] = IF OutOfBounds(centre[k]) THEN 0 ELSE good_vis[k]
    BY <1>1
  <2>6. centre[k][1] = Rint(u, Sub) + half_image_size /\ centre[k][2] = Rint(v, Sub) + half_image_size
    BY <2>4
  <2>7. kernel_centre_on_grid'[k] = <<PlacedCentre(u), PlacedCentre(v)>>
    BY <1>1, <2>4, <2>6 DEF PlacedCentre
  <2> QED BY <2>1, <2>3, <2>4, <2>5, <2>7
<1>6. \A k \in Vis : Tracks(k)' /\ Folded(k)' /\ Copies(k)' = Copies(k) /\ (Inside(k)' <=> Inside(k))
  BY <1>1, <1>2, <1>4, <1>5 DEF Tracks, Folded, Copies, Inside
<1>7. \A k \in Vis : Copies(k) \in {1, 2}
  BY DEF Copies
<1>8. good_vis' \in [Vis -> 0..2]
  <2>1. good_vis' = [k \in Vis |-> good_vis'[k]]
    BY <1>1
  <2> QED BY <1>5, <1>7, <2>1
<1>0. /\ sample_grid_total' = 2 * SumOf(vis_weights, {k \in Vis : good_vis'[k] # 0})
      /\ sample_grid_total' \in Int
  <2> DEFINE S == {k \in Vis : good_vis'[k] # 0}
  <2>1. sample_grid_total' = 2 * SumOf(vis_weights, S)
    BY <1>1, Zenon DEF Summed
  <2>2. IsFiniteSet(S) /\ \A k \in S : vis_weights[k] \in Int
    <3>1. IsFiniteSet(Vis) /\ S \subseteq Vis
      BY <1>3, InputOK DEF TracksInv
    <3> QED BY <1>3, <3>1, FS_Subset DEF TracksInv
  <2> HIDE DEF S
  <2>3. SumOf(vis_weights, S) \in Int
    BY <2>2, SumIsInt
  <2> QED BY <2>1, <2>3 DEF S
<1>9. TracksInv'
  BY <1>0, <1>1, <1>2, <1>3, <1>4, <1>6, <1>8 DEF TracksInv, Unplaced, Gridding
<1>10. FoldInv'
  BY <1>1, <1>2, <1>5, <1>6 DEF FoldInv
<1>11. PlaceInv'
  <2>1. (sample_grid_total = 2 * SumOf(vis_weights, {k \in Vis : good_vis[k] # 0}))'
    BY <1>0, <1>2, <1>4
  <2>2. \A k \in Vis : PlacedCentre(uv_lambda[k][1])' = PlacedCentre(uv_lambda[k][1])
                       /\ PlacedCentre(uv_lambda[k][2])' = PlacedCentre(uv_lambda[k][2])
    BY <1>2, <1>4 DEF PlacedCentre
  <2> QED BY <1>2, <1>4, <1>5, <1>6, <1>7, <2>1, <2>2 DEF PlaceInv
<1>12. SortInv'
  BY <1>1, <1>2, <1>3, <1>4 DEF SortInv
<1>13. PlaneInv'
  <2>1. Planes!PlanesInit'
    BY <1>1, <1>2, <1>3 DEF PlaneInv, planevars, Planes!PlanesInit, Planes!Plane, Unplaced
  <2>2. PP!Ordered'
    BY <2>1, OrderedStart, PTL
  <2>3. PP!TInv'
    <3>1. (input \in Inputs /\ good_vis \in [Vis -> 0..2] /\ Planes!PlanesInit)'
      BY <1>1, <1>2, <1>3, <1>8, <2>1 DEF TracksInv
    <3> QED BY <3>1, PlanesStart, PTL
  <2> QED BY <1>1, <1>2, <2>1, <2>2, <2>3 DEF PlaneInv, Unplaced, Gridding
<1>14. LoopInv'
  <2>1. num_wplanes \in Nat \ {0}
    BY <1>3, InputOK DEF TracksInv
  <2> QED BY <1>1, <1>2, <1>3, <2>1 DEF LoopInv, gridvars, Gridding
<1> QED BY <1>9, <1>10, <1>11, <1>12, <1>13, <1>14 DEF TInv, VisInv

LEMMA AverageStep == TInv /\ AverageWPlanes => TInv'
<1> SUFFICES ASSUME TInv, AverageWPlanes PROVE TInv'
  OBVIOUS
<1>1. /\ pc = "average" /\ input' = input
      /\ UNCHANGED <<visvars, kernel_centre_on_grid, sample_grid_total, pi, gridvars>>
  BY DEF AverageWPlanes
<1>2. /\ Vis' = Vis /\ n' = n /\ use_wproj' = use_wproj /\ num_wplanes' = num_wplanes
      /\ image_rows' = image_rows /\ Plane' = Plane /\ halfplane_gridding' = halfplane_gridding
      /\ shift_uv' = shift_uv /\ median' = median
  BY <1>1 DEF Vis, n, use_wproj, num_wplanes, image_rows, halfplane_gridding, Plane, shift_uv, median
<1>3. TracksInv /\ FoldInv /\ PlaceInv /\ SortInv /\ PlaneInv /\ LoopInv /\ PP!TInv /\ PP!Ordered
  BY <1>1 DEF TInv, VisInv, PlaneInv, Unplaced
<1>4. good_vis' = good_vis /\ pc' \in {"average", "plane"}
  BY <1>1 DEF AverageWPlanes, Planes!NextPlane
<1>5. PP!TInv' /\ PP!Ordered' /\ (pc' = "plane" => idx' = num_wplanes)
  <2>1. CASE idx < num_wplanes
    <3>1. Planes!NextPlane /\ pc' = pc
      BY <2>1 DEF AverageWPlanes
    <3>2. PP!NextPlane
      BY <3>1, SameNext
    <3>3. PP!TInv' /\ PP!Ordered'
      BY <1>3, <3>2, PP!TInvStep, PP!OrderedStep
    <3> QED BY <1>1, <3>1, <3>3
  <2>2. CASE ~ (idx < num_wplanes)
    <3>1. UNCHANGED <<good_vis, planevars>>
      BY <2>2 DEF AverageWPlanes
    <3>2. UNCHANGED PP!vars
      BY <1>2, <3>1 DEF PP!vars, PP!planevars, planevars
    <3>3. PP!TInv' /\ PP!Ordered'
      BY <1>3, <3>2, PP!TInvStep, PP!OrderedStep
    <3>4. idx = num_wplanes
      BY <1>3, <2>2, InputOK DEF PP!TInv, PP!PlanesTypeOK, TracksInv
    <3>5. idx' = idx
      BY <3>1 DEF planevars
    <3> QED BY <3>3, <3>4, <3>5
  <2> QED BY <2>1, <2>2
<1>6. TracksInv'
  BY <1>1, <1>2, <1>3, <1>4 DEF TracksInv, visvars, Tracks, Unplaced, Gridding
<1>7. FoldInv'
  BY <1>1, <1>2, <1>3, <1>4 DEF FoldInv, visvars, Folded, Copies
<1>8. PlaceInv'
  BY <1>1, <1>2, <1>3, <1>4 DEF PlaceInv, visvars, Inside, PlacedCentre, Unplaced
<1>9. SortInv'
  BY <1>1, <1>2, <1>3 DEF SortInv, visvars
<1>10. PlaneInv'
  BY <1>1, <1>2, <1>3, <1>4, <1>5 DEF PlaneInv, Unplaced, Gridding
<1>11. LoopInv'
  <2>1. num_wplanes \in Nat \ {0}
    BY <1>3, InputOK DEF TracksInv
  <2> QED BY <1>1, <1>2, <1>3, <1>4, <2>1 DEF LoopInv, gridvars, Gridding
<1> QED BY <1>6, <1>7, <1>8, <1>9, <1>10, <1>11 DEF TInv, VisInv

------------------------------------------------------------------------------
\* The planes divide 0 .. n-1, in order.
LEMMA PlanesDivide ==
  ASSUME TInv, pc \in Gridding
  PROVE  /\ firstidx \in [Plane -> 0 .. n] /\ firstidx[0] = 0
         /\ \A q \in Plane : \A p \in 0 .. q : firstidx[p] <= firstidx[q]
<1>1. num_wplanes \in Nat \ {0} /\ (~ use_wproj => num_wplanes = 1) /\ n \in Nat
  BY InputOK DEF TInv, VisInv, TracksInv
<1>2. CASE use_wproj
  <2>1. idx = num_wplanes /\ PP!TInv /\ PP!Ordered
    BY <1>2 DEF TInv, VisInv, PlaneInv, Unplaced, Gridding
  <2>2. PP!n = n
    <3>1. DOMAIN good_vis = Vis
      BY DEF TInv, VisInv, TracksInv
    <3> QED BY <3>1, SameCardinality DEF PP!n, n
  <2>3. firstidx \in [Plane -> 0 .. n]
    BY <2>1, <2>2 DEF PP!TInv, PP!PlanesTypeOK, PP!Plane, Plane
  <2> QED BY <1>1, <2>1, <2>3 DEF PP!Ordered, Plane
<1>3. CASE ~ use_wproj
  <2>1. firstidx = [p \in Plane |-> 0]
    BY <1>3 DEF TInv, VisInv, PlaneInv, Planes!PlanesInit, Planes!Plane, Plane
  <2> QED BY <1>1, <1>3, <2>1 DEF Plane
<1> QED BY <1>2, <1>3

\* The loops over the planes change no visibility and no plane.
LEMMA VisKept ==
  ASSUME TInv, pc \in Gridding, pc' \in Gridding,
         UNCHANGED <<input, visvars, good_vis, kernel_centre_on_grid, sample_grid_total, planevars>>
  PROVE  VisInv'
<1>1. /\ Vis' = Vis /\ n' = n /\ use_wproj' = use_wproj /\ num_wplanes' = num_wplanes
      /\ image_rows' = image_rows /\ Plane' = Plane /\ halfplane_gridding' = halfplane_gridding
      /\ shift_uv' = shift_uv /\ median' = median
  BY DEF Vis, n, use_wproj, num_wplanes, image_rows, halfplane_gridding, Plane, shift_uv, median
<1>2. TracksInv /\ FoldInv /\ PlaceInv /\ SortInv /\ PlaneInv /\ PP!TInv /\ PP!Ordered
  BY DEF TInv, VisInv, PlaneInv, Unplaced, Gridding
<1>3. TracksInv'
  BY <1>1, <1>2 DEF TracksInv, visvars, Tracks, Gridding
<1>4. FoldInv'
  BY <1>1, <1>2 DEF FoldInv, visvars, Folded, Copies, Gridding
<1>5. PlaceInv'
  BY <1>1, <1>2 DEF PlaceInv, visvars, Inside, PlacedCentre, Gridding, Unplaced
<1>6. SortInv'
  BY <1>1, <1>2 DEF SortInv, visvars, Gridding
<1>7. PlaneInv'
  <2>1. UNCHANGED PP!vars
    BY <1>1 DEF PP!vars, PP!planevars, planevars
  <2>2. PP!TInv' /\ PP!Ordered'
    BY <1>2, <2>1, PP!TInvStep, PP!OrderedStep
  <2>3. Planes!PlanesInit => Planes!PlanesInit'
    BY <1>1 DEF Planes!PlanesInit, Planes!Plane, planevars
  <2> QED BY <1>1, <1>2, <2>2, <2>3 DEF PlaneInv, planevars, Unplaced, Gridding
<1> QED BY <1>3, <1>4, <1>5, <1>6, <1>7 DEF VisInv

LEMMA StartStep == TInv /\ StartPlane => TInv'
<1> SUFFICES ASSUME TInv, StartPlane PROVE TInv'
  OBVIOUS
<1>1. /\ pc = "plane" /\ pc' = "grid" /\ pi < num_wplanes /\ vi' = firstidx[pi] /\ pi' = pi
      /\ UNCHANGED <<input, visvars, good_vis, kernel_centre_on_grid, sample_grid_total, planevars>>
      /\ vis_grid' = vis_grid
  BY DEF StartPlane
<1>2. VisInv'
  BY <1>1, VisKept DEF Gridding
<1>3. LoopInv'
  <2>1. n' = n /\ num_wplanes' = num_wplanes /\ image_rows' = image_rows /\ Plane' = Plane
        /\ firstidx' = firstidx
    BY <1>1 DEF n, Vis, num_wplanes, image_rows, halfplane_gridding, Plane, planevars
  <2>2. num_wplanes \in Nat \ {0} /\ n \in Nat
    BY InputOK DEF TInv, VisInv, TracksInv
  <2>3. pi \in Plane
    BY <1>1, <2>2 DEF TInv, LoopInv, Plane
  <2>4. conv_support' \in [Plane -> 1..max_support]
    <3>1. conv_support \in [Plane -> 1..max_support]
      BY DEF TInv, LoopInv
    <3>2. CASE use_wproj
      BY <2>3, <3>1, <3>2 DEF StartPlane
    <3>3. CASE ~ use_wproj
      BY <3>1, <3>3 DEF StartPlane
    <3> QED BY <3>2, <3>3
  <2>5. vi' \in 0 .. n /\ vi' <= vi_end'
    <3>1. firstidx \in [Plane -> 0 .. n] /\ \A q \in Plane : \A p \in 0 .. q : firstidx[p] <= firstidx[q]
      BY <1>1, PlanesDivide DEF Gridding
    <3>2. vi_end' = IF pi = num_wplanes - 1 THEN n ELSE firstidx[pi + 1]
      BY <1>1, <2>1 DEF vi_end
    <3>3. pi # num_wplanes - 1 => pi + 1 \in Plane /\ pi \in 0 .. pi + 1
      BY <2>2, <2>3 DEF Plane
    <3> QED BY <1>1, <2>2, <2>3, <3>1, <3>2, <3>3
  <2> QED BY <1>1, <2>1, <2>2, <2>4, <2>5 DEF TInv, LoopInv, Gridding
<1> QED BY <1>2, <1>3 DEF TInv

\* Where the visibility or its conjugate is gridded.
LEMMA FootprintTyped ==
  ASSUME input \in Inputs, NEW k \in Vis, Tracks(k), NEW gv \in {0, 1}, PlacedInside(k),
         NEW s \in 1 .. max_support, conv_support[pi] = s
  PROVE  /\ \A i \in DOMAIN Footprint(k, gv).rows : Footprint(k, gv).rows[i] \in 0 .. image_rows - 1
         /\ \A j \in DOMAIN Footprint(k, gv).cols : Footprint(k, gv).cols[j] \in 0 .. image_size - 1
<1> DEFINE fp == Footprint(k, gv)
           t  == ConjSign(gv)
           gc == IF gv = 1 THEN ConjCentre(kernel_centre_on_grid[k]) ELSE kernel_centre_on_grid[k]
<1>1. gc = <<CentreOf(uv_lambda[k][1], t), CentreOf(uv_lambda[k][2], t)>>
  BY DEF PlacedInside, ConjCentre, CentreOf, ConjSign
<1>2. PICK x \in Int, y \in Int : x = uv_lambda[k][1] /\ y = uv_lambda[k][2] /\ Within(x) /\ Within(y)
  BY SignAxis DEF PlacedInside
<1>3. fp.rows = RowsOf(gc[2], s) /\ fp.cols = GridCols(gc[1], s)
  BY DEF Footprint, RowsOf
<1>4. image_size \in Nat /\ image_rows \in Int /\ s \in Nat /\ max_support < image_size /\ s <= max_support
      /\ max_support \in Nat
  BY GridFacts DEF image_rows
<1>5. gc[1] \in 0 .. image_size /\ gc[2] \in 0 .. image_size
  <2>1. t \in Signs /\ 0 \in -max_support .. max_support
    BY <1>4 DEF ConjSign, Signs
  <2>2. CentreOf(x, t) \in 0 .. image_size /\ CentreOf(y, t) \in 0 .. image_size
    BY <1>2, <2>1, KernelPixel
  <2> QED BY <1>1, <1>2, <2>2
<1> HIDE DEF gc, fp, t
<1>6. PICK a \in 0 .. image_size, b \in 0 .. image_size : a = gc[1] /\ b = gc[2]
  BY <1>5
<1>7. ASSUME NEW c \in 0 .. image_size, NEW i \in 0 .. 2 * s
      PROVE  WrappedCol(c - s + i) \in 0 .. image_size - 1
  <2>1. PICK z \in Int : z = c - s + i /\ -image_size <= z /\ z < 2 * image_size
    BY <1>4
  <2> QED BY <2>1, WrappedIsResidue
<1>8. ASSUME NEW i \in DOMAIN fp.rows PROVE fp.rows[i] \in 0 .. image_rows - 1
  <2>1. CASE kernel_exact
    <3>1. fp.rows = [z \in {x1 \in 0 .. 2 * s : WrappedCol(b - s + x1) < image_rows} |-> WrappedCol(b - s + z)]
      BY <1>3, <1>6, <2>1 DEF RowsOf, GridRowsExact
    <3>2. i \in 0 .. 2 * s /\ WrappedCol(b - s + i) < image_rows /\ fp.rows[i] = WrappedCol(b - s + i)
      BY <3>1
    <3>3. WrappedCol(b - s + i) \in 0 .. image_size - 1
      BY <1>7, <3>2
    <3> QED BY <1>4, <3>2, <3>3
  <2>2. CASE ~ kernel_exact
    <3> DEFINE row(z) == IF b - s + z >= image_size THEN b - s + z - image_size ELSE b - s + z
    <3>1. fp.rows = [z \in {x1 \in 0 .. 2 * s : b - s + x1 >= 0 /\ row(x1) < image_rows} |-> row(z)]
      BY <1>3, <1>6, <2>2 DEF RowsOf, GridRows
    <3>2. i \in 0 .. 2 * s /\ b - s + i >= 0 /\ row(i) < image_rows /\ fp.rows[i] = row(i)
      BY <3>1
    <3>3. PICK z \in Int : z = b - s + i
      BY <1>4, <3>2
    <3>4. row(i) = IF z >= image_size THEN z - image_size ELSE z
      BY <1>4, <3>2, <3>3
    <3>5. z >= 0
      BY <3>2, <3>3
    <3> HIDE DEF row
    <3> QED BY <1>4, <3>2, <3>4, <3>5
  <2> QED BY <2>1, <2>2
<1>9. ASSUME NEW j \in DOMAIN fp.cols PROVE fp.cols[j] \in 0 .. image_size - 1
  <2>1. fp.cols = [z \in 0 .. 2 * s |-> WrappedCol(a - s + z)]
    BY <1>3, <1>6 DEF GridCols
  <2> QED BY <1>7, <2>1
<1> QED BY <1>8, <1>9 DEF fp

\* A visibility that is gridded is placed inside, as its copies suppose.
LEMMA GoodPlaced ==
  ASSUME TInv, pc \in Gridding, NEW k \in Vis, good_vis[k] # 0
  PROVE  Tracks(k) /\ Folded(k) /\ PlacedInside(k) /\ good_vis[k] = Copies(k)
BY DEF TInv, VisInv, TracksInv, FoldInv, PlaceInv, Inside, PlacedInside, Gridding, Unplaced

LEMMA GridStep == TInv /\ GridVisibility => TInv'
<1> SUFFICES ASSUME TInv, GridVisibility PROVE TInv'
  OBVIOUS
<1>1. /\ pc = "grid" /\ pc' = pc /\ pi' = pi /\ conv_support' = conv_support /\ vi < vi_end /\ vi' = vi + 1
      /\ UNCHANGED <<input, visvars, good_vis, kernel_centre_on_grid, sample_grid_total, planevars>>
      /\ vis_grid' = vis_grid \union UNION {Contributions(vi, gv) : gv \in 0 .. good_vis[vi] - 1}
  BY DEF GridVisibility
<1>2. VisInv'
  BY <1>1, VisKept DEF Gridding
<1>3. LoopInv'
  <2>1. n' = n /\ num_wplanes' = num_wplanes /\ image_rows' = image_rows /\ Plane' = Plane
        /\ firstidx' = firstidx /\ vi_end' = vi_end
    BY <1>1 DEF n, Vis, num_wplanes, image_rows, halfplane_gridding, Plane, planevars, vi_end
  <2>2. num_wplanes \in Nat \ {0} /\ n \in Nat /\ Vis = 0 .. n - 1 /\ input \in Inputs
    BY InputOK DEF TInv, VisInv, TracksInv
  <2>3. pi \in Plane /\ vi \in 0 .. n /\ firstidx[pi] <= vi
    BY <1>1, <2>2 DEF TInv, LoopInv, Plane
  <2>4. firstidx \in [Plane -> 0 .. n]
    BY <1>1, PlanesDivide DEF Gridding
  <2>5. vi_end \in 0 .. n
    BY <2>2, <2>3, <2>4 DEF vi_end, Plane
  <2>6. vi \in Vis /\ vi + 1 \in 0 .. n /\ vi + 1 <= vi_end /\ firstidx[pi] <= vi + 1
    BY <1>1, <2>2, <2>3, <2>4, <2>5
  <2>7. ASSUME NEW gv \in 0 .. good_vis[vi] - 1, NEW c \in Contributions(vi, gv)
        PROVE  c[1] \in 0 .. image_rows - 1 /\ c[2] \in 0 .. image_size - 1
    <3>1. good_vis[vi] \in 0 .. 2
      BY <2>6 DEF TInv, VisInv, TracksInv
    <3>2. good_vis[vi] # 0 /\ gv \in {0, 1}
      BY <3>1
    <3>3. Tracks(vi) /\ PlacedInside(vi)
      BY <1>1, <2>6, <3>2, GoodPlaced DEF Gridding
    <3>4. conv_support[pi] \in 1 .. max_support
      BY <2>3 DEF TInv, LoopInv
    <3>5. PICK i \in DOMAIN Footprint(vi, gv).rows, j \in DOMAIN Footprint(vi, gv).cols :
            c = Added(vi, gv, i, j)
      BY ContributionsAdded
    <3>6. c[1] = Footprint(vi, gv).rows[i] /\ c[2] = Footprint(vi, gv).cols[j]
      BY <3>5 DEF Added
    <3> QED BY <2>2, <2>6, <3>2, <3>3, <3>4, <3>6, FootprintTyped
  <2>8. \A c \in vis_grid' : c[1] \in 0 .. image_rows - 1 /\ c[2] \in 0 .. image_size - 1
    BY <1>1, <2>7 DEF TInv, LoopInv
  <2> QED BY <1>1, <2>1, <2>2, <2>6, <2>8 DEF TInv, LoopInv, Gridding
<1> QED BY <1>2, <1>3 DEF TInv

LEMMA EndStep == TInv /\ EndPlane => TInv'
<1> SUFFICES ASSUME TInv, EndPlane PROVE TInv'
  OBVIOUS
<1>1. /\ pc = "grid" /\ pc' = (IF pi + 1 = num_wplanes THEN "done" ELSE "plane") /\ pi' = pi + 1
      /\ UNCHANGED <<input, visvars, good_vis, kernel_centre_on_grid, sample_grid_total, planevars>>
      /\ vis_grid' = vis_grid /\ vi' = vi /\ conv_support' = conv_support
  BY DEF EndPlane, gridvars
<1>2. VisInv'
  BY <1>1, VisKept DEF Gridding
<1>3. LoopInv'
  <2>1. n' = n /\ num_wplanes' = num_wplanes /\ image_rows' = image_rows /\ Plane' = Plane
    BY <1>1 DEF n, Vis, num_wplanes, image_rows, halfplane_gridding, Plane
  <2>2. num_wplanes \in Nat \ {0}
    BY InputOK DEF TInv, VisInv, TracksInv
  <2> QED BY <1>1, <2>1, <2>2 DEF TInv, LoopInv, Gridding
<1> QED BY <1>2, <1>3 DEF TInv

LEMMA StutterStep == TInv /\ (Returned \/ UNCHANGED vars) => TInv'
<1> SUFFICES ASSUME TInv, UNCHANGED vars PROVE TInv'
  BY DEF Returned
<1>1. UNCHANGED <<input, pc, visvars, good_vis, kernel_centre_on_grid, sample_grid_total,
                  planevars, pi, gridvars>>
  BY DEF vars
<1>2. /\ Vis' = Vis /\ n' = n /\ use_wproj' = use_wproj /\ num_wplanes' = num_wplanes
      /\ image_rows' = image_rows /\ Plane' = Plane /\ halfplane_gridding' = halfplane_gridding
      /\ shift_uv' = shift_uv /\ median' = median
  BY <1>1 DEF Vis, n, use_wproj, num_wplanes, image_rows, halfplane_gridding, Plane, shift_uv, median
<1>3. TracksInv /\ FoldInv /\ PlaceInv /\ SortInv /\ PlaneInv /\ LoopInv
  BY DEF TInv, VisInv
<1>4. TracksInv'
  BY <1>1, <1>2, <1>3 DEF TracksInv, visvars, Tracks
<1>5. FoldInv'
  BY <1>1, <1>2, <1>3 DEF FoldInv, visvars, Folded, Copies
<1>6. PlaceInv'
  BY <1>1, <1>2, <1>3 DEF PlaceInv, visvars, Inside, PlacedCentre
<1>7. SortInv'
  BY <1>1, <1>2, <1>3 DEF SortInv, visvars
<1>8. PlaneInv'
  <2>1. UNCHANGED PP!vars
    BY <1>1, <1>2 DEF PP!vars, PP!planevars, planevars
  <2>2. PP!TInv => PP!TInv'
    BY <2>1 DEF PP!vars, PP!planevars, PP!TInv, PP!PlanesTypeOK, PP!n, PP!Plane
  <2>3. PP!Ordered'
    BY <1>3, <2>1 DEF PP!vars, PP!planevars, PP!Ordered, PlaneInv
  <2>4. Planes!PlanesInit => Planes!PlanesInit'
    BY <1>1, <1>2 DEF Planes!PlanesInit, Planes!Plane, planevars
  <2> QED BY <1>1, <1>2, <1>3, <2>2, <2>3, <2>4 DEF PlaneInv, planevars
<1>9. LoopInv'
  BY <1>1, <1>2, <1>3 DEF LoopInv, gridvars, vi_end, planevars
<1> QED BY <1>4, <1>5, <1>6, <1>7, <1>8, <1>9 DEF TInv, VisInv

LEMMA TInvStep == TInv /\ [Next]_vars => TInv'
BY SortStep, ConvertStep, PlaceStep, AverageStep, StartStep, GridStep, EndStep, StutterStep DEF Next

(***************************************************************************)
(* The types: every kernel pixel that is added is on the grid, whatever    *)
(* the visibilities and the options.                                       *)
(***************************************************************************)
THEOREM ConvolveTyped == Spec => []ConvolveTypeOK
BY TInvInit, TInvStep, TypesFollow, PTL DEF Spec

------------------------------------------------------------------------------
(***************************************************************************)
(* The invariant of the grid: it is the sum over the visibilities gridded  *)
(* so far.                                                                 *)
(***************************************************************************)

\* The plane of the visibility at position k.
PlaneAt(k) ==
  CHOOSE p \in Plane :
    /\ firstidx[p] <= k
    /\ p < num_wplanes - 1 => k < firstidx[p + 1]

Gridded(k) ==
  IF good_vis[k] = 0 THEN {} ELSE OnGrid(vis[k].id, PlaneAt(k), conv_support[PlaneAt(k)])

\* The visibilities before this one have been gridded.
Limit ==
  IF pc = "done" THEN n
  ELSE IF pc = "grid" THEN vi
  ELSE IF pc = "plane" THEN firstidx[pi] ELSE 0

Before(limit) == {k \in Vis : k < limit}

GridInv ==
  /\ vis_grid = UNION {Gridded(k) : k \in Before(Limit)}
  /\ IsFiniteSet(vis_grid)
  /\ adds = Cardinality(vis_grid)

LEMMA PlaneFound ==
  ASSUME TInv, pc \in Gridding, NEW k \in Vis
  PROVE  /\ PlaneAt(k) \in Plane /\ firstidx[PlaneAt(k)] <= k
         /\ PlaneAt(k) < num_wplanes - 1 => k < firstidx[PlaneAt(k) + 1]
<1>1. num_wplanes \in Nat \ {0} /\ n \in Nat /\ Vis = 0 .. n - 1
  BY InputOK DEF TInv, VisInv, TracksInv
<1>2. firstidx \in [Plane -> 0 .. n] /\ firstidx[0] = 0
  BY PlanesDivide
<1> DEFINE S == {p \in Plane : firstidx[p] <= k}
<1>3. S \subseteq Int /\ S # {} /\ \A p \in S : p <= num_wplanes
  <2>1. 0 \in S
    BY <1>1, <1>2 DEF Plane
  <2> QED BY <1>1, <2>1 DEF Plane
<1>4. PICK m \in S : \A p \in S : p <= m
  <2> HIDE DEF S
  <2>1. num_wplanes \in Int
    BY <1>1
  <2>2. \E k1 \in S : \A m1 \in S : m1 <= k1
    BY ONLY <1>3, <2>1, Greatest
  <2> QED BY <2>2
<1>5. ASSUME m < num_wplanes - 1 PROVE k < firstidx[m + 1]
  <2>1. m + 1 \in Plane /\ ~ (m + 1 <= m)
    BY <1>1, <1>4, <1>5 DEF Plane
  <2>2. m + 1 \notin S
    <3> HIDE DEF S
    <3> QED BY <1>4, <2>1
  <2> QED BY <1>1, <1>2, <2>1, <2>2
<1>6. \E p \in Plane : firstidx[p] <= k /\ (p < num_wplanes - 1 => k < firstidx[p + 1])
  BY <1>4, <1>5
<1> QED BY <1>6 DEF PlaneAt

LEMMA PlaneIs ==
  ASSUME TInv, pc \in Gridding, NEW k \in Vis, NEW p \in Plane,
         firstidx[p] <= k, p < num_wplanes - 1 => k < firstidx[p + 1]
  PROVE  PlaneAt(k) = p
<1>1. num_wplanes \in Nat \ {0} /\ n \in Nat /\ Vis = 0 .. n - 1
  BY InputOK DEF TInv, VisInv, TracksInv
<1>2. /\ firstidx \in [Plane -> 0 .. n]
      /\ \A q \in Plane : \A r \in 0 .. q : firstidx[r] <= firstidx[q]
  BY PlanesDivide
<1>3. PICK q \in Plane : /\ q = PlaneAt(k) /\ firstidx[q] <= k
                         /\ q < num_wplanes - 1 => k < firstidx[q + 1]
  BY PlaneFound
<1>4. ASSUME NEW a \in Plane, NEW b \in Plane, a < b, firstidx[b] <= k,
             a < num_wplanes - 1 => k < firstidx[a + 1]
      PROVE  FALSE
  <2>1. a + 1 \in 0 .. b /\ a < num_wplanes - 1 /\ a + 1 \in Plane
    BY <1>1, <1>4 DEF Plane
  <2>2. firstidx[a + 1] <= firstidx[b] /\ firstidx[a + 1] \in Int /\ firstidx[b] \in Int
    BY <1>2, <2>1
  <2> QED BY <1>1, <1>4, <2>1, <2>2
<1>5. ~ (p < q) /\ ~ (q < p)
  BY <1>3, <1>4
<1> QED BY <1>1, <1>3, <1>5 DEF Plane

LEMMA GridStart == TInv /\ pc \notin {"grid", "done"} /\ pi = 0 /\ vis_grid = {} /\ adds = 0 => GridInv
<1> SUFFICES ASSUME TInv, pc \notin {"grid", "done"}, pi = 0, vis_grid = {}, adds = 0 PROVE GridInv
  OBVIOUS
<1>1. Limit = 0
  <2>1. pc = "plane" => firstidx[0] = 0
    BY PlanesDivide DEF Gridding
  <2> QED BY <2>1 DEF Limit
<1>2. Before(0) = {}
  BY InputOK DEF Before, TInv, VisInv, TracksInv
<1> QED BY <1>1, <1>2, FS_EmptySet DEF GridInv

\* Every contribution comes from its visibility.
LEMMA OnGridId ==
  ASSUME NEW id, NEW p, NEW s, NEW c \in OnGrid(id, p, s)
  PROVE  c[3].id = id
<1>1. PICK sign \in SignSet : c \in Spread(id, sign, p, s)
  BY DEF OnGrid, OnRows
<1> QED BY <1>1 DEF Spread, PointOf

LEMMA GridKept ==
  ASSUME TInv, pc \in Gridding,
         UNCHANGED <<input, visvars, good_vis, kernel_centre_on_grid, sample_grid_total, planevars>>
  PROVE  /\ Vis' = Vis /\ n' = n
         /\ \A k : PlaneAt(k)' = PlaneAt(k)
         /\ \A id, p, s : OnGrid(id, p, s)' = OnGrid(id, p, s)
         /\ \A k \in Vis : conv_support'[PlaneAt(k)] = conv_support[PlaneAt(k)]
              => Gridded(k)' = Gridded(k)
<1>1. input' = input /\ good_vis' = good_vis /\ firstidx' = firstidx /\ vis' = vis
  BY DEF visvars, planevars
<1>2. /\ Vis' = Vis /\ n' = n /\ use_wproj' = use_wproj /\ num_wplanes' = num_wplanes
      /\ image_rows' = image_rows /\ Plane' = Plane /\ halfplane_gridding' = halfplane_gridding
      /\ shift_uv' = shift_uv /\ kernel_exact' = kernel_exact /\ oversampling' = oversampling
  BY <1>1 DEF Vis, n, use_wproj, num_wplanes, image_rows, halfplane_gridding, Plane, shift_uv,
              kernel_exact, oversampling
<1>3. \A k : PlaneAt(k)' = PlaneAt(k)
  BY <1>1, <1>2 DEF PlaneAt
<1>4. \A id, sign, p, d : PointOf(id, sign, p, d)' = PointOf(id, sign, p, d)
  BY <1>1, <1>2 DEF PointOf, Pixel, Unit, Nearest
<1>5. \A id, p, s : OnGrid(id, p, s)' = OnGrid(id, p, s)
  BY <1>2, <1>4 DEF OnGrid, OnRows, Spread, SignSet
<1>6. ASSUME NEW k \in Vis, conv_support'[PlaneAt(k)] = conv_support[PlaneAt(k)]
      PROVE  Gridded(k)' = Gridded(k)
  <2>1. Gridded(k)' = IF good_vis[k] = 0 THEN {} ELSE OnGrid(vis[k].id, PlaneAt(k), conv_support'[PlaneAt(k)])
    BY <1>1, <1>3, <1>5 DEF Gridded
  <2> QED BY <1>6, <2>1 DEF Gridded
<1> QED BY <1>2, <1>3, <1>5, <1>6

\* The set a step builds of the same visibilities.
LEMMA GriddedKept ==
  ASSUME TInv, pc \in Gridding,
         UNCHANGED <<input, visvars, good_vis, kernel_centre_on_grid, sample_grid_total, planevars>>,
         NEW S \in SUBSET Vis, \A k \in S : conv_support'[PlaneAt(k)] = conv_support[PlaneAt(k)]
  PROVE  {Gridded(k)' : k \in S} = {Gridded(k) : k \in S}
<1>1. \A k \in S : Gridded(k)' = Gridded(k)
  BY GridKept
<1> QED BY <1>1

LEMMA StartGrid == TInv /\ GridInv /\ StartPlane => GridInv'
<1> SUFFICES ASSUME TInv, GridInv, StartPlane PROVE GridInv'
  OBVIOUS
<1>1. /\ pc = "plane" /\ pc' = "grid" /\ pi < num_wplanes /\ vi' = firstidx[pi] /\ pi' = pi
      /\ UNCHANGED <<input, visvars, good_vis, kernel_centre_on_grid, sample_grid_total, planevars>>
      /\ vis_grid' = vis_grid /\ adds' = adds
  BY DEF StartPlane
<1>2. pc \in Gridding
  BY <1>1 DEF Gridding
<1>3. Vis' = Vis
  BY <1>1, <1>2, GridKept
<1>4. Limit = firstidx[pi] /\ Limit' = firstidx[pi]
  BY <1>1 DEF Limit
<1> DEFINE B == Before(firstidx[pi])
<1>5. Before(Limit)' = B /\ Before(Limit) = B /\ B \in SUBSET Vis
  BY <1>3, <1>4 DEF Before
<1>6. ASSUME NEW k \in B PROVE conv_support'[PlaneAt(k)] = conv_support[PlaneAt(k)]
  <2>1. k \in Vis /\ k < firstidx[pi] /\ k \in Int
    BY <1>6, InputOK DEF Before, TInv, VisInv, TracksInv
  <2>2. PlaneAt(k) \in Plane /\ firstidx[PlaneAt(k)] <= k
    BY <1>2, <2>1, PlaneFound
  <2>3. firstidx[PlaneAt(k)] \in Int /\ pi \in Plane /\ firstidx[pi] \in Int
    <3>1. firstidx \in [Plane -> 0 .. n] /\ n \in Nat
      BY <1>2, PlanesDivide, InputOK DEF TInv, VisInv, TracksInv
    <3>2. pi \in Plane
      BY <1>1, InputOK DEF TInv, VisInv, TracksInv, LoopInv, Plane
    <3> QED BY <2>2, <3>1, <3>2
  <2>4. PlaneAt(k) # pi
    BY <2>1, <2>2, <2>3
  <2>5. conv_support \in [Plane -> 1..max_support]
    BY DEF TInv, LoopInv
  <2>6. CASE use_wproj
    <3>1. PICK s \in 1..max_support : conv_support' = [conv_support EXCEPT ![pi] = s]
      BY <2>6 DEF StartPlane
    <3> QED BY <2>2, <2>4, <2>5, <3>1
  <2>7. CASE ~ use_wproj
    BY <2>7 DEF StartPlane
  <2> QED BY <2>6, <2>7
<1> HIDE DEF B
<1>7. {Gridded(k)' : k \in B} = {Gridded(k) : k \in B}
  BY <1>1, <1>2, <1>5, <1>6, GriddedKept
<1>8. vis_grid = UNION {Gridded(k) : k \in B} /\ IsFiniteSet(vis_grid) /\ adds = Cardinality(vis_grid)
  BY <1>5 DEF GridInv
<1>9. vis_grid' = UNION {Gridded(k)' : k \in B}
  BY <1>1, <1>7, <1>8
<1> QED BY <1>1, <1>5, <1>8, <1>9 DEF GridInv

LEMMA EndGrid == TInv /\ GridInv /\ EndPlane => GridInv'
<1> SUFFICES ASSUME TInv, GridInv, EndPlane PROVE GridInv'
  OBVIOUS
<1>1. /\ pc = "grid" /\ pc' = (IF pi + 1 = num_wplanes THEN "done" ELSE "plane") /\ pi' = pi + 1
      /\ UNCHANGED <<input, visvars, good_vis, kernel_centre_on_grid, sample_grid_total, planevars>>
      /\ vis_grid' = vis_grid /\ adds' = adds /\ conv_support' = conv_support /\ vi >= vi_end
  BY DEF EndPlane, gridvars
<1>2. pc \in Gridding
  BY <1>1 DEF Gridding
<1>3. Vis' = Vis /\ n' = n /\ firstidx' = firstidx
  BY <1>1, <1>2, GridKept DEF planevars
<1>4. /\ num_wplanes \in Nat \ {0} /\ n \in Nat /\ pi \in Plane /\ firstidx \in [Plane -> 0 .. n]
      /\ vi \in Int /\ vi <= vi_end
  BY <1>1, <1>2, PlanesDivide, InputOK DEF TInv, VisInv, TracksInv, LoopInv, Plane
<1>5. Limit' = vi /\ Limit = vi
  <2>1. vi_end \in Int
    BY <1>4 DEF vi_end, Plane
  <2>2. vi = vi_end
    BY <1>1, <1>4, <2>1
  <2>3. CASE pi + 1 = num_wplanes
    <3>1. pi = num_wplanes - 1
      BY <1>4, <2>3 DEF Plane
    <3> QED BY <1>1, <1>3, <2>2, <2>3, <3>1 DEF Limit, vi_end
  <2>4. CASE pi + 1 # num_wplanes
    <3>1. pi # num_wplanes - 1
      BY <1>4, <2>4 DEF Plane
    <3> QED BY <1>1, <1>3, <2>2, <2>4, <3>1 DEF Limit, vi_end
  <2> QED BY <2>3, <2>4
<1> DEFINE B == Before(vi)
<1>6. Before(Limit)' = B /\ Before(Limit) = B /\ B \in SUBSET Vis
  BY <1>3, <1>5 DEF Before
<1> HIDE DEF B
<1>7. {Gridded(k)' : k \in B} = {Gridded(k) : k \in B}
  BY <1>1, <1>2, <1>6, GriddedKept
<1>8. vis_grid = UNION {Gridded(k) : k \in B} /\ IsFiniteSet(vis_grid) /\ adds = Cardinality(vis_grid)
  BY <1>6 DEF GridInv
<1>9. vis_grid' = UNION {Gridded(k)' : k \in B}
  BY <1>1, <1>7, <1>8
<1> QED BY <1>1, <1>6, <1>8, <1>9 DEF GridInv

LEMMA GridGrid ==
  ASSUME Supported(Inputs)
  PROVE  TInv /\ GridInv /\ GridVisibility => GridInv'
<1> SUFFICES ASSUME TInv, GridInv, GridVisibility PROVE GridInv'
  OBVIOUS
<1> DEFINE copies == 0 .. good_vis[vi] - 1
           size == [gv \in copies |->
                      Cardinality((DOMAIN Footprint(vi, gv).rows) \X (DOMAIN Footprint(vi, gv).cols))]
           added == UNION {Contributions(vi, gv) : gv \in copies}
<1>1. /\ pc = "grid" /\ pc' = pc /\ pi' = pi /\ conv_support' = conv_support /\ vi < vi_end /\ vi' = vi + 1
      /\ UNCHANGED <<input, visvars, good_vis, kernel_centre_on_grid, sample_grid_total, planevars>>
      /\ vis_grid' = vis_grid \union added
      /\ adds' = adds + SumOf(size, copies)
  BY DEF GridVisibility
<1>2. pc \in Gridding
  BY <1>1 DEF Gridding
<1>3. Vis' = Vis
  BY <1>1, <1>2, GridKept
<1>4. /\ input \in Inputs
      /\ num_wplanes \in Nat \ {0} /\ n \in Nat /\ pi \in Plane /\ firstidx \in [Plane -> 0 .. n]
      /\ vi \in 0 .. n /\ firstidx[pi] <= vi /\ Vis = 0 .. n - 1
  BY <1>1, <1>2, PlanesDivide, InputOK DEF TInv, VisInv, TracksInv, LoopInv, Plane
<1>5. vi_end \in 0 .. n /\ (pi < num_wplanes - 1 => vi_end = firstidx[pi + 1])
  BY <1>4 DEF vi_end, Plane
<1>6. vi \in Vis /\ PlaneAt(vi) = pi
  <2>1. vi \in Vis
    BY <1>1, <1>4, <1>5
  <2>2. pi < num_wplanes - 1 => vi < firstidx[pi + 1]
    BY <1>1, <1>5
  <2> QED BY <1>2, <1>4, <2>1, <2>2, PlaneIs
<1> HIDE DEF copies, size, added
<1>7. added = Gridded(vi) /\ IsFiniteSet(added) /\ SumOf(size, copies) = Cardinality(added)
  <2>1. CASE good_vis[vi] = 0
    <3>1. copies = {}
      BY <2>1 DEF copies
    <3>2. added = {}
      BY <3>1 DEF added
    <3>3. SumOf(size, copies) = 0
      BY <3>1, SumEmpty
    <3> QED BY <2>1, <3>2, <3>3, FS_EmptySet DEF Gridded
  <2>2. CASE good_vis[vi] # 0
    <3>1. Tracks(vi) /\ Folded(vi) /\ PlacedInside(vi) /\ good_vis[vi] = Copies(vi)
      BY <1>2, <1>6, <2>2, GoodPlaced
    <3>2. conv_support[pi] \in 1 .. max_support
      BY <1>4 DEF TInv, LoopInv
    <3>3. /\ added = OnGrid(vis[vi].id, pi, conv_support[pi])
          /\ IsFiniteSet(added)
          /\ SumOf(size, copies) = Cardinality(added)
      BY <1>4, <1>6, <3>1, <3>2, VisibilityAdds DEF added, copies, size
    <3> QED BY <1>6, <2>2, <3>3 DEF Gridded
  <2> QED BY <2>1, <2>2
<1> DEFINE B == Before(vi)
           C == Before(vi + 1)
<1>8. /\ Before(Limit)' = C /\ Before(Limit) = B /\ C = B \union {vi} /\ C \in SUBSET Vis
      /\ vi \notin B
  <2>1. Limit = vi /\ Limit' = vi + 1
    BY <1>1 DEF Limit
  <2>2. Before(Limit)' = C /\ Before(Limit) = B
    BY <1>3, <2>1 DEF Before
  <2>3. C = B \union {vi} /\ vi \notin B /\ C \in SUBSET Vis
    BY <1>4, <1>6 DEF Before
  <2> QED BY <2>2, <2>3
<1> HIDE DEF B, C
<1>9. {Gridded(k)' : k \in C} = {Gridded(k) : k \in C}
  BY <1>1, <1>2, <1>8, GriddedKept
<1>10. vis_grid = UNION {Gridded(k) : k \in B} /\ IsFiniteSet(vis_grid) /\ adds = Cardinality(vis_grid)
  BY <1>8 DEF GridInv
<1>11. vis_grid' = UNION {Gridded(k)' : k \in C}
  <2>1. {Gridded(k) : k \in C} = {Gridded(k) : k \in B} \union {Gridded(vi)}
    BY <1>8
  <2> DEFINE G == {Gridded(k) : k \in B}
             H == {Gridded(k) : k \in C}
  <2>2. H = G \union {Gridded(vi)} /\ vis_grid = UNION G
    BY <1>10, <2>1
  <2>3. vis_grid' = (UNION G) \union Gridded(vi)
    BY <1>1, <1>7, <2>2
  <2>4. UNION {Gridded(k)' : k \in C} = UNION H
    BY <1>9
  <2> HIDE DEF G, H
  <2>5. UNION H = (UNION G) \union Gridded(vi)
    BY <2>2
  <2> QED BY <2>3, <2>4, <2>5
<1>12. vis_grid \cap added = {}
  <2> SUFFICES ASSUME NEW c \in vis_grid, c \in added PROVE FALSE
    OBVIOUS
  <2>1. PICK k \in B : c \in Gridded(k)
    BY <1>10
  <2>2. \A l : c \in Gridded(l) => c[3].id = vis[l].id
    BY OnGridId DEF Gridded
  <2>3. vis[k].id = vis[vi].id /\ k \in Vis
    BY <1>7, <1>8, <2>1, <2>2
  <2>4. k = vi
    BY <1>6, <2>3 DEF TInv, VisInv, TracksInv
  <2> QED BY <1>8, <2>1, <2>4
<1>13. IsFiniteSet(vis_grid') /\ adds' = Cardinality(vis_grid')
  <2>1. /\ IsFiniteSet(vis_grid \union added)
        /\ Cardinality(vis_grid \union added) = Cardinality(vis_grid) + Cardinality(added) - Cardinality({})
    BY <1>7, <1>10, <1>12, FS_Union
  <2>2. Cardinality({}) = 0 /\ Cardinality(vis_grid) \in Int /\ Cardinality(added) \in Int
    BY <1>7, <1>10, FS_EmptySet, FS_CardinalityType
  <2> QED BY <1>1, <1>7, <1>10, <2>1, <2>2
<1> QED BY <1>8, <1>11, <1>13 DEF GridInv

LEMMA StutterGrid == TInv /\ GridInv /\ (Returned \/ UNCHANGED vars) => GridInv'
<1> SUFFICES ASSUME TInv, GridInv, UNCHANGED vars PROVE GridInv'
  BY DEF Returned
<1>1. /\ UNCHANGED <<input, visvars, good_vis, kernel_centre_on_grid, sample_grid_total, planevars>>
      /\ UNCHANGED <<pc, pi, vis_grid, adds, vi, conv_support, firstidx>>
  BY DEF vars, gridvars, planevars
<1>2. CASE pc \in Gridding
  <2>1. Vis' = Vis /\ n' = n
    BY <1>1, <1>2, GridKept
  <2> DEFINE B == Before(Limit)
  <2>2. Before(Limit)' = B /\ B \in SUBSET Vis
    BY <1>1, <2>1 DEF Before, Limit
  <2> HIDE DEF B
  <2>3. {Gridded(k)' : k \in B} = {Gridded(k) : k \in B}
    BY <1>1, <1>2, <2>2, GriddedKept
  <2>4. vis_grid = UNION {Gridded(k) : k \in B} /\ IsFiniteSet(vis_grid) /\ adds = Cardinality(vis_grid)
    BY DEF GridInv, B
  <2>5. vis_grid' = UNION {Gridded(k)' : k \in B}
    BY <1>1, <2>3, <2>4
  <2> QED BY <1>1, <2>2, <2>4, <2>5 DEF GridInv
<1>3. CASE pc \notin Gridding
  <2>1. pi' = 0 /\ vis_grid' = {} /\ adds' = 0 /\ pc' \notin {"grid", "done"}
    BY <1>1, <1>3 DEF TInv, LoopInv, Gridding
  <2>2. TInv'
    BY StutterStep
  <2>3. (TInv /\ pc \notin {"grid", "done"} /\ pi = 0 /\ vis_grid = {} /\ adds = 0)'
    BY <2>1, <2>2
  <2> QED BY <2>3, GridStart, PTL
<1> QED BY <1>2, <1>3

LEMMA FirstGrid ==
  TInv /\ (SortByAbsW \/ ConvertToHalfplane \/ PlaceKernels \/ AverageWPlanes) => GridInv'
<1> SUFFICES ASSUME TInv, SortByAbsW \/ ConvertToHalfplane \/ PlaceKernels \/ AverageWPlanes
             PROVE  GridInv'
  OBVIOUS
<1>1. /\ pc \notin Gridding /\ pc' \notin {"grid", "done"} /\ pi' = pi /\ vis_grid' = vis_grid /\ adds' = adds
  BY DEF SortByAbsW, ConvertToHalfplane, PlaceKernels, AverageWPlanes, Gridding, gridvars
<1>2. pi' = 0 /\ vis_grid' = {} /\ adds' = 0
  BY <1>1 DEF TInv, LoopInv
<1>3. TInv'
  BY SortStep, ConvertStep, PlaceStep, AverageStep
<1>4. (TInv /\ pc \notin {"grid", "done"} /\ pi = 0 /\ vis_grid = {} /\ adds = 0)'
  BY <1>1, <1>2, <1>3
<1> QED BY <1>4, GridStart, PTL

LEMMA GridInvInit == Init => GridInv
<1> SUFFICES ASSUME Init PROVE GridInv
  OBVIOUS
<1>1. pc = "sort" /\ pi = 0 /\ vis_grid = {} /\ adds = 0
  BY DEF Init
<1> QED BY <1>1, TInvInit, GridStart

LEMMA GridInvStep ==
  ASSUME Supported(Inputs)
  PROVE  TInv /\ GridInv /\ [Next]_vars => GridInv'
BY FirstGrid, StartGrid, GridGrid, EndGrid, StutterGrid DEF Next

------------------------------------------------------------------------------
(***************************************************************************)
(* What is on the grid in the end.                                         *)
(***************************************************************************)
LEMMA PlaneOfId ==
  ASSUME TInv, NEW k \in Vis
  PROVE  PlaneOf(vis[k].id) = PlaneAt(k)
<1>1. (CHOOSE l \in Vis : vis[l].id = vis[k].id) = k
  BY DEF TInv, VisInv, TracksInv
<1> QED BY <1>1, Zenon DEF PlaneOf, PlaneAt

LEMMA ConvolvedSpread ==
  ASSUME NEW id, NEW sign
  PROVE  Convolved(id, sign) = Spread(id, sign, PlaneOf(id), conv_support[PlaneOf(id)])
BY Zenon DEF Convolved, Spread, PointOf, Box, Unit

\* Every visibility of the input has a position.
LEMMA IdsAll ==
  ASSUME TInv
  PROVE  {vis[k].id : k \in Vis} = Vis
<1> DEFINE f == [k \in Vis |-> vis[k].id]
           T == {f[k] : k \in Vis}
<1>1. IsFiniteSet(Vis) /\ \A k \in Vis : vis[k].id \in Vis
  BY InputOK DEF TInv, VisInv, TracksInv
<1>2. \A k, l \in Vis : f[k] = f[l] => k = l
  BY DEF TInv, VisInv, TracksInv
<1>3. T \subseteq Vis /\ T = {vis[k].id : k \in Vis}
  BY <1>1
<1> HIDE DEF f
<1>4. Cardinality(T) = Cardinality(Vis)
  BY <1>1, <1>2, ImageOneToOne
<1> HIDE DEF T
<1>5. T = Vis
  BY <1>1, <1>3, <1>4, FS_Subset
<1> QED BY <1>3, <1>5

\* A visibility and its conjugate are in bounds together.
LEMMA WithinId ==
  ASSUME input \in Inputs, NEW k \in Vis, Tracks(k), NEW a \in {1, 2}
  PROVE  Within(uv_lambda[k][a]) <=> Within(input.uv[vis[k].id][a])
<1>1. PICK u \in Int : u = input.uv[vis[k].id][a]
  BY InputOK DEF Tracks
<1>2. uv_lambda[k][a] = u \/ uv_lambda[k][a] = -u
  BY <1>1, InputOK DEF Tracks
<1>3. PICK r \in Int : r = Rint(u, Sub) /\ Rint(-u, Sub) = -r
  BY RintOdd, RintNear, GridFacts
<1>4. Within(u) <=> -half_image_size < r - max_support /\ r + max_support < half_image_size
  BY <1>3 DEF Within
<1>5. Within(-u) <=> -half_image_size < -r - max_support /\ -r + max_support < half_image_size
  BY <1>3 DEF Within
<1>6. Within(-u) <=> Within(u)
  BY <1>4, <1>5, GridFacts
<1> QED BY <1>1, <1>2, <1>6

LEMMA InBoundsWithin ==
  ASSUME input \in Inputs, NEW id
  PROVE  id \in InBounds <=> id \in Vis /\ Within(input.uv[id][1]) /\ Within(input.uv[id][2])
<1>1. \A a : a \in 1..2 <=> a = 1 \/ a = 2
  OBVIOUS
<1> QED BY <1>1 DEF InBounds, Fits, Within

LEMMA InBoundsGood ==
  ASSUME TInv, pc \notin Unplaced, NEW k \in Vis
  PROVE  good_vis[k] # 0 <=> vis[k].id \in InBounds
<1>1. input \in Inputs /\ Tracks(k) /\ vis[k].id \in Vis
  BY DEF TInv, VisInv, TracksInv
<1>2. good_vis[k] # 0 <=> Inside(k)
  BY DEF TInv, VisInv, PlaceInv
<1>3. Inside(k) <=> Within(input.uv[vis[k].id][1]) /\ Within(input.uv[vis[k].id][2])
  BY <1>1, WithinId DEF Inside
<1> QED BY <1>1, <1>2, <1>3, InBoundsWithin

\* The grid, point by point.
LEMMA InGrid ==
  ASSUME TInv, GridInv, pc = "done", NEW c
  PROVE  c \in vis_grid
           <=> \E k \in Vis : \E sign \in SignSet :
                 /\ good_vis[k] # 0
                 /\ c \in Spread(vis[k].id, sign, PlaneAt(k), conv_support[PlaneAt(k)])
                 /\ c[1] < image_rows
<1>1. Before(Limit) = Vis
  <2>1. Vis = 0 .. n - 1 /\ n \in Nat
    BY InputOK DEF TInv, VisInv, TracksInv
  <2> QED BY <2>1 DEF Before, Limit
<1>2. c \in vis_grid <=> \E k \in Vis : c \in Gridded(k)
  BY <1>1 DEF GridInv
<1>3. ASSUME NEW k \in Vis
      PROVE  c \in Gridded(k) <=> \E sign \in SignSet :
                 /\ good_vis[k] # 0
                 /\ c \in Spread(vis[k].id, sign, PlaneAt(k), conv_support[PlaneAt(k)])
                 /\ c[1] < image_rows
  BY DEF Gridded, OnGrid, OnRows
<1> QED BY <1>2, <1>3

(***************************************************************************)
(* The grid is the sum of the convolutions of all visibilities in bounds,  *)
(* each pixel of each exactly once, for every image size, kernel support,  *)
(* oversampling, set of visibilities, and number of w-planes, if the       *)
(* options are combined as the library's callers combine them: the two     *)
(* loops over the rows of GridderConvolutionOversampled and -Exact, the    *)
(* conjugate copies near the 0-frequency, fftshift of the kernel centres   *)
(* and the sub-pixel offsets together leave out and repeat nothing.        *)
(***************************************************************************)
THEOREM GridComplete ==
  ASSUME Supported(Inputs)
  PROVE  Spec => []GridIsVisibilityGrid
<1>1. TInv /\ GridInv => GridIsVisibilityGrid
  <2> SUFFICES ASSUME TInv, GridInv, pc = "done" PROVE GridIsVisibilityGrid
    BY DEF GridIsVisibilityGrid
  <2> DEFINE all == UNION {Convolved(id, sign) : id \in InBounds, sign \in SignSet}
  <2>1. ASSUME NEW k \in Vis, NEW sign
        PROVE  Spread(vis[k].id, sign, PlaneAt(k), conv_support[PlaneAt(k)]) = Convolved(vis[k].id, sign)
    BY ConvolvedSpread, PlaneOfId
  <2>2. pc \notin Unplaced
    BY DEF Unplaced
  <2>3. ASSUME NEW c PROVE c \in vis_grid <=> c \in all /\ c[1] < image_rows
    <3>1. c \in vis_grid <=> \E k \in Vis : \E sign \in SignSet :
                 good_vis[k] # 0 /\ c \in Convolved(vis[k].id, sign) /\ c[1] < image_rows
      BY <2>1, InGrid
    <3>2. \A k \in Vis : good_vis[k] # 0 <=> vis[k].id \in InBounds
      BY <2>2, InBoundsGood
    <3>3. \A id \in InBounds : \E k \in Vis : vis[k].id = id
      BY IdsAll DEF InBounds
    <3>4. c \in all <=> \E id \in InBounds : \E sign \in SignSet : c \in Convolved(id, sign)
      OBVIOUS
    <3> HIDE DEF all
    <3> QED BY <3>1, <3>2, <3>3, <3>4
  <2> HIDE DEF all
  <2>4. vis_grid = {c \in all : c[1] < image_rows}
    BY <2>3
  <2>5. adds = Cardinality(vis_grid)
    BY DEF GridInv
  <2> QED BY <2>4, <2>5 DEF all, SignSet, GridIsVisibilityGrid
<1> QED BY <1>1, TInvInit, TInvStep, GridInvInit, GridInvStep, PTL DEF Spec

------------------------------------------------------------------------------
(***************************************************************************)
(* The samples of a kernel and of its conjugate, by sign and displacement, *)
(* and their rows from the 0-frequency.                                    *)
(***************************************************************************)
Halves(s) == Signs \X Box(s)

RowAt(r, f) == f[1] * r + f[2][2]

AtZero(r, s) == {f \in Halves(s) : RowAt(r, f) = 0}
Below(r, s) == {f \in Halves(s) : RowAt(r, f) > 0}

LEMMA RowAtInt ==
  ASSUME NEW r \in Int, NEW s \in Nat, NEW f \in Halves(s)
  PROVE  /\ f = <<f[1], <<f[2][1], f[2][2]>>>>
         /\ f[1] \in Signs /\ f[2] \in Box(s) /\ f[2][1] \in -s .. s /\ f[2][2] \in -s .. s
         /\ f[1] * r \in Int /\ RowAt(r, f) \in Int
         /\ f[1] * r = r \/ f[1] * r = -r
<1>1. PICK t \in Signs, x \in -s .. s, y \in -s .. s : f = <<t, <<x, y>>>>
  BY DEF Halves, Box
<1>2. f[1] = t /\ f[2] = <<x, y>> /\ f[2][1] = x /\ f[2][2] = y /\ f[2] \in Box(s)
  BY <1>1 DEF Box
<1>3. t * r \in Int /\ (t * r = r \/ t * r = -r)
  <2>1. CASE t = 1
    BY <2>1
  <2>2. CASE t = -1
    BY <2>2
  <2> QED BY <2>1, <2>2 DEF Signs
<1>4. RowAt(r, f) = t * r + y
  BY <1>2, Zenon DEF RowAt
<1> QED BY <1>1, <1>2, <1>3, <1>4

(***************************************************************************)
(* The rows at and below the 0-frequency, each of the latter twice, are as *)
(* many as all rows: the opposite of a sample above it is one below.       *)
(***************************************************************************)
LEMMA HalvesCount ==
  ASSUME NEW r \in Int, NEW s \in Nat
  PROVE  /\ IsFiniteSet(AtZero(r, s)) /\ IsFiniteSet(Below(r, s))
         /\ Cardinality(AtZero(r, s)) \in Nat /\ Cardinality(Below(r, s)) \in Nat
         /\ Cardinality(AtZero(r, s)) + 2 * Cardinality(Below(r, s)) = 2 * KernelArea(s)
<1> DEFINE H == Halves(s)
           Z == AtZero(r, s)
           P == Below(r, s)
           N == {f \in H : RowAt(r, f) < 0}
           opposite == [f \in P |-> <<-f[1], <<-f[2][1], -f[2][2]>>>>]
<1>1. IsFiniteSet(H) /\ Cardinality(H) = 2 * KernelArea(s)
  <2>1. IsFiniteSet(Signs) /\ Cardinality(Signs) = 2
    <3>1. IsFiniteSet({1}) /\ Cardinality({1}) = 1 /\ -1 \notin {1}
      BY FS_Singleton
    <3>2. IsFiniteSet({1} \union {-1}) /\ Cardinality({1} \union {-1}) = Cardinality({1}) + 1
      BY <3>1, FS_AddElement
    <3>3. {1} \union {-1} = Signs
      BY DEF Signs
    <3> QED BY <3>1, <3>2, <3>3
  <2>2. IsFiniteSet(-s .. s) /\ Cardinality(-s .. s) = 2 * s + 1
    <3>1. IsFiniteSet(-s .. s) /\ Cardinality(-s .. s) = IF -s > s THEN 0 ELSE s - (-s) + 1
      BY FS_Interval
    <3> QED BY <3>1
  <2>3. IsFiniteSet(Box(s)) /\ Cardinality(Box(s)) = (2 * s + 1) * (2 * s + 1)
    BY <2>2, FS_Product DEF Box
  <2> QED BY <2>1, <2>3, FS_Product DEF Halves, KernelArea
<1>2. \A f \in H : RowAt(r, f) \in Int
  BY RowAtInt
<1>3. /\ Z \subseteq H /\ P \subseteq H /\ N \subseteq H
      /\ Z \cap P = {} /\ (Z \union P) \cap N = {} /\ (Z \union P) \union N = H
  <2> HIDE DEF H
  <2>1. /\ \A f : f \in Z <=> f \in H /\ RowAt(r, f) = 0
        /\ \A f : f \in P <=> f \in H /\ RowAt(r, f) > 0
    BY DEF H, AtZero, Below
  <2>2. \A f \in H : RowAt(r, f) = 0 \/ RowAt(r, f) > 0 \/ RowAt(r, f) < 0
    BY <1>2
  <2>3. \A f \in H : /\ ~ (RowAt(r, f) = 0 /\ RowAt(r, f) > 0)
                     /\ ~ (RowAt(r, f) = 0 /\ RowAt(r, f) < 0)
                     /\ ~ (RowAt(r, f) > 0 /\ RowAt(r, f) < 0)
    BY <1>2
  <2>4. \A f : f \in N <=> f \in H /\ RowAt(r, f) < 0
    OBVIOUS
  <2> HIDE DEF Z, P, N
  <2> QED BY <2>1, <2>2, <2>3, <2>4, ZenonT(30)
<1>4. IsFiniteSet(Z) /\ IsFiniteSet(P) /\ IsFiniteSet(N)
  BY <1>1, <1>3, FS_Subset
<1>5. N = {opposite[f] : f \in P}
  <2>1. ASSUME NEW f \in H, NEW g, g = <<-f[1], <<-f[2][1], -f[2][2]>>>>
        PROVE  /\ g \in H /\ RowAt(r, g) = -RowAt(r, f)
               /\ f = <<-g[1], <<-g[2][1], -g[2][2]>>>>
    <3>1. PICK t \in Signs, x \in -s .. s, y \in -s .. s : f = <<t, <<x, y>>>>
      BY DEF Halves, Box
    <3>2. f[1] = t /\ f[2][1] = x /\ f[2][2] = y
      BY <3>1
    <3>3. g = <<-t, <<-x, -y>>>>
      BY <2>1, <3>2, Zenon
    <3>4. g[1] = -t /\ g[2][1] = -x /\ g[2][2] = -y
      BY <3>3
    <3>5. -t \in Signs /\ -x \in -s .. s /\ -y \in -s .. s /\ -(-t) = t /\ -(-x) = x /\ -(-y) = y
      BY DEF Signs
    <3>6. (-t) * r + -y = -(t * r + y)
      <4>1. CASE t = 1
        BY <4>1
      <4>2. CASE t = -1
        BY <4>2
      <4> QED BY <4>1, <4>2 DEF Signs
    <3>7. RowAt(r, g) = (-t) * r + -y /\ RowAt(r, f) = t * r + y
      BY <3>2, <3>4, Zenon DEF RowAt
    <3>8. g \in H
      BY <3>3, <3>5 DEF Halves, Box
    <3>9. f = <<-g[1], <<-g[2][1], -g[2][2]>>>>
      BY <3>1, <3>4, <3>5, Zenon
    <3> QED BY <3>6, <3>7, <3>8, <3>9
  <2>2. \A f \in P : opposite[f] = <<-f[1], <<-f[2][1], -f[2][2]>>>>
    OBVIOUS
  <2>3. /\ \A f : f \in P <=> f \in H /\ RowAt(r, f) > 0
        /\ \A f : f \in N <=> f \in H /\ RowAt(r, f) < 0
    BY DEF Below
  <2> HIDE DEF opposite, P, N, H
  <2>4. ASSUME NEW f \in P PROVE opposite[f] \in N
    <3>1. f \in H /\ RowAt(r, f) > 0 /\ RowAt(r, f) \in Int
      BY <1>2, <2>3
    <3>2. opposite[f] \in H /\ RowAt(r, opposite[f]) = -RowAt(r, f)
      BY <2>1, <2>2, <3>1
    <3>3. RowAt(r, opposite[f]) < 0
      BY <3>1, <3>2
    <3> QED BY <2>3, <3>2, <3>3
  <2>5. ASSUME NEW g \in N PROVE \E f \in P : g = opposite[f]
    <3> DEFINE f == <<-g[1], <<-g[2][1], -g[2][2]>>>>
    <3>1. g \in H /\ RowAt(r, g) < 0 /\ RowAt(r, g) \in Int
      BY <1>2, <2>3
    <3>2. f = <<-g[1], <<-g[2][1], -g[2][2]>>>>
      OBVIOUS
    <3> HIDE DEF f
    <3>3. f \in H /\ RowAt(r, f) = -RowAt(r, g) /\ g = <<-f[1], <<-f[2][1], -f[2][2]>>>>
      BY <2>1, <3>1, <3>2
    <3>4. RowAt(r, f) > 0
      BY <3>1, <3>3
    <3>5. f \in P
      BY <2>3, <3>3, <3>4
    <3> QED BY <2>2, <3>3, <3>5
  <2> QED BY <2>4, <2>5
<1>6. \A f, g \in P : opposite[f] = opposite[g] => f = g
  <2> SUFFICES ASSUME NEW f \in P, NEW g \in P, opposite[f] = opposite[g] PROVE f = g
    OBVIOUS
  <2>1. f \in H /\ g \in H
    BY <1>3
  <2>2. PICK t \in Signs, x \in -s .. s, y \in -s .. s : f = <<t, <<x, y>>>>
    BY <2>1 DEF Halves, Box
  <2>3. PICK u \in Signs, v \in -s .. s, w \in -s .. s : g = <<u, <<v, w>>>>
    BY <2>1 DEF Halves, Box
  <2>4. opposite[f] = <<-t, <<-x, -y>>>> /\ opposite[g] = <<-u, <<-v, -w>>>>
    <3>1. f[1] = t /\ f[2][1] = x /\ f[2][2] = y /\ g[1] = u /\ g[2][1] = v /\ g[2][2] = w
      BY <2>2, <2>3
    <3>2. opposite[f] = <<-f[1], <<-f[2][1], -f[2][2]>>>> /\ opposite[g] = <<-g[1], <<-g[2][1], -g[2][2]>>>>
      OBVIOUS
    <3> QED BY <3>1, <3>2, Zenon
  <2> HIDE DEF opposite
  <2>5. -t = -u /\ -x = -v /\ -y = -w
    <3>1. <<-t, <<-x, -y>>>> = <<-u, <<-v, -w>>>>
      BY <2>4, Zenon
    <3> QED BY ONLY <3>1
  <2>6. t \in Int /\ u \in Int /\ x \in Int /\ v \in Int /\ y \in Int /\ w \in Int
    BY DEF Signs
  <2>7. t = u /\ x = v /\ y = w
    BY <2>5, <2>6
  <2> QED BY <2>2, <2>3, <2>7
<1> HIDE DEF H, Z, P, N, opposite
<1>7. Cardinality(N) = Cardinality(P)
  BY <1>4, <1>5, <1>6, ImageOneToOne
<1>8. Cardinality(Z) \in Nat /\ Cardinality(P) \in Nat /\ Cardinality(N) \in Nat
  BY <1>4, FS_CardinalityType
<1>9. IsFiniteSet(Z \union P) /\ Cardinality(Z \union P) = Cardinality(Z) + Cardinality(P)
  <2>1. Cardinality(Z \cap P) = 0
    BY <1>3, FS_EmptySet
  <2>2. /\ IsFiniteSet(Z \union P)
        /\ Cardinality(Z \union P) = Cardinality(Z) + Cardinality(P) - Cardinality(Z \cap P)
    BY <1>4, FS_Union, Zenon
  <2>3. PICK z \in Nat, q \in Nat : z = Cardinality(Z) /\ q = Cardinality(P)
    BY <1>8
  <2>4. Cardinality(Z \union P) = z + q - 0
    BY <2>1, <2>2, <2>3, Zenon
  <2>5. z + q - 0 = z + q
    BY <2>3
  <2> QED BY <2>2, <2>3, <2>4, <2>5, Zenon
<1>10. Cardinality(H) = Cardinality(Z) + Cardinality(P) + Cardinality(N)
  <2>1. Cardinality((Z \union P) \cap N) = 0
    BY <1>3, FS_EmptySet
  <2>2. Cardinality((Z \union P) \union N) = Cardinality(Z \union P) + Cardinality(N) - 0
    BY <1>4, <1>9, <2>1, FS_Union
  <2>3. PICK z \in Nat, q \in Nat, m \in Nat :
           z = Cardinality(Z) /\ q = Cardinality(P) /\ m = Cardinality(N)
    BY <1>8
  <2>4. Cardinality(H) = (z + q) + m - 0
    BY <1>3, <1>9, <2>2, <2>3, Zenon
  <2>5. (z + q) + m - 0 = z + q + m
    BY <2>3
  <2> QED BY <2>3, <2>4, <2>5, Zenon
<1> QED BY <1>1, <1>4, <1>7, <1>8, <1>10 DEF Z, P

\* No two samples of a visibility coincide.
LEMMA SampleInjective ==
  ASSUME input \in Inputs, NEW id \in Vis, NEW p, NEW s \in 1 .. max_support,
         NEW f \in Halves(s), NEW g \in Halves(s),
         PointOf(id, f[1], p, f[2]) = PointOf(id, g[1], p, g[2])
  PROVE  f = g
<1>1. /\ f = <<f[1], <<f[2][1], f[2][2]>>>> /\ f[1] \in Signs
      /\ f[2][1] \in -max_support .. max_support /\ f[2][2] \in -max_support .. max_support
  <2>1. /\ f = <<f[1], <<f[2][1], f[2][2]>>>> /\ f[1] \in Signs
        /\ f[2][1] \in -s .. s /\ f[2][2] \in -s .. s
    BY RowAtInt, 0 \in Int
  <2>2. max_support \in Nat
    BY GridFacts
  <2> QED BY <2>1, <2>2
<1>2. /\ g = <<g[1], <<g[2][1], g[2][2]>>>> /\ g[1] \in Signs
      /\ g[2][1] \in -max_support .. max_support /\ g[2][2] \in -max_support .. max_support
  <2>1. /\ g = <<g[1], <<g[2][1], g[2][2]>>>> /\ g[1] \in Signs
        /\ g[2][1] \in -s .. s /\ g[2][2] \in -s .. s
    BY RowAtInt, 0 \in Int
  <2>2. max_support \in Nat
    BY GridFacts
  <2> QED BY <2>1, <2>2
<1>3. PICK ru \in Int, rv \in Int : ru = Rint(input.uv[id][1], Sub) /\ rv = Rint(input.uv[id][2], Sub)
  <2>1. input.uv[id][1] \in Int /\ input.uv[id][2] \in Int
    BY InputOK
  <2> QED BY <2>1, RintNear, GridFacts
<1>4. /\ Pixel(f[1] * rv + f[2][2]) = Pixel(g[1] * rv + g[2][2])
      /\ Pixel(f[1] * ru + f[2][1]) = Pixel(g[1] * ru + g[2][1])
      /\ (f[1] = -1) = (g[1] = -1)
  <2> DEFINE P(h) == PointOf(id, h[1], p, h[2])
  <2>1. ASSUME NEW h
        PROVE  /\ P(h)[1] = Pixel(h[1] * rv + h[2][2]) /\ P(h)[2] = Pixel(h[1] * ru + h[2][1])
               /\ P(h)[3].conj = (h[1] = -1)
    BY <1>3 DEF PointOf
  <2>2. P(f) = P(g)
    OBVIOUS
  <2> HIDE DEF P
  <2> QED BY <2>1, <2>2, Zenon
<1>5. f[1] = g[1]
  BY <1>1, <1>2, <1>4 DEF Signs
<1>6. f[1] * ru \in Int /\ f[1] * rv \in Int
  <2>1. CASE f[1] = 1
    BY <1>3, <2>1
  <2>2. CASE f[1] = -1
    BY <1>3, <2>2
  <2> QED BY <1>1, <2>1, <2>2 DEF Signs
<1>7. f[2][2] = g[2][2] /\ f[2][1] = g[2][1]
  <2>1. /\ Pixel(f[1] * rv + f[2][2]) = Pixel(f[1] * rv + g[2][2])
        /\ Pixel(f[1] * ru + f[2][1]) = Pixel(f[1] * ru + g[2][1])
    BY <1>4, <1>5, Zenon
  <2> QED BY <1>1, <1>2, <1>6, <2>1, PixelInjective
<1> QED BY <1>1, <1>2, <1>5, <1>7, Zenon

\* Row x of the whole plane, its origin in the corner, is y from the 0-frequency.
OnRow(x, y) ==
  /\ y \in Int /\ -half_image_size < y /\ y < half_image_size
  /\ x = IF y < 0 THEN y + image_size ELSE y

LEMMA RowOfSample ==
  ASSUME input \in Inputs, shift_uv, NEW id \in Vis, Within(input.uv[id][2]), NEW p,
         NEW s \in 1 .. max_support, NEW f \in Halves(s),
         NEW y, y = RowAt(Rint(input.uv[id][2], Sub), f)
  PROVE  OnRow(PointOf(id, f[1], p, f[2])[1], y)
<1>1. PICK r \in Int : /\ r = Rint(input.uv[id][2], Sub)
                       /\ -half_image_size < r - max_support /\ r + max_support < half_image_size
  <2>1. input.uv[id][2] \in Int
    BY InputOK
  <2> QED BY <2>1, RintNear, GridFacts DEF Within
<1>2. /\ f[2][2] \in -s .. s /\ f[1] * r \in Int /\ RowAt(r, f) \in Int
      /\ f[1] * r = r \/ f[1] * r = -r
  BY RowAtInt
<1>3. y = f[1] * r + f[2][2]
  BY <1>1 DEF RowAt
<1>4. y \in Int /\ -half_image_size < y /\ y < half_image_size
  <2>1. PICK x \in Int, d \in -s .. s : x = f[1] * r /\ d = f[2][2]
    BY <1>2
  <2>2. y = x + d /\ (x = r \/ x = -r)
    BY <1>2, <1>3, <2>1
  <2>3. max_support \in Nat /\ half_image_size \in Nat
    BY GridFacts
  <2> QED BY <1>1, <2>1, <2>2, <2>3
<1>5. PointOf(id, f[1], p, f[2])[1] = Pixel(f[1] * r + f[2][2])
  BY <1>1 DEF PointOf
<1>6. Pixel(y) = y % image_size
  BY <1>4 DEF Pixel
<1>7. y % image_size = IF y < 0 THEN y + image_size ELSE y
  <2>1. -image_size <= y /\ y < image_size /\ image_size \in Nat \ {0}
    BY <1>4, GridFacts
  <2> QED BY <1>4, <2>1, SignedResidue
<1> QED BY <1>3, <1>4, <1>5, <1>6, <1>7 DEF OnRow

(***************************************************************************)
(* A visibility in bounds leaves, with its conjugate, two whole kernels on *)
(* the plane: the half-plane has the rows at and below the 0-frequency of  *)
(* both, and the rows it lacks of one are its rows of the other.           *)
(***************************************************************************)
LEMMA SamplesTwice ==
  ASSUME Supported(Inputs), TInv, GridInv, pc = "done", halfplane_gridding,
         NEW k \in Vis, good_vis[k] # 0
  PROVE  Samples(vis[k].id) = 2 * KernelArea(conv_support[PlaneAt(k)])
<1> DEFINE id  == vis[k].id
           p   == PlaneAt(k)
           s   == conv_support[p]
           r   == Rint(input.uv[id][2], Sub)
           q   == [f \in Halves(s) |-> PointOf(id, f[1], p, f[2])]
           its == {c \in vis_grid : c[3].id = id}
           w   == [c \in its |-> Occurrences(c[1])]
           A   == {q[f] : f \in AtZero(r, s)}
           B   == {q[f] : f \in Below(r, s)}
<1>1. /\ input \in Inputs /\ id \in Vis /\ shift_uv /\ image_rows = half_image_size + 1
      /\ Within(input.uv[id][2]) /\ Tracks(k)
  <2>1. input \in Inputs /\ Tracks(k) /\ id \in Vis /\ PlacedInside(k)
    BY GoodPlaced DEF TInv, VisInv, TracksInv, Gridding
  <2>2. shift_uv /\ image_rows = half_image_size + 1
    BY <2>1 DEF Supported, shift_uv, halfplane_gridding, image_rows
  <2>3. Within(input.uv[id][2])
    BY <2>1, WithinId DEF PlacedInside
  <2> QED BY <2>1, <2>2, <2>3
<1>2. s \in 1 .. max_support /\ s \in Nat
  <2>1. s \in 1 .. max_support
    BY PlaneFound DEF TInv, LoopInv, Gridding
  <2> QED BY <2>1, GridFacts
<1>3. r \in Int
  <2>1. input.uv[id][2] \in Int
    BY <1>1, InputOK
  <2> QED BY <2>1, RintNear, GridFacts
<1>4. /\ AtZero(r, s) \subseteq Halves(s) /\ Below(r, s) \subseteq Halves(s)
      /\ \A f \in Halves(s) : f \in AtZero(r, s) <=> RowAt(r, f) = 0
      /\ \A f \in Halves(s) : f \in Below(r, s) <=> RowAt(r, f) > 0
  BY DEF AtZero, Below
<1>5. ASSUME NEW f \in Halves(s)
      PROVE  /\ q[f] = PointOf(id, f[1], p, f[2]) /\ q[f][3].id = id
             /\ q[f][1] < image_rows <=> f \in AtZero(r, s) \/ f \in Below(r, s)
             /\ f \in AtZero(r, s) => Occurrences(q[f][1]) = 1
             /\ f \in Below(r, s) => Occurrences(q[f][1]) = 2
             /\ ~ (f \in AtZero(r, s) /\ f \in Below(r, s))
  <2>1. q[f] = PointOf(id, f[1], p, f[2])
    OBVIOUS
  <2>2. q[f][3].id = id
    BY <2>1 DEF PointOf
  <2> HIDE DEF q
  <2>3. PICK y : y = RowAt(r, f)
    OBVIOUS
  <2>4. /\ y \in Int /\ -half_image_size < y /\ y < half_image_size
        /\ PointOf(id, f[1], p, f[2])[1] = IF y < 0 THEN y + image_size ELSE y
    <3>1. y = RowAt(Rint(input.uv[id][2], Sub), f)
      BY <2>3 DEF r
    <3>2. /\ input \in Inputs /\ shift_uv /\ id \in Vis /\ Within(input.uv[id][2])
          /\ s \in 1 .. max_support /\ f \in Halves(s)
      BY <1>1, <1>2
    <3> HIDE DEF id, p, s, r
    <3>3. OnRow(PointOf(id, f[1], p, f[2])[1], y)
      BY ONLY <3>1, <3>2, RowOfSample, Zenon
    <3> QED BY <3>3 DEF OnRow
  <2>5. PICK x : x = q[f][1]
    OBVIOUS
  <2>6. x = IF y < 0 THEN y + image_size ELSE y
    BY <2>1, <2>4, <2>5, Zenon
  <2>7. half_image_size \in Nat /\ image_size = 2 * half_image_size
    BY GridFacts
  <2>8. x < image_rows <=> y >= 0
    BY <1>1, <2>4, <2>6, <2>7
  <2>9. y = 0 => Occurrences(x) = 1
    BY <2>6 DEF Occurrences
  <2>10. y > 0 => Occurrences(x) = 2
    BY <2>4, <2>6 DEF Occurrences
  <2> HIDE DEF id, p, s, r
  <2> QED BY <1>4, <2>1, <2>2, <2>3, <2>4, <2>5, <2>8, <2>9, <2>10
<1>6. ASSUME NEW f \in Halves(s), NEW g \in Halves(s), q[f] = q[g] PROVE f = g
  <2>1. PointOf(id, f[1], p, f[2]) = PointOf(id, g[1], p, g[2])
    BY <1>5, <1>6
  <2> HIDE DEF id, p, s, q
  <2> QED BY <1>1, <1>2, <2>1, SampleInjective
<1>7. ASSUME NEW c PROVE c \in its <=> \E f \in Halves(s) : c = q[f] /\ c[1] < image_rows
  <2>1. SignSet = Signs
    BY DEF SignSet, Signs
  <2>2. ASSUME NEW l \in Vis, NEW sign \in Signs, NEW d \in Box(conv_support[PlaneAt(l)]),
               c = PointOf(vis[l].id, sign, PlaneAt(l), d), c[3].id = id, c[1] < image_rows
        PROVE  \E f \in Halves(s) : c = q[f] /\ c[1] < image_rows
    <3>1. vis[l].id = vis[k].id
      BY <2>2 DEF PointOf
    <3>2. l = k
      BY <3>1 DEF TInv, VisInv, TracksInv
    <3>3. d \in Box(s) /\ c = PointOf(id, sign, p, d)
      BY <2>2, <3>2
    <3> DEFINE f == <<sign, d>>
    <3>4. f \in Halves(s) /\ f[1] = sign /\ f[2] = d
      BY <3>3 DEF Halves
    <3> HIDE DEF f, s, p, id
    <3>5. q[f] = c
      BY <3>3, <3>4
    <3> QED BY <2>2, <3>4, <3>5
  <2>3. ASSUME NEW f \in Halves(s), c = q[f], c[1] < image_rows
        PROVE  c \in its
    <3>1. f[1] \in Signs /\ f[2] \in Box(s)
      BY DEF Halves
    <3>2. c = PointOf(id, f[1], p, f[2]) /\ c[3].id = id
      BY <1>5, <2>3
    <3>3. c \in Spread(vis[k].id, f[1], PlaneAt(k), conv_support[PlaneAt(k)])
      BY <3>1, <3>2 DEF Spread
    <3>4. c \in vis_grid
      BY <2>1, <2>3, <3>1, <3>3, InGrid
    <3> QED BY <3>2, <3>4
  <2>4. ASSUME c \in its PROVE \E f \in Halves(s) : c = q[f] /\ c[1] < image_rows
    <3>1. c \in vis_grid /\ c[3].id = id
      BY <2>4
    <3>2. PICK l \in Vis, sign \in SignSet :
            /\ c \in Spread(vis[l].id, sign, PlaneAt(l), conv_support[PlaneAt(l)])
            /\ c[1] < image_rows
      BY <3>1, InGrid
    <3>3. PICK d \in Box(conv_support[PlaneAt(l)]) : c = PointOf(vis[l].id, sign, PlaneAt(l), d)
      BY <3>2 DEF Spread
    <3> HIDE DEF its, q, s, p, id
    <3> QED BY <2>1, <2>2, <3>1, <3>2, <3>3
  <2> HIDE DEF its, q, s, p, id
  <2> QED BY <2>3, <2>4
<1>8. its = A \union B /\ A \cap B = {}
  <2> HIDE DEF its, q, s, p, id, r
  <2>1. ASSUME NEW c PROVE c \in its <=> c \in A \/ c \in B
    <3>1. c \in its <=> \E f \in Halves(s) : c = q[f] /\ (f \in AtZero(r, s) \/ f \in Below(r, s))
      BY <1>5, <1>7
    <3> QED BY <1>4, <3>1
  <2>2. ASSUME NEW f \in AtZero(r, s), NEW g \in Below(r, s), q[f] = q[g] PROVE FALSE
    <3>1. f \in Halves(s) /\ g \in Halves(s)
      BY <1>4
    <3>2. f = g
      BY <1>6, <2>2, <3>1
    <3> QED BY <1>5, <3>1, <3>2
  <2>3. A \cap B = {}
    BY <2>2
  <2> HIDE DEF A, B
  <2> QED BY <2>1, <2>3
<1>9. /\ \A c \in A : w[c] = 1
      /\ \A c \in B : w[c] = 2
  <2>1. \A c \in its : w[c] = Occurrences(c[1])
    OBVIOUS
  <2>2. \A c \in A : Occurrences(c[1]) = 1
    <3> HIDE DEF its, q, s, p, id, r
    <3> QED BY <1>4, <1>5
  <2>3. \A c \in B : Occurrences(c[1]) = 2
    <3> HIDE DEF its, q, s, p, id, r
    <3> QED BY <1>4, <1>5
  <2>4. A \subseteq its /\ B \subseteq its
    <3> HIDE DEF A, B, its
    <3> QED BY <1>8
  <2> HIDE DEF A, B, its, w
  <2> QED BY <2>1, <2>2, <2>3, <2>4
<1>10. Samples(id) = SumOf(w, its)
  BY Zenon DEF Samples
<1> HIDE DEF id, p, s, r, q, its, w
<1>11. /\ IsFiniteSet(AtZero(r, s)) /\ IsFiniteSet(Below(r, s))
       /\ Cardinality(AtZero(r, s)) \in Nat /\ Cardinality(Below(r, s)) \in Nat
       /\ Cardinality(AtZero(r, s)) + 2 * Cardinality(Below(r, s)) = 2 * KernelArea(s)
  BY <1>2, <1>3, HalvesCount
<1>12. IsFiniteSet(A) /\ Cardinality(A) = Cardinality(AtZero(r, s))
  <2>1. \A f, g \in AtZero(r, s) : q[f] = q[g] => f = g
    BY <1>4, <1>6
  <2> QED BY <1>11, <2>1, ImageOneToOne
<1>13. IsFiniteSet(B) /\ Cardinality(B) = Cardinality(Below(r, s))
  <2>1. \A f, g \in Below(r, s) : q[f] = q[g] => f = g
    BY <1>4, <1>6
  <2> QED BY <1>11, <2>1, ImageOneToOne
<1> HIDE DEF A, B
<1>14. SumOf(w, its) = SumOf(w, A) + SumOf(w, B)
  <2>1. \A c \in A \union B : w[c] \in Int
    BY <1>9
  <2>2. SumOf(w, A \union B) = SumOf(w, A) + SumOf(w, B)
    BY <1>8, <1>12, <1>13, <2>1, SumUnion
  <2> QED BY <1>8, <2>2, Zenon
<1>15. SumOf(w, A) = 1 * Cardinality(A) /\ SumOf(w, B) = 2 * Cardinality(B)
  BY <1>9, <1>12, <1>13, SumConstant
<1>16. SumOf(w, its) = Cardinality(AtZero(r, s)) + 2 * Cardinality(Below(r, s))
  <2>1. PICK a \in Nat, b \in Nat : a = Cardinality(A) /\ b = Cardinality(B)
    BY <1>11, <1>12, <1>13
  <2>2. SumOf(w, its) = 1 * a + 2 * b
    BY <1>14, <1>15, <2>1, Zenon
  <2>3. 1 * a + 2 * b = a + 2 * b
    BY <2>1
  <2> QED BY <1>12, <1>13, <2>1, <2>2, <2>3, Zenon
<1> QED BY <1>10, <1>11, <1>16, Zenon DEF id, s, p

(***************************************************************************)
(* On a full grid it leaves one, with no row twice.                        *)
(***************************************************************************)
LEMMA SamplesOnce ==
  ASSUME TInv, GridInv, pc = "done", ~ halfplane_gridding, NEW k \in Vis, good_vis[k] # 0
  PROVE  Samples(vis[k].id) = KernelArea(conv_support[PlaneAt(k)])
<1> DEFINE id  == vis[k].id
           p   == PlaneAt(k)
           s   == conv_support[p]
           q   == [d \in Box(s) |-> PointOf(id, 1, p, d)]
           its == {c \in vis_grid : c[3].id = id}
           w   == [c \in its |-> Occurrences(c[1])]
<1>1. input \in Inputs /\ id \in Vis /\ image_rows = image_size /\ SignSet = {1}
  BY DEF TInv, VisInv, TracksInv, image_rows, SignSet
<1>2. s \in 1 .. max_support /\ s \in Nat
  <2>1. s \in 1 .. max_support
    BY PlaneFound DEF TInv, LoopInv, Gridding
  <2> QED BY <2>1, GridFacts
<1>3. ASSUME NEW d \in Box(s)
      PROVE  q[d] = PointOf(id, 1, p, d) /\ q[d][3].id = id /\ q[d][1] < image_rows
  <2>1. q[d] = PointOf(id, 1, p, d)
    OBVIOUS
  <2>2. /\ PointOf(id, 1, p, d)[3].id = id
        /\ PointOf(id, 1, p, d)[1] = Pixel(1 * Rint(input.uv[id][2], Sub) + d[2])
    BY DEF PointOf
  <2>3. PICK y \in Int, o \in Int :
           y = 1 * Rint(input.uv[id][2], Sub) + d[2] /\ o = IF shift_uv THEN 0 ELSE half_image_size
    <3>1. input.uv[id][2] \in Int
      BY <1>1, InputOK
    <3>2. Rint(input.uv[id][2], Sub) \in Int
      BY <3>1, RintNear, GridFacts
    <3>3. d[2] \in Int
      BY <1>2 DEF Box
    <3>4. half_image_size \in Int
      BY GridFacts
    <3> HIDE DEF id, s
    <3> QED BY <3>2, <3>3, <3>4
  <2>4. Pixel(y) = (y + o) % image_size
    BY <2>3 DEF Pixel
  <2>5. (y + o) % image_size \in 0 .. image_size - 1
    BY Division, GridFacts
  <2>6. Pixel(y) < image_size
    BY <2>4, <2>5, GridFacts
  <2> HIDE DEF id, p, s, q
  <2> QED BY <1>1, <2>1, <2>2, <2>3, <2>6, Zenon
<1>4. ASSUME NEW d \in Box(s), NEW e \in Box(s), q[d] = q[e] PROVE d = e
  <2> DEFINE f == <<1, d>>
             g == <<1, e>>
  <2>1. f \in Halves(s) /\ g \in Halves(s) /\ f[1] = 1 /\ f[2] = d /\ g[1] = 1 /\ g[2] = e
    BY DEF Halves, Signs
  <2>2. PointOf(id, 1, p, d) = PointOf(id, 1, p, e)
    BY <1>3, <1>4
  <2> HIDE DEF id, p, s, q, f, g
  <2>3. PointOf(id, f[1], p, f[2]) = PointOf(id, g[1], p, g[2])
    BY <2>1, <2>2, Zenon
  <2>4. f = g
    BY <1>1, <1>2, <2>1, <2>3, SampleInjective
  <2> QED BY <2>1, <2>4
<1>5. its = {q[d] : d \in Box(s)}
  <2>1. ASSUME NEW c \in its PROVE c \in {q[d] : d \in Box(s)}
    <3>1. c \in vis_grid /\ c[3].id = id
      OBVIOUS
    <3>2. PICK l \in Vis : c \in Spread(vis[l].id, 1, PlaneAt(l), conv_support[PlaneAt(l)])
      BY <1>1, <3>1, InGrid
    <3>3. PICK d \in Box(conv_support[PlaneAt(l)]) : c = PointOf(vis[l].id, 1, PlaneAt(l), d)
      BY <3>2 DEF Spread
    <3>4. vis[l].id = vis[k].id
      BY <3>1, <3>3 DEF PointOf
    <3>5. l = k
      BY <3>4 DEF TInv, VisInv, TracksInv
    <3>6. d \in Box(s) /\ c = PointOf(id, 1, p, d)
      BY <3>3, <3>5
    <3>7. q[d] = c
      BY <1>3, <3>6
    <3> HIDE DEF id, p, s, q
    <3> QED BY <3>6, <3>7
  <2>2. ASSUME NEW d \in Box(s) PROVE q[d] \in its
    <3>1. q[d] = PointOf(id, 1, p, d) /\ q[d][3].id = id /\ q[d][1] < image_rows
      BY <1>3
    <3>2. q[d] \in Spread(vis[k].id, 1, PlaneAt(k), conv_support[PlaneAt(k)])
      BY <3>1 DEF Spread
    <3> HIDE DEF q
    <3>3. q[d] \in vis_grid
      BY <1>1, <3>1, <3>2, InGrid
    <3> QED BY <3>1, <3>3
  <2> HIDE DEF id, p, s, q, its
  <2> QED BY <2>1, <2>2
<1>6. \A c \in its : w[c] = 1
  BY DEF Occurrences
<1>7. Samples(id) = SumOf(w, its)
  BY Zenon DEF Samples
<1> HIDE DEF id, p, s, q, its, w
<1>8. IsFiniteSet(Box(s)) /\ Cardinality(Box(s)) = KernelArea(s)
  <2>1. IsFiniteSet(-s .. s) /\ Cardinality(-s .. s) = 2 * s + 1
    <3>1. IsFiniteSet(-s .. s) /\ Cardinality(-s .. s) = IF -s > s THEN 0 ELSE s - (-s) + 1
      BY <1>2, FS_Interval
    <3> QED BY <1>2, <3>1
  <2> QED BY <2>1, FS_Product DEF Box, KernelArea
<1>9. IsFiniteSet(its) /\ Cardinality(its) = KernelArea(s)
  <2>1. \A d, e \in Box(s) : q[d] = q[e] => d = e
    BY <1>4
  <2>2. /\ IsFiniteSet({q[d] : d \in Box(s)})
        /\ Cardinality({q[d] : d \in Box(s)}) = Cardinality(Box(s))
    BY <1>8, <2>1, ImageOneToOne
  <2> QED BY <1>5, <1>8, <2>2, Zenon
<1>10. SumOf(w, its) = 1 * KernelArea(s)
  BY <1>6, <1>9, SumConstant
<1>11. 1 * KernelArea(s) = KernelArea(s)
  <2>1. KernelArea(s) \in Int
    BY <1>9, FS_CardinalityType
  <2> QED BY <2>1
<1> QED BY <1>7, <1>10, <1>11, Zenon DEF id, s, p

(***************************************************************************)
(* sample_grid_total, computed before anything is gridded and doubled, is  *)
(* the sum of the sampling grid that a half-plane grid stands for: the     *)
(* rows at and below the 0-frequency that the gridders add to, of the      *)
(* visibility, of its conjugate or of both as good_vis decides, make two   *)
(* whole kernels of each visibility that the loop of the sum keeps, and    *)
(* none of one it drops.  On a full grid, which gets one of each, the      *)
(* total is twice the sum.                                                 *)
(***************************************************************************)
THEOREM SampleTotalComplete ==
  ASSUME Supported(Inputs)
  PROVE  Spec => []SampleTotalMatchesGrid
<1>1. TInv /\ GridInv => SampleTotalMatchesGrid
  <2> DEFINE copies == IF halfplane_gridding THEN 2 ELSE 1
             times  == IF halfplane_gridding THEN 1 ELSE 2
  <2> SUFFICES ASSUME TInv, GridInv, pc = "done"
               PROVE  TotalIsSamplingSum(times)
    BY DEF SampleTotalMatchesGrid
  <2>0. copies \in 0..2 /\ times \in Int /\ times * copies = 2
    OBVIOUS
  <2> DEFINE kernels == [id \in Vis |-> IF id \in InBounds THEN copies ELSE 0]
             counted == [id \in Vis |-> kernels[id] * input.weights[id]]
             good    == {k \in Vis : good_vis[k] # 0}
             idOf    == [k \in Vis |-> vis[k].id]
  <2>1. /\ IsFiniteSet(Vis) /\ input.weights \in [Vis -> Int] /\ vis_weights \in [Vis -> Int]
        /\ \A k \in Vis : vis[k].id \in Vis /\ vis_weights[k] = input.weights[vis[k].id]
        /\ \A k, l \in Vis : vis[k].id = vis[l].id => k = l
    BY InputOK DEF TInv, VisInv, TracksInv, Tracks
  <2>2. InBounds \subseteq Vis /\ good \subseteq Vis
    BY DEF InBounds
  <2>3. \A k \in Vis : k \in good <=> vis[k].id \in InBounds
    BY InBoundsGood DEF Unplaced
  <2>4. \A id \in Vis : \E k \in Vis : vis[k].id = id
    BY IdsAll
  <2>5. kernels \in [Vis -> 0..2]
    BY <2>0
  <2>6. ASSUME NEW id \in Vis
        PROVE  Samples(id) = kernels[id] * KernelArea(conv_support[PlaneOf(id)])
    <3>1. PICK k \in Vis : vis[k].id = id
      BY <2>4
    <3> DEFINE p == PlaneOf(id)
    <3>2. p = PlaneAt(k) /\ conv_support[p] \in 1 .. max_support
      BY <3>1, PlaneOfId, PlaneFound DEF TInv, LoopInv, Gridding
    <3>3. CASE id \in InBounds
      <4>1. kernels[id] = copies /\ good_vis[k] # 0
        BY <2>3, <3>1, <3>3
      <4>2. Samples(vis[k].id) = copies * KernelArea(conv_support[PlaneAt(k)])
        <5>1. CASE halfplane_gridding
          BY <4>1, <5>1, SamplesTwice
        <5>2. CASE ~ halfplane_gridding
          <6>1. Samples(vis[k].id) = KernelArea(conv_support[PlaneAt(k)])
            BY <4>1, <5>2, SamplesOnce
          <6>2. 1 * KernelArea(conv_support[PlaneAt(k)]) = KernelArea(conv_support[PlaneAt(k)])
            <7>1. PICK s \in Int : s = conv_support[PlaneAt(k)]
              BY <3>2
            <7>2. PICK a \in Int : a = (2 * s + 1) * (2 * s + 1)
              BY <7>1
            <7>3. 1 * a = a
              BY <7>2
            <7> QED BY <7>1, <7>2, <7>3, Zenon DEF KernelArea
          <6> QED BY <5>2, <6>1, <6>2
        <5> QED BY <5>1, <5>2
      <4> HIDE DEF kernels, copies
      <4> QED BY <3>1, <3>2, <4>1, <4>2, Zenon
    <3>4. CASE id \notin InBounds
      <4>1. ASSUME NEW c \in vis_grid, c[3].id = id PROVE FALSE
        <5>1. PICK l \in Vis, sign \in SignSet :
                 /\ good_vis[l] # 0
                 /\ c \in Spread(vis[l].id, sign, PlaneAt(l), conv_support[PlaneAt(l)])
          BY InGrid
        <5>2. c[3].id = vis[l].id
          BY <5>1 DEF Spread, PointOf
        <5> QED BY <2>3, <3>4, <4>1, <5>1, <5>2
      <4>2. {c \in vis_grid : c[3].id = id} = {}
        BY <4>1
      <4>3. Samples(id) = 0
        BY <4>2, SumEmpty, Zenon DEF Samples
      <4>4. KernelArea(conv_support[p]) \in Int
        <5>1. PICK s \in Int : s = conv_support[p]
          BY <3>2
        <5>2. (2 * s + 1) * (2 * s + 1) \in Int
          BY SMT
        <5> QED BY <5>1, <5>2 DEF KernelArea
      <4>5. kernels[id] = 0
        BY <3>4
      <4> HIDE DEF kernels
      <4> QED BY <4>3, <4>4, <4>5
    <3> QED BY <3>3, <3>4
  <2>7. SumOf(input.weights, InBounds) = SumOf(vis_weights, good)
    <3>1. {idOf[k] : k \in good} = InBounds
      <4>1. ASSUME NEW id PROVE id \in {idOf[k] : k \in good} <=> id \in InBounds
        <5>1. \A k \in good : idOf[k] = vis[k].id /\ k \in Vis
          OBVIOUS
        <5> HIDE DEF idOf, good
        <5> QED BY <2>2, <2>3, <2>4, <5>1
      <4> QED BY <4>1
    <3>2. \A k \in good : idOf[k] = vis[k].id /\ k \in Vis
      OBVIOUS
    <3>3. IsFiniteSet(good)
      BY <2>1, <2>2, FS_Subset
    <3> HIDE DEF idOf, good
    <3>4. \A k, l \in good : idOf[k] = idOf[l] => k = l
      BY <2>1, <3>2
    <3>5. \A k \in good : vis_weights[k] \in Int /\ vis_weights[k] = input.weights[idOf[k]]
      BY <2>1, <3>2
    <3>6. SumOf(input.weights, {idOf[k] : k \in good}) = SumOf(vis_weights, good)
      BY <3>3, <3>4, <3>5, SumImage
    <3> QED BY <3>1, <3>6, Zenon
  <2>8. SumOf(input.weights, InBounds) \in Int /\ IsFiniteSet(InBounds)
    <3>1. IsFiniteSet(InBounds)
      BY <2>1, <2>2, FS_Subset
    <3>2. \A id \in InBounds : input.weights[id] \in Int
      BY <2>1, <2>2
    <3> QED BY <3>1, <3>2, SumIsInt
  <2>9. SumOf(counted, Vis) = copies * SumOf(input.weights, InBounds)
    <3>1. /\ \A id \in InBounds : counted[id] = copies * input.weights[id]
          /\ \A id \in Vis \ InBounds : counted[id] = 0
          /\ \A id \in Vis : input.weights[id] \in Int
      <4>1. \A id \in Vis : input.weights[id] \in Int
        BY <2>1
      <4>2. \A id \in Vis : counted[id] = (IF id \in InBounds THEN copies ELSE 0) * input.weights[id]
        OBVIOUS
      <4> HIDE DEF counted, copies
      <4> QED BY <2>2, <4>1, <4>2
    <3>2. \A id \in Vis : counted[id] \in Int
      <4> HIDE DEF counted, copies
      <4> QED BY ONLY <2>0, <2>2, <3>1
    <3> HIDE DEF counted, copies, times
    <3>3. SumOf(counted, Vis) = SumOf(counted, InBounds)
      BY <2>1, <2>2, <3>1, <3>2, SumWithout
    <3>4. IsLinear(counted, input.weights, input.weights, InBounds, copies, 0, 0)
      <4>1. \A id \in InBounds :
               /\ input.weights[id] \in Int
               /\ counted[id] = copies * input.weights[id] + 0 * input.weights[id] + 0
               /\ counted[id] \in Int
        BY <2>0, <2>2, <3>1, <3>2
      <4> QED BY <4>1 DEF IsLinear
    <3>5. SumOf(counted, InBounds)
            = copies * SumOf(input.weights, InBounds) + 0 * SumOf(input.weights, InBounds)
                + 0 * Cardinality(InBounds)
      BY <2>0, <2>8, <3>4, SumLinear
    <3>6. PICK x \in Int, c \in Int, m \in Int :
             x = SumOf(input.weights, InBounds) /\ c = Cardinality(InBounds) /\ m = copies
      BY <2>0, <2>8, FS_CardinalityType
    <3>7. m * x + 0 * x + 0 * c = m * x
      BY <3>6
    <3> QED BY <3>3, <3>5, <3>6, <3>7, Zenon
  <2>10. sample_grid_total = 2 * SumOf(vis_weights, good)
    BY DEF TInv, VisInv, PlaceInv, Unplaced
  <2> HIDE DEF good, idOf
  <2>11. sample_grid_total = times * SumOf(counted, Vis)
    <3>1. PICK x \in Int : x = SumOf(input.weights, InBounds)
      BY <2>8
    <3>2. times * (copies * x) = 2 * x
      BY <3>1
    <3> HIDE DEF counted, copies, times
    <3> QED BY <2>7, <2>9, <2>10, <3>1, <3>2, Zenon
  <2>12. sample_grid_total = times * SumOf([id \in Vis |-> kernels[id] * input.weights[id]], Vis)
    BY <2>11, Zenon
  <2> HIDE DEF kernels, counted, copies, times
  <2> QED BY <2>5, <2>6, <2>12, Zenon DEF TotalIsSamplingSum
<1> QED BY <1>1, TInvInit, TInvStep, GridInvInit, GridInvStep, PTL DEF Spec

------------------------------------------------------------------------------
LEMMA DisplacementEven ==
  ASSUME NEW dx \in Int, NEW dy \in Int
  PROVE  Displacement(-dx, -dy) = Displacement(dx, dy)
<1>1. CASE dx < 0
  BY <1>1 DEF Displacement
<1>2. CASE dx > 0
  BY <1>2 DEF Displacement
<1>3. CASE dx = 0
  <2> DEFINE zero(z) == z <= 0 /\ z >= 0
  <2>0. zero(dx) /\ (dy = 0 => zero(dy)) /\ \A z \in Int : zero(z) => -z = z
    BY <1>3
  <2> HIDE DEF zero
  <2>1. -dx = dx /\ -(-dy) = dy /\ -dy \in Int /\ (dy = 0 => -dy = dy)
    <3>1. -(-dy) = dy /\ -dy \in Int
      OBVIOUS
    <3> QED BY ONLY <2>0, <3>1, dx \in Int, dy \in Int, Zenon
  <2>2. \A y \in Int : Displacement(dx, y) = IF y < 0 THEN <<dx, -y>> ELSE <<dx, y>>
    BY <1>3, <2>1 DEF Displacement
  <2>3. Displacement(-dx, -dy) = IF -dy < 0 THEN <<dx, dy>> ELSE <<dx, -dy>>
    BY <2>1, <2>2
  <2>4. CASE dy < 0
    BY <2>2, <2>3, <2>4
  <2>5. CASE dy > 0
    BY <2>2, <2>3, <2>5
  <2>6. CASE dy = 0
    BY <2>1, <2>2, <2>3, <2>6
  <2> QED BY <2>4, <2>5, <2>6
<1> QED BY <1>1, <1>2, <1>3

LEMMA PixelOpposite ==
  ASSUME NEW x \in Int, shift_uv
  PROVE  Pixel(-x) = (image_size - Pixel(x)) % image_size /\ Pixel(x) \in 0 .. image_size - 1
<1> DEFINE m == image_size
<1>1. m \in Nat \ {0}
  BY GridFacts
<1>2. Pixel(x) = x % m /\ Pixel(-x) = (-x) % m
  <2>1. x + 0 = x /\ -x + 0 = -x
    OBVIOUS
  <2> QED BY <2>1 DEF Pixel
<1> HIDE DEF m
<1>3. x \div m \in Int /\ x % m \in 0 .. m - 1 /\ x = m * (x \div m) + (x % m)
  BY <1>1, Division
<1>4. PICK a \in Int, q \in 0 .. m - 1 : q = x % m /\ x = m * a + q
  BY <1>3
<1>5. PICK y \in Int : y = -x
  OBVIOUS
<1>6. y \div m \in Int /\ y % m \in 0 .. m - 1 /\ y = m * (y \div m) + (y % m)
  BY <1>1, Division
<1>7. PICK b \in Int, r \in 0 .. m - 1 : r = y % m /\ y = m * b + r
  BY <1>6
<1>8. m * (a + b) = m * a + m * b /\ m * a \in Int /\ m * b \in Int /\ m * (a + b) \in Int
  BY <1>1
<1>9. m * (a + b) = -(q + r)
  <2>1. PICK u \in Int, v \in Int, w \in Int : u = m * a /\ v = m * b /\ w = m * (a + b)
    BY <1>8
  <2>2. x = u + q /\ y = v + r /\ w = u + v
    BY <1>4, <1>7, <1>8, <2>1
  <2>3. w = -(q + r)
    BY ONLY <1>5, <2>2, u \in Int, v \in Int, w \in Int, q \in 0 .. m - 1, r \in 0 .. m - 1, x \in Int,
            m \in Nat \ {0}
  <2> QED BY <2>1, <2>3
<1>10. r = (m - q) % m
  <2>1. CASE q = 0
    <3>1. (0 + m) % m = 0 % m
      BY <1>1, ModAdd
    <3>2. 0 % m = 0
      BY <1>1, SignedResidue
    <3>3. m - q = 0 + m
      BY <1>1, <2>1
    <3>4. a + b = 0
      <4>1. a + b \in Int /\ m * (a + b) > -m /\ m * (a + b) < m
        BY <1>1, <1>9, <2>1
      <4> QED BY <1>1, <4>1, SmallMultiple
    <3>5. m * (a + b) = 0
      BY <1>1, <3>4
    <3>6. r = 0
      BY <1>1, <1>9, <2>1, <3>5
    <3> QED BY <3>1, <3>2, <3>3, <3>6
  <2>2. CASE q # 0
    <3>1. PICK t \in Int : t = m - q /\ 0 <= t /\ t < m
      BY <1>1, <2>2
    <3>2. t % m = t
      BY <1>1, <3>1, SignedResidue
    <3>3. m * (a + b + 1) = m * (a + b) + m
      BY <1>1
    <3>4. a + b + 1 = 0
      <4>1. a + b + 1 \in Int /\ m * (a + b + 1) > -m /\ m * (a + b + 1) < m
        BY <1>1, <1>8, <1>9, <2>2, <3>3
      <4> QED BY <1>1, <4>1, SmallMultiple
    <3>5. m * (a + b + 1) = 0
      BY <1>1, <3>4
    <3>6. r = m - q
      BY <1>1, <1>8, <1>9, <3>3, <3>5
    <3> QED BY <3>1, <3>2, <3>6
  <2> QED BY <2>1, <2>2
<1>11. Pixel(-x) = r /\ Pixel(x) = q
  BY <1>2, <1>4, <1>5, <1>7
<1> QED BY <1>10, <1>11 DEF m

\* The contribution of the conjugate visibility to the opposite pixel.
Mirror(c) ==
  <<(image_size - c[1]) % image_size, (image_size - c[2]) % image_size,
    [c[3] EXCEPT !.conj = ~ @, !.conj_kernel = use_wproj /\ ~ @]>>

LEMMA PointOpposite ==
  ASSUME input \in Inputs, NEW id \in Vis, NEW sign \in Signs, NEW p, NEW s \in 1 .. max_support,
         NEW d \in Box(s), shift_uv, ~ (use_wproj /\ input.w[id] = 0),
         NEW c, c = PointOf(id, sign, p, d), NEW e, e = <<-d[1], -d[2]>>
  PROVE  /\ e \in Box(s) /\ -sign \in Signs
         /\ c[1] \in 0 .. image_size - 1
         /\ PointOf(id, -sign, p, e)
              = Mirror(c)
<1>1. PICK x \in Int, y \in Int : d = <<x, y>> /\ x \in -s .. s /\ y \in -s .. s /\ d[1] = x /\ d[2] = y
  BY GridFacts DEF Box
<1>2. e = <<-x, -y>> /\ e[1] = -x /\ e[2] = -y /\ e \in Box(s)
  BY <1>1, GridFacts DEF Box
<1>3. PICK ru \in Int, rv \in Int, nu \in Int, nv \in Int, w \in Int :
         /\ ru = Rint(input.uv[id][1], Sub) /\ rv = Rint(input.uv[id][2], Sub)
         /\ nu = Nearest(input.uv[id][1]) /\ nv = Nearest(input.uv[id][2])
         /\ w = input.w[id]
  BY InputOK, RintNear, NearestOdd, GridFacts
<1>4. PICK os \in Int : os = Unit
  BY InputOK, GridFacts DEF Unit
<1>5. use_wproj \in BOOLEAN
  BY InputOK
<1>6. ASSUME NEW t \in Int, NEW z, z = PointOf(id, t, p, d)
      PROVE  z = <<Pixel(t * rv + y), Pixel(t * ru + x),
                   [id |-> id, conj |-> t = -1, weight |-> input.weights[id],
                    kernel |-> Displacement(os * x - t * nu, os * y - t * nv),
                    conj_kernel |-> use_wproj /\ t * w < 0, plane |-> p]>>
  BY <1>1, <1>3, <1>4, <1>6, Zenon DEF PointOf
<1>7. ASSUME NEW t \in Int
      PROVE  PointOf(id, t, p, e) = <<Pixel(t * rv + -y), Pixel(t * ru + -x),
                   [id |-> id, conj |-> t = -1, weight |-> input.weights[id],
                    kernel |-> Displacement(os * (-x) - t * nu, os * (-y) - t * nv),
                    conj_kernel |-> use_wproj /\ t * w < 0, plane |-> p]>>
  BY <1>2, <1>3, <1>4, Zenon DEF PointOf
<1>8. PICK t \in {1, -1} : t = sign /\ -t \in {1, -1}
  <2>1. sign \in {1, -1} /\ -sign \in {1, -1}
    <3>1. sign = 1 \/ sign = -1
      BY DEF Signs
    <3> QED BY <3>1
  <2> QED BY <2>1
<1>9. PICK a \in Int, b \in Int : a = t * rv + y /\ b = t * ru + x /\ (-t) * rv + -y = -a /\ (-t) * ru + -x = -b
  <2>1. CASE t = 1
    <3>1. t * rv + y = rv + y /\ t * ru + x = ru + x /\ (-t) * rv + -y = -(rv + y) /\ (-t) * ru + -x = -(ru + x)
      BY <2>1
    <3> QED BY <3>1
  <2>2. CASE t = -1
    <3>1. /\ t * rv + y = y - rv /\ t * ru + x = x - ru
          /\ (-t) * rv + -y = -(y - rv) /\ (-t) * ru + -x = -(x - ru)
      BY <2>2
    <3> QED BY <3>1
  <2> QED BY <2>1, <2>2
<1>10. PICK f \in Int, g \in Int : /\ f = os * x - t * nu /\ g = os * y - t * nv
                                   /\ os * (-x) - (-t) * nu = -f /\ os * (-y) - (-t) * nv = -g
  <2>1. PICK ox \in Int, oy \in Int : ox = os * x /\ oy = os * y /\ os * (-x) = -ox /\ os * (-y) = -oy
    <3>1. os * x \in Int /\ os * y \in Int /\ os * (-x) = -(os * x) /\ os * (-y) = -(os * y)
      OBVIOUS
    <3> QED BY <3>1
  <2>2. PICK tu \in Int, tv \in Int : tu = t * nu /\ tv = t * nv /\ (-t) * nu = -tu /\ (-t) * nv = -tv
    <3>1. CASE t = 1
      BY <3>1
    <3>2. CASE t = -1
      BY <3>2
    <3> QED BY <3>1, <3>2
  <2> QED BY <2>1, <2>2
<1>11. ((-t) = -1) = ~ (t = -1)
  BY <1>8
<1>12. (use_wproj /\ (-t) * w < 0) = (use_wproj /\ ~ (use_wproj /\ t * w < 0))
  <2>1. CASE use_wproj
    <3>1. w # 0
      BY <1>3, <2>1
    <3>2. CASE t = 1
      <4>1. t * w = w /\ (-t) * w = -w
        BY <3>2
      <4>2. (-t) * w < 0 <=> ~ (t * w < 0)
        BY <3>1, <4>1
      <4> QED BY <2>1, <4>2
    <3>3. CASE t = -1
      <4>1. t * w = -w /\ (-t) * w = w
        BY <3>3
      <4>2. (-t) * w < 0 <=> ~ (t * w < 0)
        BY <3>1, <4>1
      <4> QED BY <2>1, <4>2
    <3> QED BY <1>8, <3>2, <3>3
  <2>2. CASE ~ use_wproj
    BY <2>2
  <2> QED BY <2>1, <2>2
<1>13. c = <<Pixel(a), Pixel(b),
             [id |-> id, conj |-> t = -1, weight |-> input.weights[id], kernel |-> Displacement(f, g),
              conj_kernel |-> use_wproj /\ t * w < 0, plane |-> p]>>
  <2>1. t \in Int /\ c = PointOf(id, t, p, d)
    BY <1>8
  <2>2. c = <<Pixel(t * rv + y), Pixel(t * ru + x),
                   [id |-> id, conj |-> t = -1, weight |-> input.weights[id],
                    kernel |-> Displacement(os * x - t * nu, os * y - t * nv),
                    conj_kernel |-> use_wproj /\ t * w < 0, plane |-> p]>>
    BY <1>6, <2>1
  <2> QED BY ONLY <1>9, <1>10, <2>2, Zenon
<1>14. PointOf(id, -t, p, e)
         = <<Pixel(-a), Pixel(-b),
             [id |-> id, conj |-> (-t) = -1, weight |-> input.weights[id], kernel |-> Displacement(-f, -g),
              conj_kernel |-> use_wproj /\ (-t) * w < 0, plane |-> p]>>
  <2>1. -t \in Int
    BY <1>8
  <2>2. PointOf(id, -t, p, e) = <<Pixel((-t) * rv + -y), Pixel((-t) * ru + -x),
                   [id |-> id, conj |-> (-t) = -1, weight |-> input.weights[id],
                    kernel |-> Displacement(os * (-x) - (-t) * nu, os * (-y) - (-t) * nv),
                    conj_kernel |-> use_wproj /\ (-t) * w < 0, plane |-> p]>>
    BY <1>7, <2>1
  <2> QED BY ONLY <1>9, <1>10, <2>2, Zenon
<1>15. /\ Pixel(-a) = (image_size - Pixel(a)) % image_size /\ Pixel(a) \in 0 .. image_size - 1
       /\ Pixel(-b) = (image_size - Pixel(b)) % image_size
       /\ Displacement(-f, -g) = Displacement(f, g)
  BY PixelOpposite, DisplacementEven
<1>16. /\ c[1] = Pixel(a) /\ c[2] = Pixel(b)
       /\ [c[3] EXCEPT !.conj = ~ @, !.conj_kernel = use_wproj /\ ~ @]
            = [id |-> id, conj |-> ~ (t = -1), weight |-> input.weights[id], kernel |-> Displacement(f, g),
               conj_kernel |-> use_wproj /\ ~ (use_wproj /\ t * w < 0), plane |-> p]
  <2>1. PICK cj \in BOOLEAN, ck \in BOOLEAN : cj = (t = -1) /\ ck = (use_wproj /\ t * w < 0)
    <3>1. (t = -1) \in BOOLEAN /\ (use_wproj /\ t * w < 0) \in BOOLEAN
      BY <1>5
    <3> QED BY <3>1
  <2> DEFINE D == Displacement(f, g)
             R == [id |-> id, conj |-> cj, weight |-> input.weights[id], kernel |-> D, conj_kernel |-> ck, plane |-> p]
  <2>2. c = <<Pixel(a), Pixel(b), R>>
    BY ONLY <1>13, <2>1, Zenon
  <2> HIDE DEF D
  <2>3. [R EXCEPT !.conj = ~ @, !.conj_kernel = use_wproj /\ ~ @]
          = [id |-> id, conj |-> ~ cj, weight |-> input.weights[id], kernel |-> D,
             conj_kernel |-> use_wproj /\ ~ ck, plane |-> p]
    <3>1. PICK nj \in BOOLEAN, nk \in BOOLEAN : nj = (~ cj) /\ nk = (use_wproj /\ ~ ck)
      <4>1. (~ cj) \in BOOLEAN /\ (use_wproj /\ ~ ck) \in BOOLEAN
        BY <1>5
      <4> QED BY <4>1
    <3>2. R.conj = cj /\ R.conj_kernel = ck
      OBVIOUS
    <3>3. [R EXCEPT !.conj = nj, !.conj_kernel = nk]
            = [id |-> id, conj |-> nj, weight |-> input.weights[id], kernel |-> D, conj_kernel |-> nk, plane |-> p]
      <4> DEFINE Q == [id |-> id, conj |-> nj, weight |-> input.weights[id], kernel |-> D, conj_kernel |-> ck, plane |-> p]
      <4>1. [R EXCEPT !.conj = nj] = Q
        OBVIOUS
      <4>2. [Q EXCEPT !.conj_kernel = nk]
              = [id |-> id, conj |-> nj, weight |-> input.weights[id], kernel |-> D, conj_kernel |-> nk, plane |-> p]
        OBVIOUS
      <4> HIDE DEF R, Q
      <4>3. [R EXCEPT !.conj = nj, !.conj_kernel = nk] = [[R EXCEPT !.conj = nj] EXCEPT !.conj_kernel = nk]
        OBVIOUS
      <4> QED BY ONLY <4>1, <4>2, <4>3, Zenon
    <3> HIDE DEF R
    <3>4. [R EXCEPT !.conj = ~ @, !.conj_kernel = use_wproj /\ ~ @]
            = [R EXCEPT !.conj = ~ cj, !.conj_kernel = use_wproj /\ ~ ck]
      BY ONLY <3>2, Zenon
    <3> QED BY ONLY <3>1, <3>3, <3>4, Zenon
  <2>4. c[1] = Pixel(a) /\ c[2] = Pixel(b) /\ c[3] = R
    BY <2>2
  <2> HIDE DEF R
  <2> QED BY ONLY <2>1, <2>3, <2>4, Zenon DEF D
<1>17. PointOf(id, -t, p, e)
         = <<(image_size - c[1]) % image_size, (image_size - c[2]) % image_size,
             [c[3] EXCEPT !.conj = ~ @, !.conj_kernel = use_wproj /\ ~ @]>>
  BY ONLY <1>11, <1>12, <1>14, <1>15, <1>16, Zenon
<1>18. c[1] \in 0 .. image_size - 1
  BY <1>15, <1>16
<1>19. PointOf(id, -sign, p, e) = Mirror(c)
  BY ONLY <1>8, <1>17, Zenon DEF Mirror
<1> QED BY <1>2, <1>8, <1>18, <1>19 DEF Signs

(***************************************************************************)
(* Row 0 of a half-plane grid is Hermitian, as the c2r FFT of the imager   *)
(* supposes: a visibility whose kernel reaches row 0 has good_vis 2, and   *)
(* the second copy's centre, image_size - kc, sub-pixel offset and sign of *)
(* w are those of the conjugate.                                           *)
(***************************************************************************)
THEOREM RowZeroIsHermitian ==
  ASSUME Supported(Inputs)
  PROVE  Spec => []RowZeroHermitian
<1>1. TInv /\ GridInv => RowZeroHermitian
  <2> SUFFICES ASSUME TInv, GridInv, pc = "done", halfplane_gridding, NEW c \in vis_grid,
                      c[1] = 0, ~ (use_wproj /\ input.w[c[3].id] = 0)
               PROVE  <<0, (image_size - c[2]) % image_size,
                        [c[3] EXCEPT !.conj = ~ @, !.conj_kernel = use_wproj /\ ~ @]>> \in vis_grid
    BY DEF RowZeroHermitian
  <2>1. PICK k \in Vis, sign \in SignSet :
           /\ good_vis[k] # 0
           /\ c \in Spread(vis[k].id, sign, PlaneAt(k), conv_support[PlaneAt(k)])
    BY InGrid
  <2>2. input \in Inputs /\ vis[k].id \in Vis /\ conv_support[PlaneAt(k)] \in 1 .. max_support
    BY PlaneFound DEF TInv, VisInv, TracksInv, LoopInv, Gridding
  <2>3. shift_uv /\ image_rows = half_image_size + 1
    BY <2>2 DEF Supported, shift_uv, halfplane_gridding, image_rows
  <2> DEFINE id == vis[k].id
             p  == PlaneAt(k)
             s  == conv_support[p]
  <2> HIDE DEF p, s
  <2>4. PICK d \in Box(s) : c = PointOf(id, sign, p, d)
    BY <2>1 DEF Spread, p, s
  <2>5. c[3].id = id
    BY <2>4 DEF PointOf
  <2> HIDE DEF id
  <2>6. id \in Vis /\ s \in 1 .. max_support /\ sign \in Signs /\ SignSet = Signs
        /\ ~ (use_wproj /\ input.w[id] = 0)
    BY <2>2, <2>5 DEF id, p, s, SignSet, Signs
  <2> DEFINE e == <<-d[1], -d[2]>>
             m == PointOf(id, -sign, p, e)
  <2>7. e \in Box(s) /\ -sign \in Signs /\ m = Mirror(c)
    <3>1. e = <<-d[1], -d[2]>>
      OBVIOUS
    <3> HIDE DEF e
    <3>2. e \in Box(s) /\ -sign \in Signs /\ PointOf(id, -sign, p, e) = Mirror(c)
      BY <2>2, <2>3, <2>4, <2>6, <3>1, PointOpposite
    <3> QED BY <3>2
  <2>8. (image_size - c[1]) % image_size = 0
    <3>1. (0 + image_size) % image_size = 0
      <4>1. image_size \in Nat \ {0} /\ 0 \in Int /\ -image_size <= 0 /\ 0 < image_size
        BY GridFacts
      <4>2. (0 + image_size) % image_size = 0 % image_size
        BY ONLY <4>1, ModAdd
      <4>3. 0 % image_size = 0
        BY ONLY <4>1, SignedResidue
      <4> QED BY <4>2, <4>3
    <3>2. image_size - c[1] = 0 + image_size
      BY GridFacts
    <3> QED BY <3>1, <3>2
  <2>9. m[1] = 0
    BY <2>7, <2>8 DEF Mirror
  <2>10. m \in Spread(id, -sign, p, s)
    BY <2>7 DEF Spread
  <2> HIDE DEF m, e
  <2>11. m \in vis_grid
    <3>1. m[1] < image_rows
      BY <2>3, <2>9, GridFacts
    <3>2. m \in Spread(vis[k].id, -sign, PlaneAt(k), conv_support[PlaneAt(k)])
      BY <2>10 DEF id, p, s
    <3> QED BY <2>1, <2>6, <2>7, <3>1, <3>2, InGrid
  <2>12. m = <<0, (image_size - c[2]) % image_size,
               [c[3] EXCEPT !.conj = ~ @, !.conj_kernel = use_wproj /\ ~ @]>>
    BY <2>7, <2>8, Zenon DEF Mirror
  <2> QED BY <2>11, <2>12, Zenon
<1> QED BY <1>1, TInvInit, TInvStep, GridInvInit, GridInvStep, PTL DEF Spec

------------------------------------------------------------------------------
(***************************************************************************)
(* The planes: the good visibilities are the first ones in |w|.            *)
(***************************************************************************)

\* A set of positions without gaps.
LEMMA InitialSegment ==
  ASSUME NEW b \in Nat, NEW S \in SUBSET (0 .. b - 1),
         \A l \in S : \A k \in 0 .. l : k \in S
  PROVE  S = 0 .. Cardinality(S) - 1
<1>1. CASE S = {}
  BY <1>1, FS_EmptySet
<1>2. CASE S # {}
  <2>1. PICK m \in S : \A k \in S : k <= m
    <3>1. S \subseteq Int /\ b \in Int /\ \A x \in S : x <= b
      OBVIOUS
    <3>2. \E m \in S : \A k \in S : k <= m
      BY ONLY <1>2, <3>1, Greatest
    <3> QED BY <3>2
  <2>2. S = 0 .. m
    <3>1. S \subseteq 0 .. m
      BY <2>1
    <3>2. 0 .. m \subseteq S
      OBVIOUS
    <3> QED BY ONLY <3>1, <3>2
  <2>3. Cardinality(0 .. m) = m + 1
    <3>1. 0 \in Int /\ m \in Int /\ m >= 0
      OBVIOUS
    <3> QED BY <3>1, FS_Interval
  <2> QED BY <2>2, <2>3
<1> QED BY <1>1, <1>2

LEMMA GoodAreFirst ==
  NearFirst(Inputs) /\ TInv /\ use_wproj /\ pc \notin Unplaced => PP!GoodFirst
<1> SUFFICES ASSUME NearFirst(Inputs), TInv, use_wproj, pc \notin Unplaced PROVE PP!GoodFirst
  OBVIOUS
<1>1. input \in Inputs /\ n \in Nat /\ Vis = 0 .. n - 1 /\ IsFiniteSet(Vis)
  BY InputOK DEF TInv, VisInv, TracksInv
<1>2. /\ \A k \in InBounds : \A l \in Vis \ InBounds : Abs(input.w[k]) < Abs(input.w[l])
      /\ num_wplanes <= Cardinality(InBounds)
  <2>1. InBounds = {k \in DOMAIN input.uv : Fits(input.uv[k])}
    BY DEF InBounds, Vis
  <2> QED BY <1>1, <2>1 DEF NearFirst, use_wproj, num_wplanes, Vis
<1> DEFINE G == {k \in Vis : good_vis[k] # 0}
<1>3. PP!Good = G
  <2>1. DOMAIN good_vis = Vis
    BY DEF TInv, VisInv, TracksInv
  <2>2. PP!n = n
    BY <2>1, SameCardinality DEF PP!n, n
  <2> QED BY <1>1, <2>2 DEF PP!Good
<1>4. ASSUME NEW k \in Vis
      PROVE  /\ Abs(w_lambda[k]) = Abs(input.w[vis[k].id]) /\ vis[k].id \in Vis
             /\ Abs(w_lambda[k]) \in Int
             /\ k \in G <=> vis[k].id \in InBounds
  <2>1. Tracks(k) /\ vis[k].id \in Vis /\ input.w[vis[k].id] \in Int
    BY <1>1, InputOK DEF TInv, VisInv, TracksInv
  <2>2. w_lambda[k] = input.w[vis[k].id] \/ w_lambda[k] = -input.w[vis[k].id]
    BY <2>1 DEF Tracks
  <2>3. k \in G <=> vis[k].id \in InBounds
    BY InBoundsGood
  <2> QED BY <2>1, <2>2, <2>3, AbsNeg
<1>5. ASSUME NEW l \in G, NEW k \in 0 .. l PROVE k \in G
  <2>1. k \in Vis /\ l \in Vis /\ k \in Int /\ l \in Int /\ k <= l
    BY <1>1
  <2>2. CASE k < l
    <3>1. Abs(w_lambda[k]) <= Abs(w_lambda[l])
      BY <2>1, <2>2 DEF TInv, VisInv, SortInv, Unplaced
    <3>2. ASSUME k \notin G PROVE FALSE
      <4>1. vis[k].id \in Vis \ InBounds /\ vis[l].id \in InBounds
        BY <1>4, <2>1, <3>2
      <4>2. Abs(w_lambda[l]) < Abs(w_lambda[k])
        BY <1>2, <1>4, <2>1, <4>1
      <4> QED BY <1>4, <2>1, <3>1, <4>2
    <3> QED BY <3>2
  <2> QED BY <2>1, <2>2
<1> HIDE DEF G
<1>6. G = 0 .. Cardinality(G) - 1
  <2>1. G \in SUBSET (0 .. n - 1)
    BY <1>1 DEF G
  <2> QED BY <1>1, <1>5, <2>1, InitialSegment
<1>7. Cardinality(G) = Cardinality(InBounds)
  <2> DEFINE f == [k \in Vis |-> vis[k].id]
  <2>1. IsFiniteSet(G)
    BY <1>1, FS_Subset DEF G
  <2>2. \A k, l \in G : f[k] = f[l] => k = l
    BY DEF TInv, VisInv, TracksInv, G
  <2>3. {f[k] : k \in G} = InBounds
    <3>1. \A k \in G : f[k] \in InBounds
      BY <1>4 DEF G
    <3>2. \A id \in InBounds : \E k \in G : f[k] = id
      <4>1. \A id \in InBounds : \E k \in Vis : vis[k].id = id
        BY IdsAll DEF InBounds
      <4> QED BY <1>4, <4>1 DEF G
    <3> HIDE DEF f
    <3> QED BY <3>1, <3>2
  <2> HIDE DEF f
  <2> QED BY <2>1, <2>2, <2>3, ImageOneToOne
<1> QED BY <1>2, <1>3, <1>6, <1>7, SameCardinality DEF PP!GoodFirst

LEMMA FirstPlanes == PP!TInv /\ PP!GoodFirst /\ Planes!PlanesInit => PP!PInv
BY SameInit, PP!PInvStart

\* average_w_planes, in its own invariant.
AvgInv == use_wproj /\ pc \notin Unplaced => PP!PInv

LEMMA AvgKept ==
  ASSUME AvgInv, UNCHANGED <<input, good_vis, planevars>>, pc \notin Unplaced
  PROVE  AvgInv'
<1>1. UNCHANGED PP!vars /\ use_wproj' = use_wproj
  BY DEF PP!vars, PP!planevars, planevars, num_wplanes, median, use_wproj
<1>2. PP!PInv => PP!PInv'
  BY <1>1, PP!PInvStep
<1> QED BY <1>1, <1>2 DEF AvgInv

LEMMA AvgPlace ==
  ASSUME NearFirst(Inputs)
  PROVE  TInv /\ PlaceKernels => AvgInv'
<1> SUFFICES ASSUME TInv, PlaceKernels, use_wproj' PROVE PP!PInv'
  BY DEF AvgInv
<1>1. pc = "place" /\ pc' \notin Unplaced /\ input' = input /\ UNCHANGED planevars
  BY DEF PlaceKernels, Unplaced
<1>2. TInv'
  BY PlaceStep
<1>3. PP!TInv'
  BY <1>1, <1>2 DEF TInv, VisInv, PlaneInv
<1>4. (NearFirst(Inputs) /\ TInv /\ use_wproj /\ pc \notin Unplaced)'
  BY <1>1, <1>2
<1>5. PP!GoodFirst'
  BY <1>4, GoodAreFirst, PTL
<1>6. Planes!PlanesInit'
  <2>1. num_wplanes' = num_wplanes
    BY <1>1 DEF num_wplanes
  <2> QED BY <1>1, <2>1 DEF TInv, VisInv, PlaneInv, planevars, Planes!PlanesInit, Planes!Plane, Unplaced
<1>7. (PP!TInv /\ PP!GoodFirst /\ Planes!PlanesInit)'
  BY <1>3, <1>5, <1>6
<1> QED BY <1>7, FirstPlanes, PTL

LEMMA AvgAverage == TInv /\ AvgInv /\ AverageWPlanes => AvgInv'
<1> SUFFICES ASSUME TInv, AvgInv, AverageWPlanes PROVE AvgInv'
  OBVIOUS
<1>1. pc = "average" /\ pc \notin Unplaced /\ input' = input
  BY DEF AverageWPlanes, Unplaced
<1>2. CASE idx < num_wplanes
  <2>1. PP!NextPlane
    BY <1>2, SameNext DEF AverageWPlanes
  <2>2. use_wproj' = use_wproj
    BY <1>1 DEF use_wproj
  <2>3. PP!PInv => PP!PInv'
    BY <2>1, PP!PInvStep
  <2> QED BY <1>1, <2>2, <2>3 DEF AvgInv
<1>3. CASE ~ (idx < num_wplanes)
  BY <1>1, <1>3, AvgKept DEF AverageWPlanes
<1> QED BY <1>2, <1>3

LEMMA AvgInit == Init => AvgInv
BY DEF Init, AvgInv, Unplaced

LEMMA AvgStep ==
  ASSUME NearFirst(Inputs)
  PROVE  TInv /\ AvgInv /\ [Next]_vars => AvgInv'
<1> SUFFICES ASSUME TInv, AvgInv, [Next]_vars PROVE AvgInv'
  OBVIOUS
<1>1. CASE SortByAbsW \/ ConvertToHalfplane
  BY <1>1 DEF SortByAbsW, ConvertToHalfplane, AvgInv, Unplaced
<1>2. CASE PlaceKernels
  BY <1>2, AvgPlace
<1>3. CASE AverageWPlanes
  BY <1>3, AvgAverage
<1>4. CASE StartPlane \/ GridVisibility \/ EndPlane
  <2>1. pc \notin Unplaced /\ UNCHANGED <<input, good_vis, planevars>>
    BY <1>4 DEF StartPlane, GridVisibility, EndPlane, Unplaced
  <2> QED BY <2>1, AvgKept
<1>5. CASE Returned \/ UNCHANGED vars
  <2>1. UNCHANGED <<input, good_vis, planevars>> /\ pc' = pc
    BY <1>5 DEF Returned, vars
  <2>2. CASE pc \notin Unplaced
    BY <2>1, <2>2, AvgKept
  <2>3. CASE pc \in Unplaced
    BY <2>1, <2>3 DEF AvgInv, Unplaced
  <2> QED BY <2>2, <2>3
<1> QED BY <1>1, <1>2, <1>3, <1>4, <1>5 DEF Next

\* A later plane has later visibilities.
LEMMA PlanesFollow ==
  ASSUME TInv, pc = "done", NEW k \in Vis, NEW l \in Vis, PlaneAt(k) < PlaneAt(l)
  PROVE  k < l
<1>1. num_wplanes \in Nat \ {0} /\ n \in Nat /\ Vis = 0 .. n - 1
  BY InputOK DEF TInv, VisInv, TracksInv
<1>2. /\ firstidx \in [Plane -> 0 .. n]
      /\ \A q \in Plane : \A p \in 0 .. q : firstidx[p] <= firstidx[q]
  BY PlanesDivide DEF Gridding
<1>3. PICK p \in Plane : p = PlaneAt(k) /\ (p < num_wplanes - 1 => k < firstidx[p + 1])
  BY PlaneFound DEF Gridding
<1>4. PICK q \in Plane : q = PlaneAt(l) /\ firstidx[q] <= l
  BY PlaneFound DEF Gridding
<1>5. p + 1 \in 0 .. q /\ p + 1 \in Plane /\ p < num_wplanes - 1
  BY <1>1, <1>3, <1>4 DEF Plane
<1>6. firstidx[p + 1] <= firstidx[q] /\ firstidx[p + 1] \in Int /\ firstidx[q] \in Int
  BY <1>2, <1>5
<1> QED BY <1>1, <1>3, <1>4, <1>5, <1>6

(***************************************************************************)
(* With W-projection and the mean, a visibility is convolved with the      *)
(* kernel of the plane to whose average w it contributed, and the planes   *)
(* follow each other in |w|: average_w_planes and the loop over the planes *)
(* of convolve_to_grid divide the visibilities in the same way, if those   *)
(* out of bounds are the last in |w|.                                      *)
(***************************************************************************)
THEOREM PlaneIsOwn ==
  ASSUME Supported(Inputs), NearFirst(Inputs)
  PROVE  Spec => []OwnPlane
<1>1. TInv /\ GridInv /\ AvgInv => OwnPlane
  <2> SUFFICES ASSUME TInv, GridInv, AvgInv, pc = "done", use_wproj, ~ median
               PROVE  /\ \A c \in vis_grid : c[3].id \in {vis[k].id : k \in w_avg[c[3].plane]}
                      /\ \A c, d \in vis_grid :
                           c[3].plane < d[3].plane => Abs(input.w[c[3].id]) <= Abs(input.w[d[3].id])
    BY DEF OwnPlane
  <2>1. input \in Inputs /\ n \in Nat /\ Vis = 0 .. n - 1 /\ num_wplanes \in Nat \ {0}
    BY InputOK DEF TInv, VisInv, TracksInv
  <2>2. ASSUME NEW c \in vis_grid
        PROVE  \E k \in Vis : good_vis[k] # 0 /\ c[3].id = vis[k].id /\ c[3].plane = PlaneAt(k)
    <3>1. PICK k \in Vis, sign \in SignSet :
             good_vis[k] # 0 /\ c \in Spread(vis[k].id, sign, PlaneAt(k), conv_support[PlaneAt(k)])
      BY InGrid
    <3>2. c[3].id = vis[k].id /\ c[3].plane = PlaneAt(k)
      BY <3>1 DEF Spread, PointOf
    <3> QED BY <3>1, <3>2
  <2>3. ASSUME NEW k \in Vis, good_vis[k] # 0
        PROVE  k \in w_avg[PlaneAt(k)]
    <3>1. PICK p \in Plane : /\ p = PlaneAt(k) /\ firstidx[p] <= k
                             /\ p < num_wplanes - 1 => k < firstidx[p + 1]
      BY PlaneFound DEF Gridding
    <3>2. PP!PInv /\ idx = num_wplanes
      BY DEF AvgInv, Unplaced, Gridding, TInv, VisInv, PlaneInv
    <3>3. PP!n = n
      <4>1. DOMAIN good_vis = Vis
        BY DEF TInv, VisInv, TracksInv
      <4> QED BY <4>1, SameCardinality DEF PP!n, n
    <3>4. k \in PP!Members(p)
      <4>1. k \in PP!Good
        BY <2>1, <2>3, <3>3 DEF PP!Good
      <4>2. p # num_wplanes - 1 => p < num_wplanes - 1
        BY <2>1 DEF Plane
      <4> QED BY <2>1, <3>1, <3>3, <4>1, <4>2 DEF PP!Members
    <3>5. p \in PP!Plane
      BY DEF PP!Plane, Plane
    <3>6. PP!Members(p) = PP!Interval(p) /\ w_avg[p] = PP!Interval(p)
      BY <3>2, <3>5, PP!MembersInterval
    <3> QED BY <3>1, <3>4, <3>6
  <2>4. \A c \in vis_grid : c[3].id \in {vis[k].id : k \in w_avg[c[3].plane]}
    BY <2>2, <2>3
  <2>5. ASSUME NEW c \in vis_grid, NEW d \in vis_grid, c[3].plane < d[3].plane
        PROVE  Abs(input.w[c[3].id]) <= Abs(input.w[d[3].id])
    <3>1. PICK k \in Vis : c[3].id = vis[k].id /\ c[3].plane = PlaneAt(k)
      BY <2>2
    <3>2. PICK l \in Vis : d[3].id = vis[l].id /\ d[3].plane = PlaneAt(l)
      BY <2>2
    <3>3. k < l
      BY <2>5, <3>1, <3>2, PlanesFollow
    <3>4. Abs(w_lambda[k]) <= Abs(w_lambda[l])
      BY <3>3 DEF TInv, VisInv, SortInv
    <3>5. ASSUME NEW m \in Vis PROVE Abs(w_lambda[m]) = Abs(input.w[vis[m].id])
      <4>1. Tracks(m) /\ vis[m].id \in Vis /\ input.w[vis[m].id] \in Int
        BY <2>1, InputOK DEF TInv, VisInv, TracksInv
      <4>2. w_lambda[m] = input.w[vis[m].id] \/ w_lambda[m] = -input.w[vis[m].id]
        BY <4>1 DEF Tracks
      <4> QED BY <4>1, <4>2, AbsNeg
    <3> QED BY <3>1, <3>2, <3>4, <3>5
  <2> QED BY <2>4, <2>5
<1> QED
  BY <1>1, TInvInit, TInvStep, GridInvInit, GridInvStep, AvgInit, AvgStep, PTL DEF Spec
==============================================================================
