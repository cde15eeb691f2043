---------------------------- MODULE GridGeometry -----------------------------
(***************************************************************************)
(* Where a visibility falls on the grid: the index arithmetic of           *)
(* src/stp/gridder.                                                        *)
(*                                                                         *)
(* UV-coordinates are integers counting 1/Sub of a pixel.  Of a kernel     *)
(* only the place where it is evaluated matters: the displacement of a     *)
(* pixel from the visibility, up to its sign, for every kernel is          *)
(* symmetric about its centre.                                             *)
(***************************************************************************)
EXTENDS Integers

CONSTANTS
  image_size,
  Sub,
  max_support        \* conv_support before any truncation of the kernel

ASSUME GridAssumption ==
  /\ image_size \in Nat /\ image_size % 2 = 0
  /\ max_support \in Nat \ {0}
  /\ 2 * max_support + 1 < image_size
  /\ Sub \in Nat \ {0}

half_image_size == image_size \div 2

\* rint(a / b): to the nearest integer, ties to the even one.
Rint(a, b) ==
  LET f == a \div b
      r == a % b
  IN  IF 2 * r < b \/ (2 * r = b /\ f % 2 = 0) THEN f ELSE f + 1

------------------------------------------------------------------------------
(* Visibilities: a coordinate pair uv, and whether the value has been       *)
(* conjugated.                                                              *)

\* Mutant of NearZero: a pixel of the kernel is forgotten.
NearZeroShort(v) == -(max_support - 1) * Sub < v /\ v < (max_support - 1) * Sub

\* The kernel reaches the 0-frequency: both conjugates are gridded.
NearZero(v) == -(max_support + 1) * Sub < v /\ v < (max_support + 1) * Sub

KernelCentre(uv) ==
  <<Rint(uv[1], Sub) + half_image_size, Rint(uv[2], Sub) + half_image_size>>

UvFrac(x) == x - Sub * Rint(x, Sub)

\* Mutant of OutOfBounds: a kernel may touch the left and top margins.
OutOfBoundsLax(kc) ==
  \E a \in 1..2 : kc[a] - max_support < 0 \/ kc[a] + max_support >= image_size

OutOfBounds(kc) ==
  \E a \in 1..2 : kc[a] - max_support <= 0 \/ kc[a] + max_support >= image_size

\* Mutant of OversampledOffset: rounded down instead of to the nearest.
OversampledOffsetFloor(x, oversampling) ==
  (UvFrac(x) * oversampling) \div Sub + oversampling \div 2

\* calculate_oversampled_kernel_indices, moved to start at 0; oversampling is 1
\* or even.
OversampledOffset(x, oversampling) ==
  LET range_max == oversampling \div 2
      val       == Rint(UvFrac(x) * oversampling, Sub)
      clamped   == IF val > range_max THEN range_max
                   ELSE IF val < -range_max THEN -range_max ELSE val
  IN  clamped + range_max

\* fftshift of one coordinate.
Shifted(x) == IF x < half_image_size THEN x + half_image_size ELSE x - half_image_size

\* The kernel centre of the conjugate visibility, and its oversampled offset.
ConjCentre(kc) == <<image_size - kc[1], image_size - kc[2]>>

\* Mutant of ConjOffset: the same sub-pixel kernel serves both conjugates.
ConjOffsetSame(cp, oversampling) == cp

ConjOffset(cp, oversampling) ==
  IF oversampling > 1 THEN <<oversampling - cp[1], oversampling - cp[2]>> ELSE cp

------------------------------------------------------------------------------
(* The pixels of a kernel of support s centred at gc, on a grid of          *)
(* image_rows rows.                                                         *)

\* Mutant of WrappedCol: the part beyond the right margin is not moved.
WrappedColLeft(x) == IF x < 0 THEN x + image_size ELSE x

\* Left/right split of the kernel.
WrappedCol(x) ==
  IF x < 0 THEN x + image_size ELSE IF x >= image_size THEN x - image_size ELSE x

\* Mutant of GridRows: the kernel is not split between top and bottom.
GridRowsUnsplit(gc, s, image_rows) ==
  [i \in {x \in 0 .. 2 * s : gc - s + x \in 0 .. image_rows - 1} |-> gc - s + i]

\* The rows the oversampled gridder adds to, by the row i of the kernel; those
\* above the first row are left out.
GridRows(gc, s, image_rows) ==
  LET row(i) == IF gc - s + i >= image_size THEN gc - s + i - image_size ELSE gc - s + i
  IN  [i \in {x \in 0 .. 2 * s : gc - s + x >= 0 /\ row(x) < image_rows} |-> row(i)]

\* The rows the exact gridder adds to.
GridRowsExact(gc, s, image_rows) ==
  [i \in {x \in 0 .. 2 * s : WrappedCol(gc - s + x) < image_rows} |->
     WrappedCol(gc - s + i)]

\* The columns, by the column j of the kernel.
GridCols(gc, s) == [j \in 0 .. 2 * s |-> WrappedCol(gc - s + j)]

\* Displacements of opposite sign stand for the same kernel value.
Displacement(dx, dy) ==
  IF dx < 0 \/ (dx = 0 /\ dy < 0) THEN <<-dx, -dy>> ELSE <<dx, dy>>
==============================================================================
