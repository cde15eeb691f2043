------------------------------ MODULE MCLabeling -----------------------------
(***************************************************************************)
(* Families of small images for Labeling.  Rows and columns are those of   *)
(* the stored matrix; with quadrants swapped the middle of the sky is at   *)
(* the corners of the matrix, so the seams are where rows 0 and Height-1   *)
(* and columns 0 and width-1 meet.                                         *)
(***************************************************************************)
EXTENDS Labeling

Height == 4
Width == 4

Matrix(width) == (0 .. Height - 1) \X (0 .. width - 1)

\* Every image with the given values inside the area, and nothing outside.
ImagesOf(width, area, values) ==
  {[p \in Matrix(width) |-> IF p \in area THEN f[p] ELSE 0] : f \in [area -> values]}

\* labeling_4con without negative sources in the default build, two slices.
Call4(img) ==
  [rows |-> Height, cols |-> Width, image |-> img, slices |-> {0, Width \div 2},
   conn8 |-> FALSE, fftshift |-> FALSE, find_negative |-> FALSE]

Call8(img) == [Call4(img) EXCEPT !.conn8 = TRUE]

\* Every slice of the default build can hold the labels 4-connectivity asks for:
\* one for each pixel without a neighbour above it or on its left in the slice.
FitsCapacity(img) ==
  LET half == Width \div 2
  IN  \A k \in {0, half}, s \in Sign :
        LET column(c) == (c + half) % Width
            own == {p \in Matrix(Width) : img[p] = s /\ p[2] \in {column(k), column(k + 1)}}
            new == {p \in own :
                      /\ p[1] \in {0, Height \div 2} \/ <<p[1] - 1, p[2]>> \notin own
                      /\ p[2] = column(k) \/ <<p[1], column(k)>> \notin own}
        IN  Cardinality(new) < half * (Height \div 2)

\* Both rows at the row seam, and part of a third: every pattern meets the
\* seam, the border between slices and the margins of the sky.
Seam == {p \in Matrix(Width) : p[1] \in {0, Height - 1}}
MarginCalls ==
  {Call4(img) : img \in {i \in ImagesOf(Width, Seam \union {<<1, 0>>}, {0, 1}) : FitsCapacity(i)}}

\* Sources of both polarities along the border between the slices.
SignedCalls ==
  {[Call4(img) EXCEPT !.find_negative = TRUE] :
     img \in {i \in ImagesOf(Width, ({0, 3} \X {0, Width - 1}) \union {<<2, 0>>}, {-1, 0, 1}) : FitsCapacity(i)}}

\* labeling_8con without a source on the last row of the matrix.
OffSeamCalls ==
  {Call8(img) : img \in ImagesOf(Width, {0, 1} \X (0 .. Width - 1), {0, 1})}

\* A build with FFTSHIFT: the two columns at the border between the slices.
FftShiftCalls ==
  {[Call8(img) EXCEPT !.fftshift = TRUE] :
     img \in ImagesOf(Width, (0 .. Height - 1) \X {1, 2}, {0, 1})}

\* A comb: a row across three slices, and teeth of any length on its sides.
CombCalls ==
  LET width == 6
      spine == {<<0, c>> : c \in {0, 1, 3, 4, 5}}
      teeth == ({1} \X {0, 2, 4}) \union {<<Height - 1, 2>>}
  IN  {[Call4([p \in Matrix(width) |-> IF p \in spine \union S THEN 1 ELSE 0])
          EXCEPT !.cols = width, !.slices = {0, 2, 4}] : S \in SUBSET teeth}

AllCalls == MarginCalls \union SignedCalls \union OffSeamCalls \union FftShiftCalls \union CombCalls

\* A checkerboard, all of it or some of it.
CheckerCalls ==
  {Call4(img) :
     img \in ImagesOf(Width, {p \in Matrix(Width) : (p[1] + p[2]) % 2 = 0}, {0, 1})}

\* labeling_8con with any sources on either side of the row seam.
SeamCalls == {Call8(img) : img \in ImagesOf(Width, Seam, {0, 1})}
==============================================================================
