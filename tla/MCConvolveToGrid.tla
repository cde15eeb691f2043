--------------------------- MODULE MCConvolveToGrid --------------------------
EXTENDS ConvolveToGrid

\* One visibility anywhere, in bounds or not, on the grid of the imager: the
\* half-plane with its origin in the corner, and an oversampled kernel.
Anywhere ==
  LET coordinate == -(half_image_size * Sub) .. half_image_size * Sub
  IN  {[uv |-> [k \in {0} |-> <<u, v>>], w |-> [k \in {0} |-> 0], weights |-> [k \in {0} |-> 1],
        shift_uv |-> TRUE, halfplane_gridding |-> TRUE, kernel_exact |-> FALSE,
        oversampling |-> 2, use_wproj |-> FALSE, num_wplanes |-> 1, median |-> FALSE] :
         u, v \in coordinate}

\* The same without oversampling: the kernel is computed for each visibility.
Exact == {[i EXCEPT !.kernel_exact = TRUE, !.oversampling = 1] : i \in Anywhere}

\* The grid of the unit tests, with its origin in the middle.
FullPlane == {[i EXCEPT !.shift_uv = FALSE, !.halfplane_gridding = FALSE] : i \in Anywhere}

\* Three visibilities in bounds, near to and far from the 0-frequency, with w of
\* both signs and of equal absolute values, on two w-planes.  Sums of different weights
\* differ.
WProjection ==
  {[uv |-> uv, w |-> w, weights |-> [k \in 0..2 |-> 3^k],
    shift_uv |-> TRUE, halfplane_gridding |-> TRUE, kernel_exact |-> FALSE,
    oversampling |-> 2, use_wproj |-> TRUE, num_wplanes |-> 2, median |-> FALSE] :
     uv \in [0..2 -> {<<0, 0>>, <<6, -2>>, <<2, 13>>}], w \in [0..2 -> {-1, 0, 1}]}

\* The same with one more, out of bounds, farthest in w.
WProjectionMargin ==
  {[i EXCEPT !.uv = [k \in 0..3 |-> IF k = 3 THEN <<half_image_size * Sub, 0>> ELSE i.uv[k]],
             !.w  = [k \in 0..3 |-> IF k = 3 THEN 2 ELSE i.w[k]],
             !.weights = [k \in 0..3 |-> 3^k]] : i \in WProjection}

AllModes == Anywhere \union Exact \union FullPlane \union WProjection \union WProjectionMargin

ASSUME AllModesCalled == Supported(AllModes) /\ NearFirst(AllModes)

ShiftedFull == {[i EXCEPT !.halfplane_gridding = FALSE] : i \in Anywhere}
==============================================================================
