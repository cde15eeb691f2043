--------------------------- MODULE ConvolveToGrid ----------------------------
(***************************************************************************)
(* convolve_to_grid of src/stp/gridder/gridder.h, single-threaded          *)
(* (SERIAL_GRIDDER) and exact: from the visibilities to the grid.  The     *)
(* multi-threaded loop is ParallelGridder's.                               *)
(*                                                                         *)
(* The visibility with index k of the input is represented by k; weights   *)
(* are numbers.  A contribution to a pixel says what was multiplied to     *)
(* compute it.  The sampling grid gets the same contributions, without the *)
(* visibility.                                                             *)
(***************************************************************************)
EXTENDS GridGeometry, Sums

CONSTANT
  Inputs           \* the arguments considered: records of uv, w and weights
                   \* (functions on the indices of the visibilities) and of the options below

\* As convolve_to_grid asserts or makes them.
ASSUME ConvolveAssumption ==
  \A i \in Inputs :
    /\ IsFiniteSet(DOMAIN i.uv) /\ DOMAIN i.uv = 0 .. Cardinality(DOMAIN i.uv) - 1
    /\ i.uv \in [DOMAIN i.uv -> Int \X Int] /\ i.w \in [DOMAIN i.uv -> Int]
    /\ i.weights \in [DOMAIN i.uv -> Int]
    /\ i.shift_uv \in BOOLEAN /\ i.halfplane_gridding \in BOOLEAN /\ i.kernel_exact \in BOOLEAN
    /\ i.use_wproj \in BOOLEAN /\ i.median \in BOOLEAN
    /\ i.num_wplanes \in Nat \ {0}
    /\ i.oversampling \in Nat \ {0} /\ (i.oversampling = 1 \/ i.oversampling % 2 = 0)
    /\ i.use_wproj => ~ i.kernel_exact
    /\ ~ i.use_wproj => i.num_wplanes = 1
    /\ i.kernel_exact => i.oversampling = 1

VARIABLES
  input,           \* the arguments; the locals that follow start as copies
  pc,
  uv_lambda,
  w_lambda,
  vis,             \* [id, conj]: an input visibility or its conjugate
  vis_weights,
  good_vis,
  kernel_centre_on_grid,
  sample_grid_total,
  idx, begin, firstidx, w_avg,
  pi,              \* the plane being gridded
  conv_support,    \* its value while each plane is gridded
  vi,
  vis_grid,        \* {<<row, column, contribution>>}
  adds             \* number of += executed on vis_grid

planevars == <<idx, begin, firstidx, w_avg>>
gridvars  == <<conv_support, vi, vis_grid, adds>>
visvars   == <<uv_lambda, w_lambda, vis, vis_weights>>
vars == <<input, pc, visvars, good_vis, kernel_centre_on_grid, sample_grid_total,
          planevars, pi, gridvars>>

shift_uv           == input.shift_uv
halfplane_gridding == input.halfplane_gridding
kernel_exact       == input.kernel_exact
oversampling       == input.oversampling
use_wproj          == input.use_wproj
num_wplanes        == input.num_wplanes
median             == input.median

image_rows == IF halfplane_gridding THEN half_image_size + 1 ELSE image_size

Vis == DOMAIN input.uv

n == Cardinality(Vis)

Planes == INSTANCE WPlanes WITH Arguments <- {}

Plane == 0 .. num_wplanes - 1

Abs(x) == IF x < 0 THEN -x ELSE x

Init ==
  /\ input \in Inputs
  /\ pc = "sort"
  /\ uv_lambda = input.uv
  /\ w_lambda = input.w
  /\ vis = [k \in Vis |-> [id |-> k, conj |-> FALSE]]
  /\ vis_weights = input.weights
  /\ good_vis = [k \in Vis |-> 1]
  /\ kernel_centre_on_grid = [k \in Vis |-> <<0, 0>>]
  /\ sample_grid_total = 0
  /\ Planes!PlanesInit
  /\ pi = 0
  /\ conv_support = [p \in Plane |-> max_support]
  /\ vi = 0
  /\ vis_grid = {}
  /\ adds = 0

------------------------------------------------------------------------------
Permutation == {f \in [Vis -> Vis] : \A k, l \in Vis : f[k] = f[l] => k = l}

\* Mutant of SortIndex: by w and not by its absolute value.
SortIndexSigned(w) ==
  {f \in Permutation : \A k, l \in Vis : k < l => w[f[k]] <= w[f[l]]}

\* sort_index(abs(w_lambda)): not stable, so any order of equal values.
SortIndex(w) ==
  {f \in Permutation : \A k, l \in Vis : k < l => Abs(w[f[k]]) <= Abs(w[f[l]])}

Sorted(a, f) == [k \in Vis |-> a[f[k]]]

\* Mutant of SortedWeights: the weights stay in the order of the input.
UnsortedWeights(f) == vis_weights

SortedWeights(f) == Sorted(vis_weights, f)

SortByAbsW ==
  /\ pc = "sort"
  /\ IF use_wproj
     THEN \E f \in SortIndex(w_lambda) :
            /\ uv_lambda' = Sorted(uv_lambda, f)
            /\ w_lambda' = Sorted(w_lambda, f)
            /\ vis' = Sorted(vis, f)
            /\ vis_weights' = SortedWeights(f)
     ELSE UNCHANGED visvars
  /\ pc' = "halfplane"
  /\ UNCHANGED <<input, good_vis, kernel_centre_on_grid, sample_grid_total, planevars, pi,
                 gridvars>>

\* The two overloads of convert_to_halfplane_visibilities.
ConvertedW(inverted) ==
  [k \in Vis |-> IF use_wproj /\ k \in inverted THEN -w_lambda[k] ELSE w_lambda[k]]

ConvertToHalfplane ==
  /\ pc = "halfplane"
  /\ IF halfplane_gridding
     THEN LET inverted == {k \in Vis : uv_lambda[k][2] < 0}
          IN  /\ good_vis' = [k \in Vis |->
                                IF NearZero(uv_lambda[k][2]) THEN 2 ELSE good_vis[k]]
              /\ uv_lambda' = [k \in Vis |->
                                 IF k \in inverted
                                 THEN <<-uv_lambda[k][1], -uv_lambda[k][2]>>
                                 ELSE uv_lambda[k]]
              /\ w_lambda' = ConvertedW(inverted)
              /\ vis' = [k \in Vis |->
                           IF k \in inverted THEN [vis[k] EXCEPT !.conj = ~ @] ELSE vis[k]]
     ELSE UNCHANGED <<good_vis, uv_lambda, w_lambda, vis>>
  /\ pc' = "place"
  /\ UNCHANGED <<input, vis_weights, kernel_centre_on_grid, sample_grid_total, planevars, pi,
                 gridvars>>

\* Mutant of Summed: a visibility is counted as often as it is gridded.
SummedCopies(good) == 2 * SumOf([k \in Vis |-> good[k] * vis_weights[k]], Vis)

\* The sampled weights' total, doubled whether the grid is a half-plane or not.
Summed(good) == 2 * SumOf(vis_weights, {k \in Vis : good[k] # 0})

\* Kernel centres, their bounds, the shift and the sampled weights' total.
PlaceKernels ==
  /\ pc = "place"
  /\ LET centre == [k \in Vis |-> KernelCentre(uv_lambda[k])]
     IN  /\ kernel_centre_on_grid' =
              [k \in Vis |-> IF shift_uv
                             THEN <<Shifted(centre[k][1]), Shifted(centre[k][2])>>
                             ELSE centre[k]]
         /\ good_vis' = [k \in Vis |-> IF OutOfBounds(centre[k]) THEN 0 ELSE good_vis[k]]
  /\ sample_grid_total' = Summed(good_vis')
  /\ pc' = IF use_wproj THEN "average" ELSE "plane"
  /\ UNCHANGED <<input, visvars, planevars, pi, gridvars>>

\* average_w_planes, of which every step is a step of this program.
AverageWPlanes ==
  /\ pc = "average"
  /\ UNCHANGED input
  /\ IF idx < num_wplanes
     THEN Planes!NextPlane /\ pc' = pc
     ELSE pc' = "plane" /\ UNCHANGED <<good_vis, planevars>>
  /\ UNCHANGED <<visvars, kernel_centre_on_grid, sample_grid_total, pi, gridvars>>

\* The first visibility of the plane, and the kernels of the plane: the kernel
\* decides where it is truncated.
StartPlane ==
  /\ pc = "plane"
  /\ pi < num_wplanes
  /\ IF use_wproj
     THEN \E s \in 1..max_support : conv_support' = [conv_support EXCEPT ![pi] = s]
     ELSE UNCHANGED conv_support
  /\ vi' = firstidx[pi]
  /\ pc' = "grid"
  /\ UNCHANGED <<input, visvars, good_vis, kernel_centre_on_grid, sample_grid_total, planevars,
                 pi, vis_grid, adds>>

------------------------------------------------------------------------------
vi_end == IF pi = num_wplanes - 1 THEN n ELSE firstidx[pi + 1]

\* Where the kernel is evaluated at column (row) j of the array: oversampled,
\* by its sub-pixel offset in the cache; exact, by uv_frac itself.
KernelAt(j, s, offset, frac) ==
  IF kernel_exact THEN Sub * (j - s) - frac
  ELSE oversampling * (j - s) - (offset - oversampling \div 2)

\* Mutant of ConjW: the sign of w is not changed for the conjugate.
ConjWKept(w, gv) == w

ConjW(w, gv) == IF gv = 1 THEN -w ELSE w

\* The rows and columns covered for visibility k, or its conjugate when gv = 1.
Footprint(k, gv) ==
  LET gc == IF gv = 1 THEN ConjCentre(kernel_centre_on_grid[k]) ELSE kernel_centre_on_grid[k]
      s  == conv_support[pi]
  IN  [rows |-> IF kernel_exact THEN GridRowsExact(gc[2], s, image_rows)
               ELSE GridRows(gc[2], s, image_rows),
       cols |-> GridCols(gc[1], s)]

\* What is added to them.
Contributions(k, gv) ==
  LET s      == conv_support[pi]
      offset == [a \in 1..2 |-> OversampledOffset(uv_lambda[k][a], oversampling)]
      cp     == IF gv = 1 THEN ConjOffset(offset, oversampling) ELSE offset
      frac   == [a \in 1..2 |->
                   IF gv = 1 THEN -UvFrac(uv_lambda[k][a]) ELSE UvFrac(uv_lambda[k][a])]
      fp     == Footprint(k, gv)
  IN  {<<fp.rows[ij[1]], fp.cols[ij[2]],
         [id     |-> vis[k].id,
          conj   |-> vis[k].conj # (gv = 1),
          weight |-> vis_weights[k],
          kernel |-> Displacement(KernelAt(ij[2], s, cp[1], frac[1]),
                                  KernelAt(ij[1], s, cp[2], frac[2])),
          conj_kernel |-> use_wproj /\ ConjW(w_lambda[k], gv) < 0,
          plane  |-> pi]>> :
         ij \in (DOMAIN fp.rows) \X (DOMAIN fp.cols)}

GridVisibility ==
  /\ pc = "grid"
  /\ vi < vi_end
  /\ LET copies == 0 .. good_vis[vi] - 1
         size == [gv \in copies |->
                    Cardinality((DOMAIN Footprint(vi, gv).rows) \X (DOMAIN Footprint(vi, gv).cols))]
     IN  /\ vis_grid' = vis_grid \union UNION {Contributions(vi, gv) : gv \in copies}
         /\ adds' = adds + SumOf(size, copies)
  /\ vi' = vi + 1
  /\ UNCHANGED <<input, pc, visvars, good_vis, kernel_centre_on_grid, sample_grid_total,
                 planevars, pi, conv_support>>

EndPlane ==
  /\ pc = "grid"
  /\ vi >= vi_end
  /\ pi' = pi + 1
  /\ pc' = IF pi + 1 = num_wplanes THEN "done" ELSE "plane"
  /\ UNCHANGED <<input, visvars, good_vis, kernel_centre_on_grid, sample_grid_total, planevars,
                 gridvars>>

\* The function has returned.
Returned == pc = "done" /\ UNCHANGED vars

Next ==
  \/ SortByAbsW
  \/ ConvertToHalfplane
  \/ PlaceKernels
  \/ AverageWPlanes
  \/ StartPlane
  \/ GridVisibility
  \/ EndPlane
  \/ Returned

Spec == Init /\ [][Next]_vars

------------------------------------------------------------------------------
ConvolveTypeOK ==
  /\ pc \in {"sort", "halfplane", "place", "average", "plane", "grid", "done"}
  /\ vis \in [Vis -> [id : Vis, conj : BOOLEAN]]
  /\ vis_weights \in [Vis -> Int]
  /\ sample_grid_total \in Int
  /\ good_vis \in [Vis -> 0..2]
  /\ \A k \in Vis : good_vis[k] = 2 => halfplane_gridding
  /\ pi \in 0..num_wplanes
  /\ conv_support \in [Plane -> 1..max_support]
  /\ vi \in 0..n
  /\ \A c \in vis_grid : c[1] \in 0 .. image_rows - 1 /\ c[2] \in 0 .. image_size - 1

\* The plane that visibility id is gridded with.
PlaneOf(id) ==
  LET k == CHOOSE l \in Vis : vis[l].id = id
  IN  CHOOSE p \in Plane :
        /\ firstidx[p] <= k
        /\ p < num_wplanes - 1 => k < firstidx[p + 1]

\* A visibility is gridded when the untruncated kernel fits in the image,
\* without its first row and column.
Fits(uv) ==
  \A a \in 1..2 :
    LET x == Rint(uv[a], Sub)
    IN  -half_image_size < x - max_support /\ x + max_support < half_image_size

InBounds == {k \in Vis : Fits(input.uv[k])}

\* The pixel of a coordinate: the grid is periodic, its origin first or in the middle.
Pixel(x) == (x + (IF shift_uv THEN 0 ELSE half_image_size)) % image_size

\* The nearest position at which a kernel is available, from the nearest pixel.
Nearest(x) == IF kernel_exact THEN UvFrac(x) ELSE Rint(UvFrac(x) * oversampling, Sub)

\* The convolution of the visibility at (u, v) of value V, when sign = 1, and of
\* its conjugate at (-u, -v), when sign = -1.
Convolved(id, sign) ==
  LET u    == input.uv[id][1]
      v    == input.uv[id][2]
      p    == PlaneOf(id)
      unit == IF kernel_exact THEN Sub ELSE oversampling
      box  == -conv_support[p] .. conv_support[p]
  IN  {<<Pixel(sign * Rint(v, Sub) + d[2]), Pixel(sign * Rint(u, Sub) + d[1]),
         [id     |-> id,
          conj   |-> sign = -1,
          weight |-> input.weights[id],
          kernel |-> Displacement(unit * d[1] - sign * Nearest(u), unit * d[2] - sign * Nearest(v)),
          conj_kernel |-> use_wproj /\ sign * input.w[id] < 0,
          plane  |-> p]>> : d \in box \X box}

\* How the library calls the function: a half-plane grid has its origin in the corner,
\* and the oversampled gridder fills a full grid only if its origin is in the middle.
Supported(calls) ==
  \A i \in calls :
    /\ i.halfplane_gridding => i.shift_uv
    /\ i.shift_uv /\ ~ i.kernel_exact => i.halfplane_gridding

\* What average_w_planes takes for granted: with W-projection, the visibilities that are
\* out of bounds are the last ones in |w|, and there is one in bounds for each plane.
NearFirst(calls) ==
  \A i \in calls :
    i.use_wproj =>
      LET inside == {k \in DOMAIN i.uv : Fits(i.uv[k])}
      IN  /\ \A k \in inside, l \in DOMAIN i.uv \ inside : Abs(i.w[k]) < Abs(i.w[l])
          /\ i.num_wplanes <= Cardinality(inside)

(***************************************************************************)
(* The grid is the sum of the convolutions of all visibilities in bounds,  *)
(* each pixel of each exactly once; the half-plane grid is the first rows  *)
(* of the sum that has also those of their conjugates.  (The doc of        *)
(* convolve_to_grid: halfplane_gridding "Grid only halfplane matrix".)     *)
(***************************************************************************)
GridIsVisibilityGrid ==
  pc = "done" =>
    LET signs == IF halfplane_gridding THEN {1, -1} ELSE {1}
        all   == UNION {Convolved(id, sign) : id \in InBounds, sign \in signs}
    IN  /\ vis_grid = {c \in all : c[1] < image_rows}
        /\ adds = Cardinality(vis_grid)

(***************************************************************************)
(* Row 0 of a half-plane grid, which is its own conjugate, is Hermitian,   *)
(* as the c2r FFT supposes: the value at column x is the conjugate of that *)
(* at column -x.  (Visibilities with w = 0 excepted when W-projection is   *)
(* used: the kernel of their plane is not conjugated.)                     *)
(***************************************************************************)
RowZeroHermitian ==
  pc = "done" /\ halfplane_gridding =>
    \A c \in vis_grid :
      c[1] = 0 /\ ~ (use_wproj /\ input.w[c[3].id] = 0) =>
        <<0, (image_size - c[2]) % image_size,
          [c[3] EXCEPT !.conj = ~ @, !.conj_kernel = use_wproj /\ ~ @]>> \in vis_grid

\* How often a row of the grid occurs in the whole plane: a row of a half-plane grid
\* stands for its conjugate too, except those that are their own conjugate.
Occurrences(row) == IF halfplane_gridding /\ row \notin {0, half_image_size} THEN 2 ELSE 1

\* The samples of kernels that visibility id has left in the whole plane.
Samples(id) ==
  LET its == {c \in vis_grid : c[3].id = id}
  IN  SumOf([c \in its |-> Occurrences(c[1])], its)

\* The samples of one kernel, which populate_kernel_cache and make_kernel_array normalise:
\* their sum is 1.  (The kernels of W-projection are not normalised: of them it is whole
\* kernels, each counted as 1, that the total sums.)
KernelArea(s) == (2 * s + 1) * (2 * s + 1)

\* The sampling grid of the whole plane consists of whole kernels, and the total is times
\* its sum.
TotalIsSamplingSum(times) ==
  \E kernels \in [Vis -> 0..2] :
    /\ \A id \in Vis : Samples(id) = kernels[id] * KernelArea(conv_support[PlaneOf(id)])
    /\ sample_grid_total = times * SumOf([id \in Vis |-> kernels[id] * input.weights[id]], Vis)

(***************************************************************************)
(* sample_grid_total, by which the image is normalised, is computed before *)
(* anything is gridded.  It is the sum of the sampling grid that a         *)
(* half-plane grid stands for: a visibility is counted for itself and for  *)
(* its conjugate, whether its good_vis is 1 or 2, wherever the half-plane  *)
(* cuts its kernel, and not at all when it is out of bounds.  It is not    *)
(* the "Sum of sampling grid values" that GridderOutput documents on a     *)
(* full grid: that has no conjugates, and as the code doubles the total    *)
(* there too, it is twice the sum.                                         *)
(***************************************************************************)
SampleTotalMatchesGrid ==
  pc = "done" => TotalIsSamplingSum(IF halfplane_gridding THEN 1 ELSE 2)

(***************************************************************************)
(* A visibility is convolved with the kernel of the plane to whose average *)
(* w it contributed, and the planes follow each other in |w|.              *)
(***************************************************************************)
OwnPlane ==
  pc = "done" /\ use_wproj /\ ~ median =>
    /\ \A c \in vis_grid : c[3].id \in {vis[k].id : k \in w_avg[c[3].plane]}
    /\ \A c, d \in vis_grid :
         c[3].plane < d[3].plane => Abs(input.w[c[3].id]) <= Abs(input.w[d[3].id])
==============================================================================
