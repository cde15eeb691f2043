# A verification development for the FastImaging STP library

FastImaging turns a block of radio-interferometer visibilities into an image and
finds the sources in it, fast enough for slow transients.  The first-party code
is the C++ library `src/src/stp` and the programs around it; this directory
models the parts whose correctness depends on concurrency, on the order of
steps, or on index arithmetic that no test enumerates.  Values that only matter
numerically (pixel values, kernel values) are abstracted to what the properties
tell apart.

Paths below are relative to the repository (`src/stp/...` is
`src/src/stp/...` in `PROJECT.json`).

## 1. Inventory

| component | state | operations | hard behaviour |
|---|---|---|---|
| connected component labelling, `stp/common/ccl.h` | label map `L`, label equivalence array `P` (one column per polarity), per-slice label counters, `label_data_per_thread` | parallel scan of slices of columns, row border merging, column border merging, analysis; `find_root`, `set_root`, `set_union` | slices share `L` and `P` without locks; capacity of each slice's block of labels; quadrant-swapped images (no `FFTSHIFT`) make neighbours non-adjacent in memory |
| gridder, `stp/gridder/gridder.{h,cpp}` | visibilities, `good_vis`, kernel centres, w-planes, visibility and sampling grids | conjugation to a half plane, bounds check, shift, w-plane averaging, parallel / serial / exact convolution on the grid | tasks add to one shared grid without locks, kept apart by column residues; kernels that wrap around the margins; planes delimited by indices over good and bad visibilities |
| A/W-projection, `stp/gridder/aw_projection.*` | image-domain kernel, product with the A-kernel, transformed kernel or half a quadrant of it, truncated support, cache of sub-pixel kernels | kernel generation per w-plane and time step, truncation, storage, cache | truncation loop with an unsigned index; arrays with the centre in the corner and in the middle; half-quadrants whose row length changes; rotation of a rotated kernel |
| imager, `stp/imager/*` and FFT, `stp/common/fft.*` | grids, image and beam, FFTW plan, wisdom and threads | gridding, FFT in place or not, normalisation, cropping and correction for the kernel | memory shared between grid and image; fallback order of plans; three arrays with different origins in parallel loops; exceptions half way |
| source finding, `stp/sourcefind/sourcefind.*` | final label map, extrema, moments, bounding boxes and sample counts per label, islands | statistics, sigma clipping, labelling, thread-local extrema and moments and their combination, islands, fitting | thread-local partial results combined in any order; ties; labels that survive or not |
| statistics, `stp/common/matrix_math.*` | histograms of bins per thread | median by binning, mean and deviation, rotation and shift of matrices | bins refined recursively; thread-local histograms |
| Gaussian fitting, `stp/sourcefind/fitting.*` | parameters of one island | residuals and derivatives for Ceres | numeric only |
| convolution kernels, `stp/convolution/*`, splines, spherical harmonics | none | pure numeric functions | numeric only |
| visibilities, `stp/visibility/*` | none | model of point sources | numeric only |
| programs, `reduce`, `auxiliary`, `stp-python`, `benchmark` | configuration | parse, load, call the library, write | sequential I/O |

How they interact: `reduce` (and the Python binding) loads visibilities and a
configuration, the imager calls the gridder with a convolution kernel, inverts
the grid with an FFT and normalises the image; the source finder estimates the
noise (statistics), labels the image (connected component labelling), combines
extrema and moments of each label over all threads and builds the islands,
which are fitted one by one.  Every interaction is a call that returns; the
only concurrency is inside the calls, in `tbb::parallel_for` loops over shared
arrays.

What makes each component correct:

* labelling: the result is the numbering of the connected components of the
  sky, for every division into slices and every interleaving of them;
* gridder: no two concurrent tasks touch a cell, and the parallel loop adds
  each kernel value of each visibility to the cell the serial loop adds it to,
  exactly once; w-planes divide the good visibilities among the planes;
* source finding: the combination of partial results does not depend on how
  the image was divided among threads;
* statistics: successive binning finds the exact median; clipping removes each
  sample at most once and never all of them;
* A/W-projection: the truncated kernel keeps what is significant, the cache
  returns the sample at the distance from the visibility, and each visibility is
  gridded with the kernel of its own plane and time step;
* imager: each pixel of image and beam comes from the element of the transform,
  and is corrected by the element of the kernel, that have its own offset from
  the centre.

## 2. Plan

| step | modules | state |
|---|---|---|
| 1. labelling | `Equivalence`, `UnionFind`, `UnionFind_proofs`, `UnionFindOps`, `ConnectedComponents`, `Labeling`, `Labeling_proofs` | done |
| 2. gridder | `GridGeometry`, `WPlanes`, `ConvolveToGrid`, `GridSum`, `ParallelGridder`, `ParallelGridder_proofs`, `WPlanes_proofs`, `ConvolveToGrid_proofs` | done |
| 3. statistics | `BinMedian` (successive binning), `EstimateRms` (sigma clipping), `Sums`, `Statistics_proofs` | done |
| 4. source finding | `IslandCatalogue` (the promise), `SourceFind` (thread-local results and their combination) | done |
| 5. A/W-projection | `FFT`, `WideFieldImaging` (kernels), `AWProjection` (planes and time steps) | done; the additions to the grid stay in `ConvolveToGrid` |
| 6. imager and programs | `Imager`, `Reduce`, `Reduce_proofs` (of both) | done, without `USE_FFTSHIFT` |
| 7. further proofs | the positions of kernel samples (`Reduce_proofs`), what `convolve_to_grid` adds to the grid (`ConvolveToGrid_proofs`), the catalogue (`Reduce_proofs`) | done |

How the modules depend on each other (`->`: EXTENDS, `=>`: implements):

    UnionFind => Equivalence          Labeling -> UnionFindOps, => ConnectedComponents
    ConvolveToGrid -> GridGeometry, WPlanes       ParallelGridder -> GridGeometry, => GridSum
    SourceFind -> EstimateRms -> BinMedian        SourceFind => IslandCatalogue
    Imager -> AWProjection -> WideFieldImaging -> FFT
    Reduce -> Imager, SourceFind                  Reduce_proofs -> Statistics_proofs
    ConvolveToGrid_proofs => WPlanes_proofs (its theorems, for the planes of the run)

`NumberLemmas` (integers, division, finite sets of numbers, sums and folds) is used by all
proof modules but the first.

`Labeling` uses `UnionFindOps` for whole calls of `set_union`, which `UnionFind`
justifies.  `SourceFind` takes its labels from `ConnectedComponents`, which
`Labeling` implements, and not from `Labeling`.  `AWProjection` says which kernel
each visibility is gridded with; what adding it to the grid does is the subject
of `ConvolveToGrid` and `ParallelGridder`.

## 3. The labelling

### UnionFind and Equivalence

`Equivalence` is the promise: labels 1..N in classes known by their smallest
label.  `UnionFind` is `find_root`, `set_root` and `set_union`
(`ccl.h` lines 18-53), one loop iteration per step, for any number of threads on
one array `P`.  `i`, `j`, `root`, `rootj` are the locals of `set_union`, `cur`
the variable `i` of `set_root`; `owner` says who may work on a label: the slice
whose block it belongs to, and everything belongs to the calling thread after
`Join`.  That a slice calls `set_union` on its own labels only is a guard of
`Call` here, and a property of `Labeling` (`SlicesIndependent`), where it can
fail.  `rep` and `answer` are history variables.

Run `union_find` (four labels, two threads, all sequences of calls): the array
is a forest all the time and a partition between calls (`Forest`,
`ArrayIsPartition`), no thread's label is changed by another
(`OwnLabelsOnly`), each call answers the smallest label of the joined class
(`ImplementsEquivalence`) and returns (`CallsReturn`, under weak fairness of the
steps of a thread inside `set_union`: it waits for nobody).  Four labels are
enough for paths of three edges, on which the two traversals of a call can meet.
`OperatorsAgree` compares the operators of `UnionFindOps`, a whole call in one
formula, with the calls taken step by step, on every reachable array.

### Labeling and ConnectedComponents

`Labeling` is `labeling_4con` and `labeling_8con`; the variable `call` says
which of them is called, in which build, on which image, with which slices.  A
slice labels a pixel per step (`SkipPixel`, `NewLabel`, `CopyLabel`,
`MergeLabels`, by the decision tree of the function), merges the row border of
its column and goes on or hands over its record (`EndColumn`); the calling
thread sorts the records (`Join`), merges the column borders (`MergeBorder`, one
row of one border per step) and
numbers the classes (`Analysis`).  A pixel per step is coarser than the code;
what makes it sound is `SlicesIndependent`, which holds in the passing run:
a step of a slice changes nothing that belongs to another.  Where that property
fails (run `seam_race_8con`) the model shows that shared data is touched, and
not every outcome of the race.

`ConnectedComponents` is the promise: components of the sky, numbered in the
order in which the scan meets them.  The result is compared through
`FinalLabel`, the replacement `_label_detection_islands` makes of temporary
labels.

Run `labeling` goes through five families of 4x4 and 4x6 images: all patterns on
the first and last rows of the matrix (the row seam of the default build) that
fit the labels' blocks, signed sources along a slice border, `labeling_8con` off the
seam, `labeling_8con` with `FFTSHIFT` along a slice border, and combs across
three slices.  Two rows on each side of a seam and two columns per slice are the
least for which every neighbour of the decision trees exists, and each of the
rules for borders is met by some image.  The run checks deadlock: with `Returned` as
the only step after the end, the function never stops before.

The passing run leaves out the images of the three violation runs:

* `capacity_4con`: a checkerboard asks a slice of n columns for n*rows/2 labels
  where its block has n*rows/2 - 1;
* `seam_split_8con`: in the default build a source that crosses the row seam by
  the diagonal downwards to the left gets two labels;
* `seam_race_8con`: in the default build the row border merging of the first
  column of a slice uses and changes the labels of the slice on its left while
  that one runs.  The same missing condition joins, in the first column of the
  sky, sources at opposite margins.

### Proofs

`UnionFind_proofs`, for every `N`, every set of threads and every division into
blocks: `TypeCorrect`, `ForestAlways`, `PartitionEncoded`,
`SlicesDoNotInterfere` and `Refinement` (`UnionFind` implements `Equivalence`).
`Forest` alone is not inductive: while a `set_root` is under way some edges
lead to a root of another class.  `IInv` says which: an edge leaves its class
only to the smaller root of the two being joined (`EdgesInClass`), and the part
of the classes that the traversal still has to follow is untouched
(`Untouched`), because every traversal goes to smaller labels.  The only
assumption is `ConstantsAssumption`.

`Labeling_proofs`, for every size of image, every image and every division into slices:
`BlocksHoldLabels` (`LabelsFitBlock`), `ForestKept` (`LabelForest`) and `SlicesApart`
(`SlicesIndependent`).  They suppose two things of the image, both necessary:
`SeamClear`, that in the default build of `labeling_8con` no source touches the row
seam, without which the run `seam_race_8con` shows slices that interfere, and
`RoomForLabels`, that a slice has no more pixels without a neighbour of their
polarity above or on the left than its block has labels, without which
`capacity_4con` shows a label outside.  TLC found images of the run
`labeling` that satisfy both, and no state reached from them outside the invariant.
The invariant (`LabelingInv`) says of each slice that the elements of `P` in its
block are a forest of labels that it has handed out (`SliceForest`), that the labels
of its pixels are such labels, and that it has handed out no more than it has
met pixels without a neighbour (`SliceCounted`): a new label is taken only where the
decision tree sees no labelled neighbour, and what it sees are the pixels above
and on the left.  When the slices are done, their forests are one
(`ForestFromSlices`), which the merging of the borders keeps because `set_root` hangs the
larger root under the smaller.

## 4. The gridder

### GridGeometry

The index arithmetic: rounding (`Rint` is half-to-even), kernel centres, bounds,
oversampled offsets, the shift of the grid, the rows and columns of a
footprint.  Coordinates count 1/`Sub` of a pixel.  A kernel value is represented
by the displacement at which the kernel is evaluated, up to its sign, since all
kernels are symmetric; numbers are not modelled.

### WPlanes

`average_w_planes`, a plane per step; an average is the set of indices it is
computed from.  Run `wplanes` (up to 40 visibilities on 3 or 4 planes, mean and
median): as long as the visibilities that are out of bounds come last in |w|,
planes are balanced, not empty, and the w of a plane is the mean or median of
the visibilities gridded with it.  Two violation runs with six visibilities
show what happens otherwise: `wplanes_bad_before_good` (an assertion of the code
fails) and `wplanes_bad_median`.

### ConvolveToGrid

`convolve_to_grid`, single-threaded, with at most one kernel per plane: sorting by |w| (any
order of equal values), conversion to the half-plane, placement and bounds
check, w-planes, and one visibility with its conjugate per step.  The grid is a set
of contributions that say which visibility, weight, conjugation, kernel position
and plane were multiplied, and `adds` counts the additions, so that an addition
made twice shows.  Weights are numbers, and `sample_grid_total` is the number the code
computes: the sum of the weights in bounds, doubled whether the grid is a
half-plane or not (`Summed`).  A kernel may be truncated to any support from 1 on
(`StartPlane`).

Run `grid` (image of 12, kernel of support 2, quarter pixels) covers the imager's
mode, the exact mode and the full grid of the unit tests with one visibility
at every position from margin to margin, and W-projection with three
visibilities and two planes, alone or with a fourth that is out of bounds and
farthest in w.  A footprint is linear in the visibilities, so one
is enough for the geometry; three are the least for which a sort that does not
keep pairs together, a plane boundary and a tie can meet.  `GridIsVisibilityGrid`
compares with a definition on the periodic plane.  `RowZeroHermitian` is what
the c2r FFT supposes of row 0.  Visibilities with w = 0 are excepted there: the
kernel of their plane is not conjugated for either copy.

`SampleTotalMatchesGrid` compares the total, which normalises the image, with the grid.  The
sampling grid gets the contributions of `vis_grid` without the visibility, and the
samples of a kernel that `populate_kernel_cache` or `make_kernel_array` made sum to 1, so that
its sum is a sum of weights, each as often as it has left a whole kernel on the plane
(`TotalIsSamplingSum`); a row of a half-plane grid counts twice, for itself and for the row it
stands for, but row 0 once.  Kernels of W-projection are not normalised by the code: of them
the property says that the total counts the whole kernels.  The weights of the runs with
several visibilities are powers of 3, so that no two sums of them, each counted
up to twice, are the same.  A total that counts a visibility by its `good_vis` (1 or 2),
as the gridding loop does, is what the mutant makes.  On a full grid the property says
that the total is twice the sum (section 7).

`grid_shifted_full`: the combination of `shift_uv` with a full grid, which no
caller in the repository uses but the parameters allow, loses the rows that
should wrap to the bottom.

### ParallelGridder and GridSum

The loop under `tbb::parallel_for`: task `r` handles the grid columns that are
`r` modulo the kernel size, with kernels across a margin in two parts.  `+=` is
two steps, `Load` and `Store`, so that interference between tasks would show as
a lost update; a column stands for its pixels.  `NextPlane` waits for all tasks.
`GridSum` is the promise: every column receives the kernel columns that cover
it in the order of the single-threaded gridder, which fixes the floating-point
sum.

Run `parallel` (image of 8; one plane of two visibilities at all columns, once or
twice; two planes with supports 1 and 2): `NoLostUpdate`, the code's own
assertions, and `SerialGrid`, which with its fairness says also that the
gridding ends.  The fairness assumed is weak fairness of each task and of the
caller: `parallel_for` runs every task, and no task waits for another.  An image
of 8 columns and a kernel of 5 make every centre near a margin; with a kernel of
3 there are centres between the margins too.  `CHECK_DEADLOCK FALSE` there
because the function returns.

### Proofs

`ParallelGridder_proofs`, for every image size, support, list of planes and
visibilities that satisfies `GridAssumption` and `InputsAssumption`:
`TypeCorrect`, `AssertionsNeverFail` and `UpdatesKept`.  The argument: the
column a task works on is `r` plus a multiple of the kernel size
(`OwnColumn`, from the division lemma), and two tasks' identifiers are smaller
than it, so that two tasks never have the same column (`ResidueUnique`);
therefore a store changes no column that another task has loaded.  `IInv` adds
to `NoLostUpdate` the types and `LoadedUnfinished`: a task that has loaded is
inside its loop.

`AddsInSerialOrder` is the refinement: every step of the parallel gridder is a step
of `GridSum` or leaves the grid alone.  What a column has received are the kernel
columns that cover it and that the task of its residue has passed (`AddedIsPassed`):
only that task ever comes to the column, it goes through the planes and visibilities in the
order of the serial gridder, and meets a column once with each kernel column.
That it gets to the end is a matter of fairness, and stays with TLC
(`SerialGrid`).

`WPlanes_proofs`, for every number of visibilities and planes: `PlanesTyped`, and, if
the visibilities in bounds come first in |w| and are not fewer than the planes
(`InBoundsFirst`, which the two violation runs break), `NoPlaneEmpty`, `PlanesMatchMembers` and
`PlanesOfEqualSize`.  The planes closed so far divide an interval from 0, each of
them with g/p visibilities rounded down or up, for g visibilities on p planes: the
quotient of what is left by the planes that are left stays between the
same two integers (`PInv`).

`ConvolveToGrid_proofs`, for every image size, kernel support, oversampling, list of
visibilities and number of planes: all five invariants of the run `grid`.

* `ConvolveTyped` needs no hypothesis: whatever the options, no pixel outside the grid
  is added to.
* `GridComplete`, `SampleTotalComplete` and `RowZeroIsHermitian` suppose `Supported(Inputs)`: the
  options `shift_uv`, `halfplane_gridding` and `kernel_exact` are combined as the imager and
  the tests combine them.  The run `grid_shifted_full` is the combination left out,
  and shows the first of them false there.
* `PlaneIsOwn` supposes `NearFirst(Inputs)` besides: with W-projection the visibilities out of
  bounds are the last in |w|, strictly, and there are not fewer in bounds than planes.  It is what
  `InBoundsFirst` says of `WPlanes`, in terms of the input; the runs
  `wplanes_bad_before_good` and `wplanes_bad_median` show what happens without it.

`MCConvolveToGrid` asserts that the inputs of the run satisfy both hypotheses.

None of the properties, which speak of the end, is inductive.  `TInv` follows a visibility
through the arrays: each position holds one visibility of the input or its conjugate, with its
weight, w and uv (`Tracks`, `Folded`), no visibility is at two positions, those marked good are
those whose kernel fits (`PlaceInv`), and the planes are those of `WPlanes` at the same point
(`PlaneInv`).  `GridInv` says that the grid is the union of what the visibilities before
`Limit` contribute, that it is finite, and that as many additions were made as it has elements: as no
two visibilities contribute the same element, nothing is added twice.  What is left is
arithmetic for one visibility: `Rint` is odd except at halves, where half-to-even makes it
odd too (`RintOdd`), a kernel's rows modulo the image size are its rows on the periodic plane
(`ModAdd`, `SignedResidue`), a conjugate's copy is gridded exactly when its kernel reaches row
0 or below, and row r of a visibility is row -r of its conjugate (`PointOpposite`).  For the
total, the samples of a visibility and of its conjugate on the half-plane are counted: those on
row 0, and twice those below it, are as many as two kernels have, because the opposite of a
sample above row 0 is one below (`HalvesCount`); no two of them coincide (`SampleInjective`), so
what is on the grid is two kernels of each visibility in bounds (`SamplesTwice`), or one
on a full grid (`SamplesOnce`), and the sum over the
sorted weights is the sum over the input's (`SumImage`).  Where
WPlanes is used its theorems are instantiated (`PP`), with the state of
`ConvolveToGrid` for that of `WPlanes`.

## 5. Statistics and source finding

### BinMedian

`mat_binmedian`, `mat_median_exact`, `mat_mean_and_stddev` and
`mat_median_binapprox` (`matrix_math.cpp`).  A binning, the search for the middle bin, the
selection from it and the exact median are an action each (`BinData`,
`FindMedianBin`, `SelectFromBin`, `MedianExactly`, `ApproximateMedian`); `mpc` says which comes
next.  Samples are integers and intervals rationals; the first interval, mean
and sigma in the code, is rounded outwards to 1/`Resolution`.  A parallel loop
runs on one of the sets of ranges TBB may make (`Ranges`), each unrolled as the code unrolls it
(`Unrolled`).  The conversion of a bin number to `int` is the one of x86
(`Truncated`): a value that does not fit becomes the most negative one.

Bounds: 4 bins for 1000, `MIN_MEDSIZE` 3 for 100, a least range of 1/8 for 1/10000.
With 4, 6 and 9 samples, of up to four different values, the bins are refined up to
several times, the two middle samples fall into different bins with empty
ones between, and the loop ends by size and by range.  `IntMax` is 10^6, which
no bin number passes; see section 7.  The fallbacks of `mat_binmedian` for a
middle sample that no bin holds cannot be reached with exact arithmetic.

### EstimateRms

`estimate_rms` (`sourcefind.cpp:22`): one clipping per step.  Centred samples and squares of
sigmas are integers and rationals, NaN and the largest `real_t` values of their
own, and a comparison is made as the code makes it, on the bits of the numbers
(`Exceeds`).  `SumsMatchSurvivors` compares the running sums with the sets of
samples that clipping by definition leaves (`Clipped`).  `SomeSampleSurvives`
needs the exact median, limits of three sigma and the five iterations that are the
default: about another level (MedianMethod::ZEROMEDIAN) clipping can
remove everything, and so can the sixth iteration about the median, of 408 samples
in six pairs of groups, each pair farther out and smaller than the one before.  8 and 16 samples are the least that TBB may divide in
ranges of which the unrolled part is not empty.

### IslandCatalogue and SourceFind

`IslandCatalogue` is the promise: connected regions beyond the analysis
threshold, with a peak beyond the detection threshold and the minimum area,
each with its label, extremum, size and moments.  `SourceFind` is the
constructor: the background (`BackgroundDirect`, `BackgroundByBinning`, with
the steps of `BinMedian`), the rms (with those of `EstimateRms`), the labels, then a
pixel (`FindExtremum`), a column (`MeasureColumn`) or an island (`FitIsland`) at a
time by any thread, and the combination of what the threads found
(`CombineExtrema` in any order of the other threads, `CombineMeasures`).  What a
thread writes in a step is its own, or belongs to the pixel or column that it
has taken, so that the steps are as small as they need be.

The refinement (`ImplementsCatalogue`) maps the islands to the catalogue when
the constructor is over.  Images of 2x4 pixels with two threads: every column,
and so every division, may go to either thread; ties, weak regions, regions of
less than the minimum area, both signs and 4- and 8-connectivity occur.  The sizes
are even, as the labelling functions assert (`ccl.h:116`, `:514`).

### Proofs

`Statistics_proofs` has the argument, `Reduce_proofs` the theorems about
the programs, for every number of bins, samples and iterations, every division of the
samples by TBB, and data of any values whose bin numbers fit an `int`
(`NarrowCalls` in `Reduce`: (max - min) * N * `MinRangeInv` + N <= `IntMax`; with the
program's 1000 bins, range of 1/10000 and 32-bit `int` a range of some 214 units; section 7 says
what happens to wider data.  `MCReduce` asserts that its samples satisfy it):

* `MediansExact`, `MiddleSamplesStayBinned`, `MediansWithinBin`.  The invariant
  `MedianInv` says which bins hold the middle samples: the first interval does, since at
  most half of the samples can lie on either side of a point more than sigma from the mean
  (`MiddleWithinSigma`); bins are ordered as their samples (`BinsOrdered`), so the first bin at
  which the count reaches a rank holds the sample of that rank; the samples of an
  interval are those of the selected bins of the last one, as many as were
  counted, and those below them are the difference of the ranks (`SelectedPart`).
* `RunningSumsExact`.  The invariant `ClipInv` adds to `SumsMatchSurvivors` that the samples
  left are exactly those within the previous limit, which makes the test
  for "not removed before" right: the limits fall (`LimitFalls`), although no one
  compares them.
* `FiveIterationsLeaveSome`.  A sample at the median is never removed, so let all be above or
  below it.  The f samples that an iteration removes from one side are more than three
  sigma from the p samples on the other, and two groups that far apart satisfy
  9pf < n(p + f) (`FewApart`, from the sum of the squares of the differences): outliers are
  few.  The ratio of the numbers of samples on the two sides, at first 1, therefore stays within
  7/5, 21/10, 18/5 and 9 after one to four iterations (`RatioKept`), and of two sides of
  that ratio the fifth leaves something (`SomeKept`).

`OneMedianCall` connects the components: a program calls a median function once, from one place, so
that the caller finds in `median` and `moments` what it asked for.  Sums are taken
apart with the lemmas of `NumberLemmas`, which are proved by well-founded
induction on the set, where the library has no theorem.

### Proofs about source finding

Of `ReduceSpec`, for every image with an even number of rows and of columns, any
thresholds, any finite set of threads and any order of their steps, under
`SourceFindAssumption` and `NarrowCalls` (the latter only because the background
and the rms must be numbers, which `StatisticsInv` provides):

* `IslandsAreCatalogue`: the detailed constructor implements `IslandCatalogue`
  (`ImplementsCatalogue`).  The initial state maps to no catalogue; the steps to "done"
  (`FitsOver`, or `ListIslands` without fitting) map to `Answer`, all others stutter
  (`ReturnsCatalogue`, `ReturnedStays`).
* `LabelMapEndsFinal`: the label map at the end (`LabelMapFinal`).
* `FitsCoverIslands`: `FitCoversIsland`, that is, the residuals that the cost function writes are
  as many as the solver has allocated.

None of the three says anything before the end of a pass, so that the inductive invariant,
`FindInv`, has a part for each of them.  With `PixelsOf(l)` the pixels of label l:

- `ExtremaOK`: what a thread has as extremum of l is a pixel of l beyond the detection
  threshold, and for every pixel of l beyond it that has been visited some thread has one that is as
  extreme.  So combining the threads, in any order, gives an extremum of l if there is one
  (`CombinedOK`), and a label without one is weak.
- `MapOK`: weak labels are cleared in exactly the columns that have been measured.  The label a
  column is measured by is therefore still the one of the labelling.
- `MeasuresOK`: for a strong label the sums over the threads of their counts and moments are those over
  its pixels in the measured columns (`SumBump`: one thread's term changes, and the sum with it),
  and each of these pixels is in the box of some thread.  At the end these are all pixels
  of the label (`LabelMeasuresOK`).
- `IslandsOK`: the list has the islands of the listed labels, each once and in their order, because
  the numbers of the labels that precede are the positions 1 to n (`Ranking`).
- `FitsOK`: the box has every pixel of the label, and shifting half an image down and right
  and back is the identity for even sizes (`SkyAndBack`), so that the pixels a fit
  counts in the box are those of the island (`ResidualsAreOwn`).

That labels are counted from 1 and are not 0 (`LabelRange`) is all that the proofs need of
the labelling itself.  The recursive functions in the folds of `MeasureColumn` and `CombineExtrema`
are shown to exist by well-founded induction (`FoldExists`, `NumberLemmas`).

## 6. From visibilities to an image

### FFT

A transform is a call, a first plan, a second one with FFTW_ESTIMATE, the
execution or an exception; which plans exist is a free choice.  `AssertsPlan`: in a
build for `float` with assertions the c2c and c2r functions require the first one.

### WideFieldImaging

The class of that name.  The value of a sample of a kernel is abstracted to the set of
its distances from the centre, and that of a transformed kernel to which
samples are above the truncation threshold (`significant`), which the calls
choose.  An action is one of the class's functions up to a transform, one iteration
of the truncation loop, or the storage of half a quadrant.  The ranges of
`tbb::parallel_for` are any one or two.  `KernelsCentred`,
`TruncationKeepsSignificant` and `CacheReadsRightSample` say where every sample
is.  Supports 1 and 3, oversampling 1 and 2, working areas with and without
undersampling, the FFT, the projection-slice and the Hankel-matrix kernels, and
thresholds that are passed at once, late or never.

### AWProjection

The loop of `convolve_to_grid` over planes and time steps, with `average_lha_planes`.
`gridded` is a history variable: the kernels each visibility met.  A visibility out of
bounds has an arbitrary time step, since the code never writes it.  Times are
multiplied by 2T^2, so that limits of steps are integers.  Two planes, one or
three time steps of which one is empty, aproj_opt on and off, in the serial and the
multi-threaded build.

### Imager and Reduce

`Imager` is `image_visibilities` with `normalise_image_beam_result_1D`; a pixel of a
result is the pair of elements it was made from, and of a matrix the rows, the
rows FFTW was given, and whose memory it is, are known.  Image sizes 3 and 7
(rounded to 4 and 8), paddings 1, 3/2 and 2, transforms in place or not, with and without
beam, correction and an expression for the kernel.  `Reduce` is the composition:
`reduce`, `run_imager` and `run_sourcefind`, or a call of a function of the library
on its own.  The image that source finding gets is any of those considered.

### Run `pipeline`

The run of `Reduce` checks all the properties of sections 5 and 6 (78082 distinct
states).  Deadlock is checked: `Ended` is the only step after the end of
a program.  There is no liveness property in it: every loop is bounded, and whether
it ends is shown by deadlock and by the finite depth of the graph alone.

### Proofs

For every argument allowed by `ImagerAssumption` and `UIntAssumption` (the kernels' positions
also suppose `KernelsFit`):

* `ImagesAligned` (`Reduce_proofs`): `ImagerSpec => []NormalisationAligned`.  The
  argument: sizes are multiples of four and the padded one is not smaller
  (`SizesOK`), therefore the guess of the row count in `fft_fftw_c2r` is right
  (`RealRowsOfHalf`), the matrix keeps the layout of its plan until it is
  normalised (`MatricesOK`), and the four linear index maps agree with the offset
  modulo the size, in whatever range a column was handled (`NormaliseAligns`).
  `NormalisationAligned` alone is not inductive: it says nothing before the
  first pixel is written.
* `KernelsAreOwn` (`Reduce_proofs`): `ImagerSpec => []OwnPlaneAndStep`.  The
  invariant `GInv` follows a kernel from `w_plane` to `conv_kernel`, the cache and
  `gridded`; `Reached` is the set of visibilities that the loops have got past, and
  `GriddedOK` says that those, and no others, were gridded once with their own
  kernel.  It needs that every time is in one of the steps (`StepExists`), and that the
  first indices of the planes ascend from 0, which `GridderArguments` supposes of
  `average_w_planes`.  Where one would use induction on the number of visibilities
  (they have a greatest time), `LeastNatural` gives a least counterexample.
* `TimesLieInSteps` (`Reduce_proofs`): `ImagerSpec => []StepsSpanTimes`.  A step's mean
  is between its limits because each of its times is (`SumBounds`), and a time is
  put into the first step whose upper limit is not below it.
* `ProgramsAlignImages`, `ProgramsUseOwnKernels`, `ProgramsSpanTimes` (`Reduce_proofs`): the same of
  `ReduceSpec`, the specification the run checks.  `ImagerSpec` is one call;
  the programs reset the imager after it and do other things besides.
* `KernelsStayCentred`, `TruncationIsSafe`, `CacheIsRight` (`Reduce_proofs`): every sample of
  a kernel, in either domain, lies where its distance from the centre says; truncation
  loses no significant sample, and the cached kernels hold the samples that the
  gridder asks for.  Besides the two assumptions they suppose `KernelsFit` (`Imager`; `MCReduce` asserts
  it): in a call with W-projection the largest support is a natural and the oversampling a
  positive one, their product is less than 2^32 (`UIntMod`), and, only if the size of the working area is not
  chosen for the kernel (`undersampling_opt` 0, the default is 1), the image is
  larger than twice that support.  Otherwise the area would be smaller than the kernel.
  The argument:
  - The working area is an even power of two that the kernel fits in
    (`WorkareaFits`; the powers are counted as a set, `PowerDoubles`).
  - In an area of even size row and distance determine each other, so that the
    product of the kernels (`ProductCentred`), its projection on one column
    (`ProjectedCentred`) and the image-domain kernel (`ImageDomainCentred`) are symmetric.
  - The truncation loop passes outwards-in, with everything farther out known to be
    insignificant (`TruncatingOK`); no unsigned difference wraps (`WholePixels`).
  - The cache that is filled from a radius numbers the pairs of half a quadrant
    consecutively; every pair is visited and gets its own number
    (`LoopVisits`, `HalfQuadrantHas`), so that each octant reads the sample at its own
    distance (`CacheByRadius`, and `CacheByPosition` for the kernels of two dimensions).

  `WideOK` is the inductive invariant, relative to `IInv` and `GInv`, which say when a
  kernel is being made and with what arguments.

## 7. Where code and documentation disagree

Six findings are listed in `PROJECT.json`, each with the run that shows it: the
capacity of a label block, the seam diagonal and the race of `labeling_8con`
(`ccl.h`), the plane size and the median of `average_w_planes`
(`gridder.cpp`), and the shifted full grid (`gridder.h:662`).

What was met besides, and is no run of its own:

* `gridder.h:423`: the sum of the weights is doubled unconditionally, "because we are using
  half gridder image" (line 422), although `halfplane_gridding` is a parameter.  On a full grid,
  as the unit tests make it, `sample_grid_total` is twice the "Sum of sampling
  grid values" that `GridderOutput` documents (line 55; also line 238).
  `SampleTotalMatchesGrid` states it and `SampleTotalComplete` proves it; the imager, which divides by
  the total, uses half-planes only.
* `matrix_math.cpp:222`: a sample more than 2^31 bins right of a refined interval
  has no bin number that fits an `int`; it counts as left of the interval, and
  the median is some ranks too low.  To see it: `MIN_MEDSIZE` 2, `IntMax` 100
  and the data of five 0, five 1, 2 and 60, for which `BinMedian` gives 1/2 instead of 1.
* `run_sourcefind.cpp:105` passes the minimum area where the flag for the label
  map is expected, and the flag for the area (`Swapped` in `Reduce`).
* `imager.h:60` and `:89`, the branch for `USE_FFTSHIFT`: the row is not reset for a
  new column, the column not for a new range, and without gridding correction the
  beam is taken from a matrix that was reset.
* `imager.h:262` asserts that the padded size is a power of two, where
  `set_image_sizes` makes it a multiple of four.
* `fft.cpp:87`: a build for `float` with assertions never gets to the second plan.
* `fft.cpp:61`: FFTW_MEASURE and FFTW_PATIENT overwrite the arrays they plan for; only
  an assertion prevents it, and `ImagerAssumption` admits them only with assertions.
* `imager.h:370`: the threads of FFTW are not cleaned up if an exception is thrown.
* `gridder.h:736`: with `aproj_opt` the kernel of one time step is the input of the
  rotation for the next; `OwnPlaneAndStep` demands only the first one's.  The
  rotation turns about (size - 1)/2, where the kernel's centre is at size/2.
* `reduce.cpp:137`: if nothing was gridded an empty image goes to source finding.

## 8. What is only model-checked

* Liveness (`CallsReturn`, the fairness part of `SerialGrid`): the prover has no rules
  for fairness.
* `OperatorsAgree` and what depends on `UnionFindOps` being whole calls: its operators are
  recursive, and the numbering of the classes in `Analysis` is a fold; that is why
  `TypeOK` and `ImplementsComponents` of `Labeling` are not proved to the end of the
  function, nor that the labels are those of the components.
* `SourceFind` labels in one step, with the labelling that `ConnectedComponents` promises
  (`LabelImage`); what is proved of the islands is proved of that labelling, and that
  `Labeling` implements it is the property above.

They hold on the bounds given above.  Library functions (`tbb`, Armadillo's sort,
FFTW, Ceres) are modelled by what the code relies on.

## 9. Not modelled

* Numeric code: values of kernels, of the Hankel matrix and of its interpolation, splines, spherical
  harmonics, the A-kernel, the visibility model, the values of a transform,
  moments to Gaussians (`estimate_moments_fit`), residuals and derivatives of the fit, and the solver.
* The branch of the imager for `USE_FFTSHIFT`, and the choice of a kernel function
  in `imager.cpp`.
* Source finding in an empty image, or in one of odd size.
* `fft_fftw_r2c`, `generate_hermitian_matrix_from_nonredundant`, `matrix_shift`,
  and the interpolation in `rotate_matrix`.
* Reading and writing of files, the auxiliary programs, the Python binding, tests
  and benchmarks, and third-party code.

Each is listed in `PROJECT.json` with the reason.

## 10. Running it

`PROJECT.json` lists the runs.  In this directory, `tlc -config X.cfg M` checks
module `M` with configuration `X.cfg` (the longest, `labeling`, `parallel` and
`pipeline`, take about a minute), and `tlapm M_proofs.tla` the proofs.  The operators
whose comment starts with "Mutant of" are no part of the model: put in the place
of the definition they name, they make a property of a run fail, which shows
that the property depends on that definition.
