------------------------------ MODULE SourceFind ------------------------------
(***************************************************************************)
(* SourceFindImage of src/stp/sourcefind/sourcefind.cpp: the constructor,  *)
(* _label_detection_islands and the loops of the Gaussian fitting.         *)
(*                                                                         *)
(* The statistics are those of BinMedian and EstimateRms, whose steps are  *)
(* steps of the constructor.  The labelling is the one Labeling computes,  *)
(* with any labels that its decision tree P maps to the final ones.  The   *)
(* pairs of variables for positive and negative labels (label_extrema_*_pos *)
(* and _neg) are one function of the signed label.                         *)
(***************************************************************************)
EXTENDS EstimateRms, Sequences

CONSTANTS
  Threads,         \* the threads of the parallel loops
  MainThread,      \* the one that called the constructor
  SourceFindCalls  \* the calls considered: records of image ([0 .. rows * cols - 1 -> Int]),
                   \* rows, cols, of the other parameters of the constructor by name,
                   \* with rms_est a square [num, den], and of the build option fftshift

\* The sizes are even, as the labelling functions assert; the thresholds, of which only
\* the squares are compared, and rms_est (0: it is estimated) are not negative.
ASSUME SourceFindAssumption ==
  /\ IsFiniteSet(Threads) /\ MainThread \in Threads
  /\ \A c \in SourceFindCalls :
       /\ c.rows \in Nat \ {0} /\ c.rows % 2 = 0 /\ c.cols \in Nat \ {0} /\ c.cols % 2 = 0
       /\ c.image \in [0 .. c.rows * c.cols - 1 -> Int]
       /\ c.median_method \in {"ZEROMEDIAN", "BINAPPROX", "BINMEDIAN", "NTHELEMENT"}
       /\ c.source_min_area \in Nat /\ c.sigma_clip_iters \in Nat
       /\ c.detection_n_sigma \in Nat
       /\ c.rms_est.num \in Nat /\ c.rms_est.den \in Nat \ {0}

VARIABLES
  spc,
  find,            \* the arguments
  bg_level, rms,
  label_map, P,
  pending,         \* pixels or columns that no thread has taken from the parallel loop
  extrema,         \* data_extrema_pos, _neg of each thread: label -> pixel, or None
  label_extrema,   \* the combined extrema
  label_extrema_id,
  measures,        \* moments, numsamples, boundingbox of each thread, by label
  label_measures,  \* the same, combined
  islands,
  fits             \* residuals evaluated for each island, when it is fitted

findvars == <<spc, find, bg_level, rms, label_map, P, pending, extrema, label_extrema,
              label_extrema_id, measures, label_measures, islands, fits>>
sourcevars == <<rmsvars, findvars>>

None == -1

\* What the constructor implements.
Cat == INSTANCE IslandCatalogue WITH catalogue <- IF spc = "done" THEN {islands} ELSE {}

Labels == DOMAIN label_extrema_id

SourceIdle ==
  /\ spc = "idle"
  /\ find = [rows |-> 0, cols |-> 0]
  /\ bg_level = [num |-> 0, den |-> 1]
  /\ rms = NaN
  /\ label_map = <<>> /\ P = <<>>
  /\ pending = {}
  /\ extrema = <<>> /\ label_extrema = <<>> /\ label_extrema_id = <<>>
  /\ measures = <<>> /\ label_measures = <<>>
  /\ islands = <<>>
  /\ fits = <<>>

CallSourceFind(c) ==
  /\ spc = "idle"
  /\ spc' = "median"
  /\ find' = c
  /\ data' = c.image
  /\ UNCHANGED <<mpc, approx, binvars, moments, median, clipvars, bg_level, rms, label_map, P, pending,
                 extrema, label_extrema, label_extrema_id, measures, label_measures, islands, fits>>

------------------------------------------------------------------------------
\* Statistics.

labelvars == <<label_map, P, pending, extrema, label_extrema, label_extrema_id, measures,
               label_measures, islands, fits>>

StatsWith(m) == [median |-> m, median_valid |-> TRUE, moments |-> NoMoments, moments_valid |-> FALSE]

\* rms_est is given, or estimate_rms is called with three sigma.
Rms(st) ==
  IF find.rms_est.num # 0
  THEN /\ rms' = find.rms_est
       /\ spc' = "label"
       /\ UNCHANGED clipvars
  ELSE /\ CallRms(3, find.sigma_clip_iters, st)
       /\ spc' = "rms"
       /\ UNCHANGED rms

\* MedianMethod::ZEROMEDIAN and NTHELEMENT, which give no mean and sigma.
BackgroundDirect ==
  /\ spc = "median"
  /\ find.median_method \in {"ZEROMEDIAN", "NTHELEMENT"}
  /\ bg_level' = IF find.median_method = "ZEROMEDIAN" THEN [num |-> 0, den |-> 1]
                 ELSE MedianOf(Samples, Middle)
  /\ Rms(StatsWith(bg_level'))
  /\ UNCHANGED <<medianvars, find, labelvars>>

\* MedianMethod::BINAPPROX and BINMEDIAN.
BackgroundByBinning ==
  /\ spc = "median"
  /\ find.median_method \in {"BINAPPROX", "BINMEDIAN"}
  /\ mpc = "idle"
  /\ CallMedian(data, find.median_method = "BINAPPROX")
  /\ spc' = "await"
  /\ UNCHANGED <<clipvars, find, bg_level, rms, labelvars>>

BackgroundBinned ==
  /\ spc = "await"
  /\ mpc = "done"
  /\ mpc' = "idle"
  /\ bg_level' = median
  /\ Rms([median |-> median, median_valid |-> TRUE, moments |-> moments, moments_valid |-> TRUE])
  /\ UNCHANGED <<data, approx, binvars, moments, median, find, labelvars>>

RmsEstimated ==
  /\ spc = "rms"
  /\ cpc = "done"
  /\ cpc' = "idle"
  /\ rms' = [num |-> sigma.num, den |-> sigma.den * bg_level.den * bg_level.den]
  /\ spc' = "label"
  /\ UNCHANGED <<medianvars, stats, num_sigma, iters, total_accu, valid_n_elem, prev_upper_sigma,
                 sigma, iter, find, bg_level, labelvars>>

statvars == <<rmsvars, find, bg_level, rms>>

------------------------------------------------------------------------------
\* Labels and their extrema.

\* labeling_4con or labeling_8con: a label of its own for every pixel, and the
\* decision tree that maps it to the label of its region.
LabelImage ==
  /\ spc = "label"
  /\ LET labelling == Cat!Labelled!Labelling
         final(i)  == labelling.map[<<Cat!RowOf(i), Cat!ColOf(i)>>]
         found     == {i \in Cat!Index : final(i) # 0}
     IN  /\ label_map' = [i \in Cat!Index |-> Cat!SignOf(final(i)) * (IF i \in found THEN i + 1 ELSE 0)]
         /\ P' = [l \in {label_map'[i] : i \in found} |-> final(l * Cat!SignOf(l) - 1)]
         /\ pending' = found
         /\ extrema' = [t \in Threads |-> [l \in (-labelling.neg .. labelling.pos) \ {0} |-> None]]
         /\ label_extrema_id' = [l \in (-labelling.neg .. labelling.pos) \ {0} |-> 0]
  /\ spc' = "extrema"
  /\ UNCHANGED <<statvars, label_extrema, measures, label_measures, islands, fits>>

\* Mutant of MoreExtreme: the most extreme value is that of the greatest magnitude.
MoreExtremeAbs(s, i, j) ==
  IF j = None THEN Cat!Beyond(s, i, find.detection_n_sigma)
  ELSE find.image[i] * find.image[i] > find.image[j] * find.image[j]

\* val > cext (val < cext): the extremum starts at the detection threshold.
MoreExtreme(s, i, j) ==
  IF j = None THEN Cat!Beyond(s, i, find.detection_n_sigma)
  ELSE s * find.image[i] > s * find.image[j]

\* Thread t finds the final label of pixel i and compares the value with the
\* extremum that it has seen of that label.
FindExtremum(t, i) ==
  /\ spc = "extrema"
  /\ i \in pending
  /\ LET l == P[label_map[i]]
     IN  /\ label_map' = [label_map EXCEPT ![i] = l]
         /\ extrema' = [extrema EXCEPT ![t][l] =
                          IF MoreExtreme(Cat!SignOf(l), i, @) THEN i ELSE @]
  /\ pending' = pending \ {i}
  /\ UNCHANGED <<statvars, spc, P, label_extrema, label_extrema_id, measures, label_measures, islands,
                 fits>>

\* The extremum of two threads: the first one's unless the other's is more extreme.
MoreExtremeOf(s, i, j) ==
  IF i = None \/ (j # None /\ MoreExtreme(s, j, i)) THEN j ELSE i

NoMeasure ==
  [num_samples |-> 0, x |-> 0, y |-> 0, xx |-> 0, yy |-> 0, xy |-> 0, flux |-> 0,
   box |-> [top |-> find.rows, bottom |-> -1, left |-> find.cols, right |-> -1]]

\* The extrema of the threads, combined; a label without one is weak.
CombineExtrema ==
  /\ spc = "extrema"
  /\ pending = {}
  /\ \E order \in {f \in [1 .. Cardinality(Threads) -> Threads] :
                     f[1] = MainThread /\ \A t \in Threads : \E n \in DOMAIN f : f[n] = t} :
       LET best[n \in DOMAIN order] ==
             IF n = 1 THEN extrema[order[1]]
             ELSE [l \in Labels |->
                     MoreExtremeOf(Cat!SignOf(l), best[n - 1][l], extrema[order[n]][l])]
       IN  label_extrema' = best[Cardinality(Threads)]
  /\ label_extrema_id' = [l \in Labels |-> IF label_extrema'[l] = None THEN 0 ELSE l]
  /\ pending' = 0 .. find.cols - 1
  /\ measures' = [t \in Threads |-> [l \in Labels |-> NoMeasure]]
  /\ extrema' = <<>>
  /\ spc' = "measure"
  /\ UNCHANGED <<statvars, label_map, P, label_measures, islands, fits>>
------------------------------------------------------------------------------
\* Measures of the labels.

Coordinate(i) == [x |-> Cat!SkyCol(Cat!ColOf(i)), y |-> Cat!SkyRow(Cat!RowOf(i))]

\* Mutant of Enlarged: the box does not grow to the left.
EnlargedRight(box, x, y) ==
  [top |-> Min({box.top, y}), bottom |-> Max({box.bottom, y}),
   left |-> Min({box.left, Max({x, box.right})}), right |-> Max({box.right, x})]

Enlarged(box, x, y) ==
  [top |-> Min({box.top, y}), bottom |-> Max({box.bottom, y}),
   left |-> Min({box.left, x}), right |-> Max({box.right, x})]

\* A measure with one more pixel.
WithPixel(i, m) ==
  LET p == Coordinate(i)
      v == find.image[i]
  IN  [num_samples |-> m.num_samples + 1,
       x |-> m.x + p.x * v, y |-> m.y + p.y * v,
       xx |-> m.xx + p.x * p.x * v, yy |-> m.yy + p.y * p.y * v, xy |-> m.xy + p.x * p.y * v,
       flux |-> m.flux + v,
       box |-> IF find.gaussian_fitting THEN Enlarged(m.box, p.x, p.y) ELSE m.box]

\* Mutant of Clears: weak labels are removed whether the label map is wanted or not.
ClearsAlways(i) == label_map[i] # 0 /\ label_extrema_id[label_map[i]] = 0

\* Pixel i has a weak label, which is removed.
Clears(i) ==
  /\ find.generate_labelmap
  /\ label_map[i] # 0
  /\ label_extrema_id[label_map[i]] = 0

\* Thread t measures what column c has of each label, and clears the weak labels.
MeasureColumn(t, c) ==
  /\ spc = "measure"
  /\ c \in pending
  /\ LET column == {i \in Cat!Index : Cat!ColOf(i) = c}
         strong(l) == {i \in column : label_map[i] = l /\ label_extrema_id[l] # 0}
     IN  /\ measures' = [measures EXCEPT ![t] =
                           [l \in Labels |-> FoldSet(WithPixel, @[l], strong(l))]]
         /\ label_map' = [i \in Cat!Index |->
                            IF i \in column /\ Clears(i) THEN 0 ELSE label_map[i]]
  /\ pending' = pending \ {c}
  /\ UNCHANGED <<statvars, spc, P, extrema, label_extrema, label_extrema_id, label_measures, islands,
                 fits>>

DefaultBox == [top |-> 0, bottom |-> 0, left |-> 0, right |-> 0]

\* Mutant of CombinedBox: the boxes of the main thread only.
CombinedBoxMain(l) == measures[MainThread][l].box

\* The box around the boxes of all threads.
CombinedBox(l) ==
  LET boxes == {measures[t][l].box : t \in Threads}
  IN  [top |-> Min({b.top : b \in boxes}), bottom |-> Max({b.bottom : b \in boxes}),
       left |-> Min({b.left : b \in boxes}), right |-> Max({b.right : b \in boxes})]

\* The sums of the threads, added up.
Total(field, l) == SumOf([t \in Threads |-> measures[t][l][field]], Threads)

CombineMeasures ==
  /\ spc = "measure"
  /\ pending = {}
  /\ label_measures' =
       [l \in Labels |->
          [num_samples |-> Total("num_samples", l),
           moments |-> [x |-> Total("x", l), y |-> Total("y", l), xx |-> Total("xx", l),
                        yy |-> Total("yy", l), xy |-> Total("xy", l), flux |-> Total("flux", l)],
           box |-> IF find.gaussian_fitting THEN CombinedBox(l) ELSE DefaultBox]]
  /\ measures' = <<>>
  /\ spc' = "islands"
  /\ UNCHANGED <<statvars, label_map, P, pending, extrema, label_extrema, label_extrema_id, islands,
                 fits>>

------------------------------------------------------------------------------
\* Islands and their fits.

\* Mutant of Listed: the minimum area is exceeded.
ListedLarger ==
  {l \in Labels : label_extrema_id[l] # 0 /\ label_measures[l].num_samples > find.source_min_area}

\* The labels detected that have the minimum area.
Listed ==
  {l \in Labels : label_extrema_id[l] # 0 /\ label_measures[l].num_samples >= find.source_min_area}

IslandOf(l) ==
  LET i == label_extrema[l]
      p == Coordinate(i)
  IN  [label |-> label_extrema_id[l], extremum_val |-> find.image[i], at |-> i, y |-> p.y, x |-> p.x,
       num_samples |-> label_measures[l].num_samples, moments |-> label_measures[l].moments]

ListIslands ==
  /\ spc = "islands"
  /\ LET position(l) == Cardinality({m \in Listed : m = l \/ Cat!Precedes(m, l)})
     IN  islands' = [n \in 1 .. Cardinality(Listed) |->
                       IslandOf(CHOOSE l \in Listed : position(l) = n)]
  /\ IF find.gaussian_fitting
     THEN pending' = DOMAIN islands' /\ spc' = "fit"
     ELSE UNCHANGED pending /\ spc' = "done"
  /\ UNCHANGED <<statvars, label_map, P, extrema, label_extrema, label_extrema_id, measures,
                 label_measures, fits>>

\* The residuals are evaluated where the label map has the label, in the box.
Residuals(l) ==
  LET box == label_measures[l].box
  IN  {xy \in (box.left .. box.right) \X (box.top .. box.bottom) :
         label_map[Cat!SkyCol(xy[1]) * find.rows + Cat!SkyRow(xy[2])] = l}

\* leastsq_fit_gaussian_2d for the n-th island, in any thread: islands of one or
\* two pixels are not fitted.
FitIsland(n) ==
  /\ spc = "fit"
  /\ n \in pending
  /\ fits' = [m \in DOMAIN fits \union {n} |->
                IF m # n THEN fits[m]
                ELSE IF islands[n].num_samples < 3 THEN None
                ELSE Cardinality(Residuals(islands[n].label))]
  /\ pending' = pending \ {n}
  /\ UNCHANGED <<statvars, spc, label_map, P, extrema, label_extrema, label_extrema_id, measures,
                 label_measures, islands>>

FitsOver ==
  /\ spc = "fit"
  /\ pending = {}
  /\ spc' = "done"
  /\ UNCHANGED <<statvars, label_map, P, pending, extrema, label_extrema, label_extrema_id, measures,
                 label_measures, islands, fits>>

\* The steps of the constructor, those of the functions it calls excepted.
SourceStep ==
  \/ BackgroundDirect
  \/ BackgroundByBinning
  \/ BackgroundBinned
  \/ RmsEstimated
  \/ LabelImage
  \/ \E t \in Threads, i \in pending : FindExtremum(t, i) \/ MeasureColumn(t, i)
  \/ CombineExtrema
  \/ CombineMeasures
  \/ ListIslands
  \/ \E n \in pending : FitIsland(n)
  \/ FitsOver

\* The constructor has returned, or a function called on its own.
SourceReturned ==
  /\ \/ spc = "done"
     \/ spc = "idle" /\ cpc = "done"
     \/ spc = "idle" /\ cpc = "idle" /\ mpc = "done"
  /\ UNCHANGED sourcevars

SourceInit == MedianIdle /\ RmsIdle /\ SourceIdle

\* A call of one of the public functions of the three components.
SourceCall ==
  \/ \E c \in MedianCalls : CallMedian(c.data, c.approx) /\ UNCHANGED <<clipvars, findvars>>
  \/ \E c \in RmsCalls : CallRmsOn(c) /\ UNCHANGED findvars
  \/ \E c \in SourceFindCalls : CallSourceFind(c)

\* The steps of all of them.
SourceRun ==
  \/ MedianStep /\ UNCHANGED <<clipvars, findvars>>
  \/ RmsStep /\ UNCHANGED findvars
  \/ SourceStep

------------------------------------------------------------------------------
(***************************************************************************)
(* However the pixels, the columns and the islands are divided among the   *)
(* threads and whatever order they work in, the islands are a catalogue of *)
(* the image ("Constructs SourceFindImage structure and detects positive   *)
(* and negative (if input_find_negative_sources = true) sources").         *)
(***************************************************************************)
ImplementsCatalogue == Cat!CatalogueSpec

(***************************************************************************)
(* At the end the label map has the label of every region, without the     *)
(* weak ones if it was asked for ("Update the final label map by removing  *)
(* the sources below the detection threshold"): every island's extremum    *)
(* and pixels are found under its label.                                   *)
(***************************************************************************)
LabelMapFinal ==
  spc = "done" =>
    LET regions == Cat!Regions
    IN  \A i \in Cat!Index :
      LET own == {R \in regions : i \in R.pixels}
      IN  label_map[i] =
            IF \E R \in own : find.generate_labelmap => Cat!Detected(R)
            THEN (CHOOSE R \in own : TRUE).label ELSE 0

(***************************************************************************)
(* A fit evaluates as many residuals as the island has samples, which is   *)
(* the number that the solver has allocated for them (num_residuals).      *)
(***************************************************************************)
FitCoversIsland ==
  \A n \in DOMAIN fits : fits[n] # None => fits[n] = islands[n].num_samples
==============================================================================
