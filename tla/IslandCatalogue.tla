--------------------------- MODULE IslandCatalogue ----------------------------
(***************************************************************************)
(* What source finding promises: the connected regions of pixels beyond    *)
(* the analysis threshold that peak beyond the detection threshold and are *)
(* not too small, positive ones first, each with its label, an extremum of *)
(* it, the number of its pixels and their moments in sky coordinates.      *)
(*                                                                         *)
(* An image is a sequence of pixels as the matrix stores it, column by     *)
(* column, the first one with index 0.                                     *)
(***************************************************************************)
EXTENDS Sequences, Sums

VARIABLES
  find,            \* the arguments of the call, a record (see SourceFindCalls)
  bg_level,        \* num / den
  rms,             \* the square of rms_est, num / den
  catalogue        \* {}, and then {the list of the islands}

Index == 0 .. find.rows * find.cols - 1

RowOf(i) == i % find.rows
ColOf(i) == i \div find.rows

\* Half an image down or up, right or left: from the matrix to the sky and back.
HalfShift(i, size) == IF i < size \div 2 THEN i + size \div 2 ELSE i - size \div 2

SkyRow(r) == IF find.fftshift THEN r ELSE HalfShift(r, find.rows)
SkyCol(c) == IF find.fftshift THEN c ELSE HalfShift(c, find.cols)

\* The pixel is above bg_level + n * rms (s = 1) or below bg_level - n * rms
\* (s = -1).  No value is above or below a threshold that is not a number.
Beyond(s, i, n) ==
  LET deviation == s * (bg_level.den * find.image[i] - bg_level.num)
  IN  /\ deviation > 0
      /\ deviation * deviation * rms.den > n * n * rms.num * bg_level.den * bg_level.den

Thresholded ==
  [p \in (0 .. find.rows - 1) \X (0 .. find.cols - 1) |->
     LET i == p[2] * find.rows + p[1]
     IN  IF Beyond(1, i, find.analysis_n_sigma) THEN 1
         ELSE IF Beyond(-1, i, find.analysis_n_sigma) THEN -1 ELSE 0]

\* The labelling that labeling_4con and labeling_8con promise.
Labelled ==
  INSTANCE ConnectedComponents
    WITH Calls <- {}, result <- {},
         call <- [rows |-> find.rows, cols |-> find.cols, image |-> Thresholded,
                  conn8 |-> ~ find.ccl_4connectivity, fftshift |-> find.fftshift,
                  find_negative |-> find.find_negative_sources]

\* The regions with their labels: [label, pixels].
Regions ==
  LET labelling == Labelled!Labelling
      pixels(l) == {i \in Index : labelling.map[<<RowOf(i), ColOf(i)>>] = l}
  IN  {[label |-> l, pixels |-> pixels(l)] : l \in (-labelling.neg .. labelling.pos) \ {0}}

SignOf(label) == IF label < 0 THEN -1 ELSE 1

Detected(R) == \E i \in R.pixels : Beyond(SignOf(R.label), i, find.detection_n_sigma)

Extrema(R) ==
  {i \in R.pixels : \A j \in R.pixels :
     SignOf(R.label) * find.image[i] >= SignOf(R.label) * find.image[j]}

\* The sum over a region of the values multiplied by a function of x and y.
MomentOf(S, factor(_, _)) ==
  SumOf([i \in S |-> factor(SkyCol(ColOf(i)), SkyRow(RowOf(i))) * find.image[i]], S)

\* The entry of the catalogue for region R with its extremum at i.
Entry(R, i) ==
  [label |-> R.label, extremum_val |-> find.image[i], at |-> i,
   y |-> SkyRow(RowOf(i)), x |-> SkyCol(ColOf(i)),
   num_samples |-> Cardinality(R.pixels),
   moments |-> [x |-> MomentOf(R.pixels, LAMBDA x, y : x),
                y |-> MomentOf(R.pixels, LAMBDA x, y : y),
                xx |-> MomentOf(R.pixels, LAMBDA x, y : x * x),
                yy |-> MomentOf(R.pixels, LAMBDA x, y : y * y),
                xy |-> MomentOf(R.pixels, LAMBDA x, y : x * y),
                flux |-> MomentOf(R.pixels, LAMBDA x, y : 1)]]

\* Positive labels first, each sign in the order of its magnitude.
Precedes(l, m) ==
  \/ l > 0 /\ m < 0
  \/ SignOf(l) = SignOf(m) /\ SignOf(l) * l < SignOf(m) * m

\* The catalogues that answer the call.
IsCatalogue(list) ==
  LET listed == {R \in Regions : Detected(R) /\ Cardinality(R.pixels) >= find.source_min_area}
  IN  /\ Len(list) = Cardinality(listed)
      /\ \A n \in DOMAIN list : \E R \in listed : \E i \in Extrema(R) : list[n] = Entry(R, i)
      /\ \A m, n \in DOMAIN list : m < n => Precedes(list[m].label, list[n].label)

CatalogueInit == catalogue = {}

\* The constructor returns.
Answer ==
  /\ catalogue = {}
  /\ catalogue' # {}
  /\ \E list \in catalogue' : IsCatalogue(list) /\ catalogue' = {list}

CatalogueSpec == CatalogueInit /\ [][Answer]_catalogue
==============================================================================
