----------------------------- MODULE EstimateRms ------------------------------
(***************************************************************************)
(* estimate_rms of src/stp/sourcefind/sourcefind.cpp: sigma clipping in    *)
(* place.  Samples that lie more than num_sigma * sigma from the median    *)
(* are not removed from the matrix but from running sums, each when the    *)
(* limit falls below it for the first time.                                *)
(*                                                                         *)
(* With the median num / den, a sample is the integer den * data - num,    *)
(* and sigma and the limits are represented by their squares, rationals.   *)
(***************************************************************************)
EXTENDS BinMedian

CONSTANT
  RmsCalls         \* the calls considered, without statistics: [data, num_sigma, iters]

ASSUME EstimateRmsAssumption ==
  \A c \in RmsCalls :
    /\ c.num_sigma \in Nat /\ c.iters \in Nat
    /\ LET size == Cardinality(DOMAIN c.data)
       IN  size \in Nat \ {0} /\ size % 2 = 0 /\ c.data \in [0 .. size - 1 -> Int]

VARIABLES
  cpc,
  stats,           \* the argument: [median, median_valid, moments, moments_valid]
  num_sigma, iters,
  total_accu,      \* sum and sum of squares of the samples not removed
  valid_n_elem,
  prev_upper_sigma, sigma,
  iter

clipvars == <<cpc, stats, num_sigma, iters, total_accu, valid_n_elem, prev_upper_sigma, sigma, iter>>
rmsvars  == <<medianvars, clipvars>>

\* The largest real_t, and the result of 0/0.
Largest == [num |-> 1, den |-> 0]
NaN     == [num |-> 0, den |-> 0]

\* The sum of x - y/z over n samples x, times z, and that of the squares, times z^2.
About(total, y, z, n) ==
  [d1 |-> z * total.d1 - n * y,
   d2 |-> z * z * total.d2 - 2 * y * z * total.d1 + n * y * y]

Centred(s) == stats.median.den * data[s] - stats.median.num

Deviations == [s \in Samples |-> Centred(s)]
Squares    == [s \in Samples |-> Centred(s) * Centred(s)]

\* total_accu.d2 / n - (total_accu.d1 / n)^2
Variance(total, n) ==
  IF n = 0 THEN NaN ELSE [num |-> n * total.d2 - total.d1 * total.d1, den |-> n * n]

Times(n, q) == [num |-> n * n * q.num, den |-> q.den]

\* |x| > limit, which the code decides on the bits of the two numbers: the bits of
\* a NaN that 0/0 made are a negative integer.
Exceeds(x, limit) ==
  IF limit = NaN THEN TRUE ELSE x * x * limit.den > limit.num

------------------------------------------------------------------------------
RmsIdle ==
  /\ cpc = "idle"
  /\ stats = [median |-> [num |-> 0, den |-> 1], median_valid |-> FALSE,
              moments |-> NoMoments, moments_valid |-> FALSE]
  /\ num_sigma = 0 /\ iters = 0
  /\ total_accu = NoMoments
  /\ valid_n_elem = 0
  /\ prev_upper_sigma = Largest
  /\ sigma = NaN
  /\ iter = 0

CallRms(ns, it, st) ==
  /\ cpc = "idle"
  /\ cpc' = "start"
  /\ num_sigma' = ns /\ iters' = it /\ stats' = st
  /\ UNCHANGED <<total_accu, valid_n_elem, prev_upper_sigma, sigma, iter>>

\* A call without statistics.
CallRmsOn(c) ==
  /\ data' = c.data
  /\ CallRms(c.num_sigma, c.iters, stats)
  /\ UNCHANGED <<mpc, approx, binvars, moments, median>>

\* The median is not known: mat_binmedian is called, and computes all statistics.
AwaitMedian ==
  /\ cpc = "start"
  /\ ~ stats.median_valid
  /\ CallMedian(data, FALSE)
  /\ cpc' = "await"
  /\ UNCHANGED <<stats, num_sigma, iters, total_accu, valid_n_elem, prev_upper_sigma, sigma, iter>>

ReturnMedian ==
  /\ cpc = "await"
  /\ mpc = "done"
  /\ mpc' = "idle"
  /\ stats' = [median |-> median, median_valid |-> TRUE, moments |-> moments, moments_valid |-> TRUE]
  /\ cpc' = "start"
  /\ UNCHANGED <<data, approx, binvars, moments, median, num_sigma, iters, total_accu, valid_n_elem,
                 prev_upper_sigma, sigma, iter>>

\* The sums of all samples, from the mean and sigma that were given or are now computed.
StartSums ==
  /\ cpc = "start"
  /\ stats.median_valid
  /\ \E ranges \in Ranges(8) :
       stats' = IF stats.moments_valid THEN stats
                ELSE [stats EXCEPT !.moments = Totals(ranges), !.moments_valid = TRUE]
  /\ total_accu' = About(stats'.moments, stats.median.num, stats.median.den, num_elems)
  /\ valid_n_elem' = num_elems
  /\ prev_upper_sigma' = Largest
  /\ sigma' = Variance(total_accu', num_elems)
  /\ iter' = 0
  /\ cpc' = "clip"
  /\ UNCHANGED <<medianvars, num_sigma, iters>>

\* Mutant of Outlier: the samples removed before are removed again.
OutlierAgain(s, upper) == Exceeds(Centred(s), upper)

\* Mutant of Outlier: a sample at the limit is removed.
OutlierAtLimit(s, upper) ==
  /\ Centred(s) * Centred(s) * upper.den >= upper.num
  /\ ~ Exceeds(Centred(s), prev_upper_sigma)

\* Outside the limit, but not outside the previous one.
Outlier(s, upper) ==
  /\ Exceeds(Centred(s), upper)
  /\ ~ Exceeds(Centred(s), prev_upper_sigma)

\* One iteration: the threads' sums of the outliers are combined and subtracted.
ClipOnce ==
  /\ cpc = "clip"
  /\ iter < iters
  /\ \E ranges \in Ranges(4) :
       LET upper   == Times(num_sigma, sigma)
           Of(x)   == [s \in Samples |-> IF Outlier(s, upper) THEN x[s] ELSE 0]
           removed == CountOver(ranges, 2, {s \in Samples : Outlier(s, upper)})
           rem     == [d1 |-> SumOver(ranges, 2, Of(Deviations)), d2 |-> SumOver(ranges, 2, Of(Squares))]
       IN  IF removed = 0
           THEN /\ cpc' = "done"
                /\ UNCHANGED <<total_accu, valid_n_elem, prev_upper_sigma, sigma, iter>>
           ELSE /\ valid_n_elem' = valid_n_elem - removed
                /\ total_accu' = [d1 |-> total_accu.d1 - rem.d1, d2 |-> total_accu.d2 - rem.d2]
                /\ sigma' = Variance(total_accu', valid_n_elem')
                /\ prev_upper_sigma' = upper
                /\ iter' = iter + 1
                /\ cpc' = cpc
  /\ UNCHANGED <<medianvars, stats, num_sigma, iters>>

ClipIterationsOver ==
  /\ cpc = "clip"
  /\ iter >= iters
  /\ cpc' = "done"
  /\ UNCHANGED <<medianvars, stats, num_sigma, iters, total_accu, valid_n_elem, prev_upper_sigma,
                 sigma, iter>>

RmsStep ==
  \/ AwaitMedian
  \/ ReturnMedian
  \/ StartSums
  \/ ClipOnce
  \/ ClipIterationsOver

------------------------------------------------------------------------------
(***************************************************************************)
(* What sigma clipping is, without running sums: the samples left are      *)
(* those that were within num_sigma * sigma of the median, for the sigma   *)
(* of each of the sets of samples left before.                             *)
(***************************************************************************)
SigmaOf(S) ==
  Variance([d1 |-> SumOf(Deviations, S), d2 |-> SumOf(Squares, S)], Cardinality(S))

Clipped[i \in Nat] ==
  IF i = 0 THEN Samples
  ELSE LET left  == Clipped[i - 1]
           limit == Times(num_sigma, SigmaOf(left))
       IN  {s \in left : ~ Exceeds(Centred(s), limit)}

(***************************************************************************)
(* The running sums are those of the samples that clipping leaves, each    *)
(* outlier taken off once, and the value returned is their sigma (the doc  *)
(* of estimate_rms: "Compute Root mean square of input data after          *)
(* sigma-clipping").                                                       *)
(***************************************************************************)
SumsMatchSurvivors ==
  /\ cpc = "clip" =>
       /\ valid_n_elem = Cardinality(Clipped[iter])
       /\ sigma = SigmaOf(Clipped[iter])
  /\ cpc = "done" => sigma = SigmaOf(Clipped[iters])

(***************************************************************************)
(* At three sigma or more about the median, the five iterations that are   *)
(* the default (src/stp/sourcefind/sourcefind.h: "double num_sigma = 3,    *)
(* uint iters = 5") never remove every sample, after which sigma would be  *)
(* 0/0: no pixel is above a threshold that is not a number, and the image  *)
(* would be reported to have no sources.  (Six iterations may, and one may *)
(* about another level: MedianMethod::ZEROMEDIAN on a background away from *)
(* 0.)                                                                     *)
(***************************************************************************)
SomeSampleSurvives ==
  LET exact == MedianOf(Samples, Middle)
  IN  /\ cpc \in {"clip", "done"}
      /\ stats.median.num * exact.den = exact.num * stats.median.den
      /\ num_sigma >= 3 /\ iter <= 5
      => valid_n_elem > 0 /\ sigma # NaN
==============================================================================
