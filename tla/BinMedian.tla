------------------------------- MODULE BinMedian ------------------------------
(***************************************************************************)
(* mat_binmedian and mat_median_binapprox of src/stp/common/matrix_math.cpp: *)
(* the median of the elements of a matrix, by successive binning.          *)
(*                                                                         *)
(* Samples are integers and the arithmetic is exact: an interval of bins   *)
(* is a record, [l, w, den], of the rationals l/den (leftend) and          *)
(* (l + w)/den (rightend), divided into N bins of equal width; scalefactor *)
(* is N * den / w.  The first interval, which the code rounds to the       *)
(* nearest real_t, is rounded outwards to multiples of 1/Resolution.       *)
(***************************************************************************)
EXTENDS Sums

CONSTANTS
  N,               \* number of bins (1000)
  MIN_MEDSIZE,     \* stop binning below this number of samples (100)
  MinRangeInv,     \* 1 / BINMEDIAN_MIN_RANGE (10000)
  IntMax,          \* the largest int
  Resolution,
  MedianCalls      \* the arguments considered: [data, approx]

\* data is indexed as the matrix is stored; no caller passes an empty matrix.
ASSUME BinMedianAssumption ==
  /\ N \in Nat \ {0} /\ MIN_MEDSIZE \in Nat /\ MinRangeInv \in Nat \ {0}
  /\ IntMax \in Nat /\ Resolution \in Nat \ {0}
  /\ \A c \in MedianCalls :
       LET size == Cardinality(DOMAIN c.data)
       IN  size \in Nat \ {0} /\ c.data \in [0 .. size - 1 -> Int]

VARIABLES
  mpc,
  data,
  approx,          \* mat_median_binapprox is running, not mat_binmedian
  interval,        \* leftend, rightend, scalefactor
  oldinterval,     \* oldleftend, oldscalefactor
  bottomcount, bincounts,
  kth, medbinsize, oldmedbinsize, left_medbin, right_medbin,
  moments,         \* the samples' sum and sum of squares: the mean and sigma returned
  median           \* [num, den]: the median returned is num / den

binvars == <<interval, oldinterval, bottomcount, bincounts, kth, medbinsize, oldmedbinsize,
             left_medbin, right_medbin>>
medianvars == <<mpc, data, approx, binvars, moments, median>>

Undefined == [l |-> 0, w |-> 0, den |-> 0]

NoMoments == [d1 |-> 0, d2 |-> 0]

Samples == DOMAIN data

num_elems == Cardinality(Samples)

------------------------------------------------------------------------------
\* The loops over a range of samples process `step' of them at a time, when
\* there are more than 2 * step, and the rest one by one.  Mutant of Unrolled:
\* rend is not restored after the unrolled part.
UnrolledShort(b, e, step) ==
  IF e - b > 2 * step
  THEN <<b .. b + step * ((e - b - 1) \div step) - 1, (b + step * ((e - b - 1) \div step)) .. e - step - 1>>
  ELSE <<{}, b .. e - 1>>

\* The samples of the range that each part of the loop processes.
Unrolled(b, e, step) ==
  IF e - b > 2 * step
  THEN LET rest == b + step * ((e - b - 1) \div step)
       IN  <<b .. rest - 1, rest .. e - 1>>
  ELSE <<{}, b .. e - 1>>

\* The ranges a parallel loop over the samples may run on: TBB divides those
\* larger than the grain size, in halves, when it has idle threads.
Ranges(grain) ==
  {{<<0, num_elems>>}}
    \union (IF num_elems > grain
            THEN {{<<0, num_elems \div 2>>, <<num_elems \div 2, num_elems>>}}
            ELSE {})

\* The number of times that a parallel loop on such ranges meets a sample of S.
CountOver(ranges, step, S) ==
  SumOf([r \in ranges |->
           LET parts == Unrolled(r[1], r[2], step)
           IN  Cardinality(parts[1] \cap S) + Cardinality(parts[2] \cap S)],
        ranges)

\* The sum of f over the samples that it meets.
SumOver(ranges, step, f) ==
  SumOf([r \in ranges |->
           LET parts == Unrolled(r[1], r[2], step)
           IN  SumOf(f, parts[1]) + SumOf(f, parts[2])],
        ranges)

------------------------------------------------------------------------------
\* int(x / y): truncation, and what x86 makes of a value that is not an int.
Truncated(x, y) ==
  LET q == IF x < 0 THEN -((-x) \div y) ELSE x \div y
  IN  IF q > IntMax \/ q < -IntMax - 1 THEN -IntMax - 1 ELSE q

\* Mutant of Bin: rounded to the nearest bin.
BinRounded(v, iv) == Truncated(2 * (v * iv.den - iv.l) * N + iv.w, 2 * iv.w)

\* The bin of a value: below 0 left of the interval, above N right of it.  (The
\* values less than one bin left of it are in bin 0.)
Bin(v, iv) == Truncated((v * iv.den - iv.l) * N, iv.w)

\* The samples' sum and the sum of their squares.
Totals(ranges) ==
  [d1 |-> SumOver(ranges, 4, data),
   d2 |-> SumOver(ranges, 4, [s \in Samples |-> data[s] * data[s]])]

\* num_elems^2 times the variance.
ScaledVariance(total) == num_elems * total.d2 - total.d1 * total.d1

\* The smallest natural number whose square is at least y * y * x / (z * z).
RootAbove(x, y, z) ==
  CHOOSE r \in 0 .. y * (x + 1) :
    /\ r * r * z * z >= y * y * x
    /\ r = 0 \/ (r - 1) * (r - 1) * z * z < y * y * x

\* [mean - sigma, mean + sigma].
FirstInterval(total) ==
  LET spread == RootAbove(ScaledVariance(total), Resolution, num_elems)
      mean   == (Resolution * total.d1) \div num_elems
  IN  [l |-> mean - spread, w |-> 2 * spread + 1, den |-> Resolution]

\* The bins from left to right of iv.
Refined(iv, left, right) ==
  [l |-> iv.l * N + left * iv.w, w |-> (right + 1 - left) * iv.w, den |-> iv.den * N]

------------------------------------------------------------------------------
MedianIdle ==
  /\ mpc = "idle"
  /\ data = <<>>
  /\ approx = FALSE
  /\ interval = Undefined /\ oldinterval = Undefined
  /\ bottomcount = 0 /\ bincounts = <<>>
  /\ kth = 0 /\ medbinsize = 0 /\ oldmedbinsize = 0
  /\ left_medbin = -1 /\ right_medbin = -1
  /\ moments = NoMoments
  /\ median = [num |-> 0, den |-> 1]

\* A call of mat_binmedian or of mat_median_binapprox.
CallMedian(d, a) ==
  /\ mpc = "idle"
  /\ mpc' = "stats"
  /\ data' = d
  /\ approx' = a
  /\ UNCHANGED <<binvars, moments, median>>

\* The mean and sigma, and from them the first interval, unless sigma is too small.
MeanAndStddev ==
  /\ mpc = "stats"
  /\ \E ranges \in Ranges(8) : moments' = Totals(ranges)
  /\ IF 4 * ScaledVariance(moments') * MinRangeInv * MinRangeInv < num_elems * num_elems
     THEN mpc' = "exact" /\ UNCHANGED interval
     ELSE mpc' = "bin" /\ interval' = FirstInterval(moments')
  /\ medbinsize' = num_elems
  /\ oldmedbinsize' = num_elems
  /\ UNCHANGED <<data, approx, oldinterval, bottomcount, bincounts, kth, left_medbin, right_medbin,
                 median>>

\* Mutant of Counted: the threads' counts of the previous binning are kept.
CountedTwice(old, new) == [i \in DOMAIN new |-> (IF old = <<>> THEN 0 ELSE old[i]) + new[i]]

\* The counts of the threads are combined after they were cleared.
Counted(old, new) == new

\* Bin data across the interval.
BinData ==
  /\ mpc = "bin"
  /\ \E ranges \in Ranges(4) :
       /\ bottomcount' = CountOver(ranges, 2, {s \in Samples : Bin(data[s], interval) < 0})
       /\ bincounts' =
            Counted(bincounts,
                    [i \in 0..N |->
                       CountOver(ranges, 2, {s \in Samples : Bin(data[s], interval) = i})])
  /\ mpc' = IF approx THEN "approx" ELSE "find"
  /\ UNCHANGED <<data, approx, interval, oldinterval, kth, medbinsize, oldmedbinsize, left_medbin,
                 right_medbin, moments, median>>

------------------------------------------------------------------------------
\* The number of samples in the bins up to i, and left of them.
Upto(i) == bottomcount + SumOf(bincounts, 0..i)

\* The bins at which the count reaches a rank: the first of them is the sample's.
Reaching(rank) == {i \in 0..N : Upto(i) >= rank}

Middle == num_elems \div 2 + 1

Even == num_elems % 2 = 0

\* The bins from which the bin below i with samples can be taken.
NonEmptyBelow(i) == {j \in 0 .. i - 1 : bincounts[j] # 0}

\* Mutant of Extends: the sample before the middle is taken to be in the same bin.
NeverExtends(rank) == FALSE

\* The middle sample is the first of its bin, and the one before it is needed.
Extends(rank) == Even /\ rank = 1

\* Stop refining: few points left, a narrow interval, or the same bin again.
LastBinning(size, iv) ==
  \/ size < MIN_MEDSIZE
  \/ size < num_elems \div 10
  \/ iv.w * MinRangeInv < iv.den
  \/ oldmedbinsize = size

\* One pass of the loop of successive binning, up to the binning.
FindMedianBin ==
  /\ mpc = "find"
  /\ IF Reaching(Middle) = {}
     THEN /\ mpc' = IF right_medbin = -1 THEN "exact" ELSE "select"
          /\ kth' = Middle
          /\ UNCHANGED <<interval, oldinterval, medbinsize, oldmedbinsize, left_medbin,
                         right_medbin>>
     ELSE LET right == Min(Reaching(Middle))
              rank  == Middle - (Upto(right) - bincounts[right])
              below == NonEmptyBelow(right)
              left  == IF Extends(rank) /\ below # {} THEN Max(below) ELSE right
              found == Extends(rank) => below # {}
              size  == SumOf(bincounts, left..right)
          IN  /\ right_medbin' = right
              /\ left_medbin' = left
              /\ kth' = IF left = right THEN rank ELSE rank + bincounts[left]
              /\ medbinsize' = size
              /\ IF found
                 THEN /\ oldinterval' = interval
                      /\ interval' = Refined(interval, left, right)
                      /\ oldmedbinsize' = size
                      /\ mpc' = IF LastBinning(size, interval') THEN "select" ELSE "bin"
                 ELSE /\ mpc' = "select"
                      /\ UNCHANGED <<interval, oldinterval, oldmedbinsize>>
  /\ UNCHANGED <<data, approx, bottomcount, bincounts, moments, median>>

------------------------------------------------------------------------------
\* The sample of the given rank, counting from 1, among those in S.
Ranked(S, rank) ==
  LET below(v)  == Cardinality({s \in S : data[s] < v})
      within(v) == Cardinality({s \in S : data[s] <= v})
  IN  CHOOSE v \in {data[s] : s \in S} : below(v) < rank /\ rank <= within(v)

\* Mutant of MedianOf: the middle two are the k-th and the one after it.
MedianOfUpper(S, rank) ==
  IF Even THEN [num |-> Ranked(S, rank) + Ranked(S, IF rank < Cardinality(S) THEN rank + 1 ELSE rank),
                den |-> 2]
  ELSE [num |-> Ranked(S, rank), den |-> 1]

\* nth_element, and the largest of the elements that it leaves before the k-th.
MedianOf(S, rank) ==
  IF Even THEN [num |-> Ranked(S, rank) + Ranked(S, rank - 1), den |-> 2]
  ELSE [num |-> Ranked(S, rank), den |-> 1]

\* The samples of the selected bins of the last interval that was binned.
Selected == {s \in Samples : Bin(data[s], oldinterval) \in left_medbin..right_medbin}

SelectFromBin ==
  /\ mpc = "select"
  /\ median' = MedianOf(Selected, kth)
  /\ mpc' = "done"
  /\ UNCHANGED <<data, approx, binvars, moments>>

\* mat_median_exact.
MedianExactly ==
  /\ mpc = "exact"
  /\ median' = MedianOf(Samples, Middle)
  /\ mpc' = "done"
  /\ UNCHANGED <<data, approx, binvars, moments>>

\* Mutant of BinPair: the second sample of an even number is taken from the same bin.
BinPairSame == LET i == Min(Reaching((num_elems + 1) \div 2)) IN <<i, i>>

\* The bins of the middle sample, or of the middle two: of an even number, the
\* second is in the next bin with samples when the first is the last of its bin.
BinPair ==
  LET half == (num_elems + 1) \div 2
      i    == Min(Reaching(half))
      more == {j \in i..N : Upto(j) > half}
  IN  <<i, IF ~ Even THEN i ELSE IF more = {} THEN N ELSE Min(more)>>

\* mat_median_binapprox after the binning: the middle of the bin or bins.
ApproximateMedian ==
  /\ mpc = "approx"
  /\ IF Reaching((num_elems + 1) \div 2) = {}
     THEN mpc' = "exact" /\ UNCHANGED median
     ELSE /\ mpc' = "done"
          /\ median' = [num |-> 2 * N * interval.l + (BinPair[1] + BinPair[2] + 1) * interval.w,
                        den |-> 2 * N * interval.den]
  /\ UNCHANGED <<data, approx, binvars, moments>>

MedianStep ==
  \/ MeanAndStddev
  \/ BinData
  \/ FindMedianBin
  \/ SelectFromBin
  \/ MedianExactly
  \/ ApproximateMedian

------------------------------------------------------------------------------
\* The middle samples of the data: two, when their number is even.
MiddleSamples == {Ranked(Samples, r) : r \in {Middle, (num_elems + 1) \div 2}}

(***************************************************************************)
(* mat_binmedian returns the exact median (src/stp/common/matrix_math.h:   *)
(* "Compute exact median using a method that combines sucessive binning    *)
(* and nth_element function").                                             *)
(***************************************************************************)
MedianExact ==
  mpc = "done" /\ ~ approx =>
    LET lower == Ranked(Samples, (num_elems + 1) \div 2)
        upper == Ranked(Samples, Middle)
    IN  2 * median.num = median.den * (lower + upper)

(***************************************************************************)
(* However often the bins are refined, those selected hold every middle    *)
(* sample, exactly as many samples as were counted (as the function        *)
(* asserts) and the middle one at rank kth; the interval they are selected *)
(* from is defined.                                                        *)
(***************************************************************************)
MiddleStaysBinned ==
  /\ mpc \in {"bin", "find"} => \A v \in MiddleSamples : Bin(v, interval) \in 0..N
  /\ mpc = "select" =>
       /\ oldinterval # Undefined
       /\ Cardinality(Selected) = oldmedbinsize
       /\ MiddleSamples \subseteq {data[s] : s \in Selected}
       /\ kth \in 1..oldmedbinsize
       /\ Ranked(Selected, kth) = Ranked(Samples, Middle)

(***************************************************************************)
(* mat_median_binapprox misses the median by half a bin at most, which is  *)
(* sigma/N for bins on [mean - sigma, mean + sigma] ("The median error is  *)
(* guaranteed to be inferior to sigma/1000").                              *)
(***************************************************************************)
ApproxWithinBin ==
  mpc = "done" /\ approx /\ interval # Undefined =>
    LET lower == Ranked(Samples, (num_elems + 1) \div 2)
        upper == Ranked(Samples, Middle)
        error == 2 * N * interval.den * (lower + upper) - 2 * median.num
    IN  -2 * interval.w <= error /\ error <= 2 * interval.w
==============================================================================
