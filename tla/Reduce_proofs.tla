---------------------------- MODULE Reduce_proofs -----------------------------
(***************************************************************************)
(* What is proved of image_visibilities and of the programs that call it.  *)
(*                                                                         *)
(* The imager alone (first part): the image and the beam are aligned with  *)
(* the transform and with the image-domain kernel, for every image size    *)
(* and padding factor, whatever ranges TBB divides the columns into; every *)
(* visibility is gridded with the kernel of its own plane and time step,   *)
(* for every number of visibilities, planes and time steps, and the time   *)
(* steps span the times.                                                   *)
(*                                                                         *)
(* The programs (second part): what holds of the imager holds of reduce    *)
(* and of run_imager, whatever else they do.  Every sample of a kernel     *)
(* lies where its distance from the centre says, truncation loses none     *)
(* that is significant, and the cached kernels hold the samples asked for, *)
(* for every kernel that fits in the image.                                *)
(*                                                                         *)
(* Source finding (third part): the islands are a catalogue of the image,  *)
(* however many threads there are and whatever order they work in.         *)
(***************************************************************************)
EXTENDS Reduce, Statistics_proofs, SequenceTheorems

(***************************************************************************)
(* set_image_sizes: dividing by no more than what was multiplied with.     *)
(***************************************************************************)
LEMMA NotSmaller ==
  ASSUME NEW size \in Nat, NEW num \in Nat, NEW den \in Nat \ {0}, num >= den
  PROVE  (size * num) \div den \in Nat /\ (size * num) \div den >= size
<1> DEFINE q == (size * num) \div den
           r == (size * num) % den
<1>1. size * num \in Int
  OBVIOUS
<1>2. q \in Int /\ r \in 0 .. den - 1 /\ size * num = den * q + r
  BY <1>1, Division
<1> HIDE DEF q, r
<1>3. size * num >= size * den
  BY SMT
<1>4. ASSUME q <= size - 1 PROVE FALSE
  <2>1. den * q <= den * (size - 1)
    BY <1>2, <1>4, SMT
  <2>2. den * (size - 1) = den * size - den
    BY SMT
  <2> QED BY <2>1, <2>2, <1>2, <1>3, SMT
<1> QED BY <1>2, <1>4 DEF q

(***************************************************************************)
(* set_image_sizes rounds up to a multiple of four.                        *)
(***************************************************************************)
LEMMA RoundedUp ==
  ASSUME NEW size \in Nat
  PROVE  Rounded(size) \in Nat /\ Rounded(size) >= size /\ Rounded(size) % 4 = 0
<1> DEFINE S == {s \in size .. size + 3 : s % 4 = 0}
<1>1. PICK x \in S : \A y \in S : x <= y
  <2>1. CASE size % 4 = 0
    <3>1. size \in S BY <2>1
    <3> QED BY <3>1
  <2>2. CASE size % 4 # 0
    <3> DEFINE x == size + (4 - (size % 4))
    <3>1. x \in S /\ \A y \in S : x <= y
      BY <2>2, SMT
    <3> QED BY <3>1
  <2> QED BY <2>1, <2>2
<1>2. Min(S) \in S
  BY <1>1 DEF Min
<1>3. Rounded(size) = Min(S)
  BY DEF Rounded, Least
<1> QED BY <1>2, <1>3

------------------------------------------------------------------------------
(* The inductive invariant of the imager.                                   *)

\* image_visibilities has left its gridder and its transforms alone, or waits for them.
Waiting == {"gridding", "threw", "aborted"}

BeforeSizes == {"idle", "sizes"}

\* The points from which on the result m is complete, as far as the transform goes.
After(m) ==
  {"gcf", "fft_gcf", "normalise_image", "normalise_beam", "clean_up", "done"}
    \union (IF m = "image" THEN {"transform_beam", "fft_beam"} ELSE {})

\* The points at which a result that shares the memory of its grid exists.
Shared(m) ==
  {"transform_image", "fft_image"}
    \union (IF m = "beam" THEN {"transform_beam", "fft_beam"} ELSE {})

\* The points from which on it may be normalised.
Normalised(m) == {"clean_up", "done"} \union (IF m = "image" THEN {"normalise_beam"} ELSE {})

\* The result m is asked for.
Wanted(m) == m = "image" \/ img.generate_beam

SharedRows == 2 * half_rows

SizesOK ==
  /\ ipc = "sizes" => img \in ImageCalls
  /\ ipc \notin BeforeSizes =>
       /\ img.image_size \in Nat \ {0} /\ img.image_size % 4 = 0
       /\ padded_size \in Nat /\ padded_size % 4 = 0
       /\ padded_size >= img.image_size

\* No kernel is worked on while the imager does not wait for the gridder.
GridderQuiet == ipc \notin Waiting => gpc = "idle" /\ kpc = "idle"

TransformOK ==
  /\ ipc \in {"fft_image", "fft_beam"} => transform.n_rows = padded_size
  /\ ipc = "normalise_beam" => img.generate_beam

MatricesOK ==
  /\ DOMAIN grids = Results
  /\ fft_result \in [Results -> [memory : {"none", "grids", "own"}, n_rows : Int, plan_rows : Int]]
  /\ \A m \in Results :
       /\ ipc \in Shared(m) /\ Wanted(m) /\ InPlace => fft_result[m].n_rows = SharedRows
       /\ ipc \in After(m) /\ Wanted(m) =>
            /\ fft_result[m].plan_rows = padded_size
            /\ fft_result[m].n_rows = IF InPlace THEN SharedRows ELSE padded_size
            /\ fft_result[m].memory = "grids" => grids[m] = "sky"

\* The last conjunct of NormalisationAligned, for the result m.
Aligned(m) ==
  \A p \in Pixels :
    LET Offset(i) == IF i < half_size THEN i ELSE i - img.image_size
        pixel == norm_result[m][p]
    IN  /\ pixel.at = <<Offset(p[1]) % padded_size, Offset(p[2]) % padded_size>>
        /\ img.gridding_correction =>
             pixel.gcf = <<padded_size \div 2 + Offset(p[1]), padded_size \div 2 + Offset(p[2])>>

ResultsOK ==
  /\ DOMAIN norm_result = Results
  /\ \A m \in Results :
       norm_result[m] # Empty => ipc \in Normalised(m) /\ Wanted(m) /\ Aligned(m)

IInv == SizesOK /\ GridderQuiet /\ TransformOK /\ MatricesOK /\ ResultsOK

(***************************************************************************)
(* The invariant has what the property needs.                              *)
(***************************************************************************)
LEMMA IInvAligned == IInv => NormalisationAligned
<1> SUFFICES ASSUME IInv, NEW m \in Results, norm_result[m] # Empty
             PROVE  /\ fft_result[m].plan_rows = padded_size
                    /\ fft_result[m].n_rows = IF InPlace THEN 2 * (padded_size \div 2 + 1) ELSE padded_size
                    /\ fft_result[m].memory = "grids" => grids[m] = "sky"
                    /\ Aligned(m)
  BY DEF NormalisationAligned, Aligned
<1>1. ipc \in Normalised(m) /\ Wanted(m) /\ Aligned(m)
  BY DEF IInv, ResultsOK
<1>2. ipc \in After(m)
  BY <1>1 DEF Normalised, After
<1> QED BY <1>1, <1>2 DEF IInv, MatricesOK, SharedRows, half_rows

(***************************************************************************)
(* It holds when nothing has been called.                                  *)
(***************************************************************************)
LEMMA InitIInv == ImagerIdle => IInv
<1> SUFFICES ASSUME ImagerIdle PROVE IInv
  OBVIOUS
<1> USE DEF ImagerIdle, ImgIdle
<1>1. SizesOK
  BY DEF SizesOK, BeforeSizes
<1>2. GridderQuiet
  BY DEF GridderQuiet, GridIdle, WideIdle
<1>3. TransformOK
  BY DEF TransformOK
<1>4. MatricesOK
  <2>1. \A m \in Results : ipc \notin Shared(m) /\ ipc \notin After(m)
    BY DEF Results, Shared, After
  <2>2. DOMAIN grids = Results
    BY DEF Both
  <2>3. fft_result \in [Results -> [memory : {"none", "grids", "own"}, n_rows : Int, plan_rows : Int]]
    BY DEF Both, NoMatrix
  <2> QED BY <2>1, <2>2, <2>3 DEF MatricesOK
<1>5. ResultsOK
  BY DEF ResultsOK, Both
<1> QED BY <1>1, <1>2, <1>3, <1>4, <1>5 DEF IInv

------------------------------------------------------------------------------
(* The steps that establish a part of the invariant.                        *)

(***************************************************************************)
(* After set_image_sizes both sizes are multiples of four, and the padded  *)
(* one is not the smaller.                                                 *)
(***************************************************************************)
LEMMA SizesAreSet ==
  ASSUME img \in ImageCalls, SetImageSizes
  PROVE  /\ img'.image_size \in Nat \ {0} /\ img'.image_size % 4 = 0
         /\ padded_size' \in Nat /\ padded_size' % 4 = 0
         /\ padded_size' >= img'.image_size
<1> DEFINE size   == Rounded(img.image_size)
           num    == img.padding_factor.num
           den    == img.padding_factor.den
           larger == (size * num) \div den
           sizes  == [image_size |-> size, padded_image_size |-> Rounded(larger)]
<1>1. /\ img.image_size \in Nat \ {0}
      /\ num \in Nat /\ den \in Nat \ {0} /\ num >= den
  BY ImagerAssumption DEF ImagerAssumption
<1>2. size \in Nat /\ size >= img.image_size /\ size % 4 = 0
  BY <1>1, RoundedUp
<1>3. larger \in Nat /\ larger >= size
  <2> HIDE DEF size, num, den
  <2> QED BY <1>1, <1>2, NotSmaller DEF larger
<1>4. Rounded(larger) \in Nat /\ Rounded(larger) >= larger /\ Rounded(larger) % 4 = 0
  <2> HIDE DEF larger
  <2> QED BY <1>3, RoundedUp
<1>5. img'.image_size = size /\ padded_size' = Rounded(larger)
  <2>1. img' = With(sizes, img)
    BY DEF SetImageSizes
  <2>2. DOMAIN sizes = {"image_size", "padded_image_size"}
    OBVIOUS
  <2> HIDE DEF size, larger
  <2> QED BY <2>1, <2>2 DEF With, padded_size
<1> HIDE DEF size, num, den, larger
<1> QED BY <1>1, <1>2, <1>3, <1>4, <1>5

(***************************************************************************)
(* The transform of half of a plane has as many rows as the plane, if that *)
(* is a multiple of four.                                                  *)
(***************************************************************************)
LEMMA RealRowsOfHalf ==
  ASSUME padded_size \in Nat, padded_size % 4 = 0
  PROVE  RealRows(half_rows) = padded_size /\ half_rows \in Nat
<1> DEFINE PS == padded_size
<1> HIDE DEF PS
<1>1. PS \in Nat /\ PS % 4 = 0
  BY DEF PS
<1>2. PS \div 2 + 1 \in Nat /\ (PS \div 2 + 1) % 2 = 1 /\ 2 * (PS \div 2) = PS
  BY <1>1, SMT
<1>3. half_rows = PS \div 2 + 1
  BY DEF PS, half_rows
<1> HIDE DEF half_rows
<1>4. RealRows(half_rows) = (half_rows - 1) * 2
  BY <1>2, <1>3 DEF RealRows
<1> QED BY <1>2, <1>3, <1>4 DEF PS

(***************************************************************************)
(* normalise_image_beam_result_1D, for a column and the range it is in.    *)
(***************************************************************************)
LEMMA ColumnAligned ==
  ASSUME NEW S \in Nat \ {0}, NEW PS \in Nat, S % 4 = 0, PS % 4 = 0, PS >= S,
         S = img.image_size, PS = padded_size,
         NEW left \in Split(0, half_size), NEW right \in Split(half_size, S),
         NEW j \in 0 .. S - 1,
         NEW r, r = CHOOSE q \in left \union right : q[1] <= j /\ j < q[2],
         NEW offset, offset = IF j < half_size THEN j ELSE j - S
  PROVE  /\ OrigColumn(j, r) = offset % PS
         /\ GCFColumn(j, r) = PS \div 2 + offset
<1>1. half_size \in Nat /\ half_size > 0 /\ half_size < S
  BY SMT DEF half_size
<1> DEFINE h == half_size
<1> HIDE DEF h
<1>2. h \in Nat /\ h > 0 /\ h < S /\ h = half_size
  BY <1>1 DEF h
<1>3. \E q \in left \union right : q[1] <= j /\ j < q[2]
  <2>1. CASE j < h
    <3>1. CASE left = {<<0, h>>}
      <4>1. <<0, h>> \in left \union right
        BY <3>1
      <4> QED BY <4>1, <1>2, <2>1
    <3>2. ASSUME NEW c \in 1 .. h - 1, left = {<<0, c>>, <<c, h>>} PROVE \E q \in left \union right : q[1] <= j /\ j < q[2]
      <4>1. <<0, c>> \in left \union right /\ <<c, h>> \in left \union right
        BY <3>2
      <4> QED BY <4>1, <1>2, <2>1
    <3> QED BY <1>2, <3>1, <3>2 DEF Split
  <2>2. CASE j >= h
    <3>1. CASE right = {<<h, S>>}
      <4>1. <<h, S>> \in left \union right
        BY <3>1
      <4> QED BY <4>1, <1>2, <2>2
    <3>2. ASSUME NEW c \in h + 1 .. S - 1, right = {<<h, c>>, <<c, S>>} PROVE \E q \in left \union right : q[1] <= j /\ j < q[2]
      <4>1. <<h, c>> \in left \union right /\ <<c, S>> \in left \union right
        BY <3>2
      <4> QED BY <4>1, <1>2, <2>2
    <3> QED BY <1>2, <3>1, <3>2 DEF Split
  <2> QED BY <2>1, <2>2, <1>2
<1>4. r \in left \union right /\ r[1] <= j /\ j < r[2]
  BY <1>3
<1>5. r[1] \in Int /\ r[2] \in Int /\ (r[1] < h <=> j < h)
  <2>1. CASE r \in left
    BY <1>2, <1>4, <2>1 DEF Split
  <2>2. CASE r \in right
    BY <1>2, <1>4, <2>2 DEF Split
  <2> QED BY <1>4, <2>1, <2>2
<1>6. offset \in Int /\ -PS <= offset /\ offset < PS
  BY <1>2
<1>7. offset % PS = IF offset < 0 THEN offset + PS ELSE offset
  <2>1. PS \in Nat \ {0}
    BY <1>2
  <2> QED BY <1>6, <2>1, SignedResidue
<1>8. OrigColumn(j, r) = IF j < h THEN j ELSE PS + j - S
  BY <1>2, <1>5 DEF OrigColumn
<1>9. GCFColumn(j, r) = IF j < h THEN j + PS \div 2 ELSE PS \div 2 + j - S
  BY <1>2, <1>5 DEF GCFColumn
<1> QED BY <1>2, <1>6, <1>7, <1>8, <1>9

\* The same for a row.
LEMMA RowAligned ==
  ASSUME NEW S \in Nat \ {0}, NEW PS \in Nat, S % 4 = 0, PS % 4 = 0, PS >= S,
         S = img.image_size, PS = padded_size,
         NEW i \in 0 .. S - 1,
         NEW offset, offset = IF i < half_size THEN i ELSE i - S
  PROVE  /\ OrigRow(i) = offset % PS
         /\ GCFRow(i) = PS \div 2 + offset
<1> DEFINE h == half_size
<1>1. h \in Nat /\ h > 0 /\ 2 * h = S
  BY SMT DEF half_size
<1> HIDE DEF h
<1>2. offset \in Int /\ -PS <= offset /\ offset < PS /\ h = half_size
  BY <1>1 DEF h
<1>3. offset % PS = IF offset < 0 THEN offset + PS ELSE offset
  BY <1>2, SignedResidue
<1>4. OrigRow(i) = IF i < h THEN i ELSE PS - h + (i - h)
  BY <1>2 DEF OrigRow
<1>5. GCFRow(i) = IF i < h THEN PS \div 2 + i ELSE PS \div 2 - h + (i - h)
  BY <1>2 DEF GCFRow
<1> QED BY <1>1, <1>2, <1>3, <1>4, <1>5

(***************************************************************************)
(* Normalise: the result m, and no other, is aligned.                      *)
(***************************************************************************)
LEMMA NormaliseAligns ==
  ASSUME NEW m \in Results, Normalise(m), DOMAIN norm_result = Results,
         img.image_size \in Nat \ {0}, img.image_size % 4 = 0,
         padded_size \in Nat, padded_size % 4 = 0, padded_size >= img.image_size
  PROVE  /\ DOMAIN norm_result' = Results
         /\ Aligned(m)'
         /\ \A n \in Results \ {m} : norm_result'[n] = norm_result[n]
<1> DEFINE S == img.image_size
           PS == padded_size
           Offset(i) == IF i < half_size THEN i ELSE i - S
           RangeOf(left, right, j) == CHOOSE r \in left \union right : r[1] <= j /\ j < r[2]
           Pixel(left, right, p) ==
             [at  |-> <<OrigRow(p[1]), OrigColumn(p[2], RangeOf(left, right, p[2]))>>,
              gcf |-> IF img.gridding_correction
                      THEN <<GCFRow(p[1]), GCFColumn(p[2], RangeOf(left, right, p[2]))>> ELSE <<>>]
<1>1. PICK left \in Split(0, half_size), right \in Split(half_size, S) :
        norm_result' = [norm_result EXCEPT ![m] = [p \in Pixels |-> Pixel(left, right, p)]]
  BY DEF Normalise
<1>2. norm_result'[m] = [p \in Pixels |-> Pixel(left, right, p)]
  BY <1>1
<1>3. ASSUME NEW p \in Pixels
      PROVE  /\ norm_result'[m][p].at = <<Offset(p[1]) % PS, Offset(p[2]) % PS>>
             /\ img.gridding_correction =>
                  norm_result'[m][p].gcf = <<PS \div 2 + Offset(p[1]), PS \div 2 + Offset(p[2])>>
  <2>1. p[1] \in 0 .. S - 1 /\ p[2] \in 0 .. S - 1
    BY DEF Pixels
  <2>2. OrigRow(p[1]) = Offset(p[1]) % PS /\ GCFRow(p[1]) = PS \div 2 + Offset(p[1])
    BY <2>1, RowAligned
  <2>3. /\ OrigColumn(p[2], RangeOf(left, right, p[2])) = Offset(p[2]) % PS
        /\ GCFColumn(p[2], RangeOf(left, right, p[2])) = PS \div 2 + Offset(p[2])
    BY <2>1, ColumnAligned
  <2>4. norm_result'[m][p] = Pixel(left, right, p)
    BY <1>2
  <2> HIDE DEF RangeOf, Offset, PS
  <2> QED BY <2>2, <2>3, <2>4
<1>4. img' = img
  BY DEF Normalise
<1>5. Aligned(m)'
  BY <1>3, <1>4 DEF Aligned, Pixels, half_size, padded_size
<1> QED BY <1>1, <1>5

\* What alignment depends on.
LEMMA AlignedUnchanged ==
  ASSUME NEW m, img' = img, norm_result'[m] = norm_result[m]
  PROVE  Aligned(m)' <=> Aligned(m)
BY DEF Aligned, Pixels, half_size, padded_size

(***************************************************************************)
(* A step that moves on in image_visibilities and leaves sizes, matrices   *)
(* and results as they are.                                                *)
(***************************************************************************)
LEMMA ControlStep ==
  ASSUME IInv, UNCHANGED <<img, grids, fft_result, norm_result>>,
         ipc' = ipc \/ (ipc \notin BeforeSizes /\ ipc' \notin BeforeSizes),
         \A m \in Results : /\ ipc' \in Shared(m) => ipc \in Shared(m)
                            /\ ipc' \in After(m) => ipc \in After(m)
                            /\ ipc \in Normalised(m) => ipc' \in Normalised(m)
  PROVE  SizesOK' /\ MatricesOK' /\ ResultsOK'
<1>1. SizesOK'
  BY DEF IInv, SizesOK, BeforeSizes, padded_size
<1>2. \A m \in Results : Wanted(m)' <=> Wanted(m)
  BY DEF Wanted
<1>3. SharedRows' = SharedRows /\ padded_size' = padded_size /\ (InPlace' <=> InPlace)
  BY DEF SharedRows, half_rows, padded_size, InPlace
<1>4. MatricesOK'
  BY <1>2, <1>3 DEF IInv, MatricesOK, Shared, After
<1>5. ResultsOK'
  BY <1>2, AlignedUnchanged DEF IInv, ResultsOK, Normalised
<1> QED BY <1>1, <1>4, <1>5

\* Without a call neither the gridder nor the kernels take a step.
LEMMA QuietGridder ==
  ASSUME gpc = "idle", kpc = "idle"
  PROVE  ~ GridderStep /\ ~ WideStep
<1>1. ~ GridderStep
  BY DEF GridderStep, StartGridder, KernelImageTransformed, AverageLha, StartPlane,
         MultiplyPlaneKernel, PlaneKernelMultiplied, StartStep, CacheKernel, GridVisibilities,
         GridderDone, TransformFails
<1>2. ~ WideStep
  BY DEF WideStep, TransformProduct, Transformed, Truncate, Interpolate
<1> QED BY <1>1, <1>2

------------------------------------------------------------------------------
(* Every step preserves the invariant.                                      *)

LEMMA StepIInv == IInv /\ [ImagerNext]_imagervars => IInv'
<1> SUFFICES ASSUME IInv, [ImagerNext]_imagervars PROVE IInv'
  OBVIOUS
<1> USE DEF IInv
<1> DEFINE Kept4 == UNCHANGED <<img, grids, fft_result, norm_result>>
<1>1. ASSUME NEW c \in ImageCalls, CallImager(c) PROVE IInv'
  <2>1. ipc = "idle" /\ ipc' = "sizes" /\ img' = c
        /\ UNCHANGED <<grids, fft_result, norm_result, gpc, kpc>>
    BY <1>1 DEF CallImager, gridvars, widevars
  <2>2. \A m \in Results : norm_result[m] = Empty
    BY <2>1 DEF ResultsOK, Normalised
  <2>3. \A m \in Results : ipc' \notin Shared(m) /\ ipc' \notin After(m)
    BY <2>1 DEF Shared, After
  <2>4. SizesOK' /\ GridderQuiet' /\ TransformOK'
    BY <2>1 DEF SizesOK, BeforeSizes, GridderQuiet, Waiting, TransformOK
  <2>5. MatricesOK'
    BY <2>1, <2>3 DEF MatricesOK
  <2>6. ResultsOK'
    BY <2>1, <2>2 DEF ResultsOK
  <2> QED BY <2>4, <2>5, <2>6
<1>2. CASE SetImageSizes
  <2>1. ipc = "sizes" /\ ipc' = "check"
        /\ UNCHANGED <<grids, fft_result, norm_result, gpc, kpc>>
    BY <1>2 DEF SetImageSizes, awvars, gridvars, kernelvars, widevars
  <2>2. SizesOK'
    BY <1>2, <2>1, SizesAreSet DEF SizesOK, BeforeSizes
  <2>3. GridderQuiet' /\ TransformOK'
    BY <2>1 DEF GridderQuiet, Waiting, TransformOK
  <2>4. \A m \in Results : ipc' \notin Shared(m) /\ ipc' \notin After(m)
    BY <2>1 DEF Shared, After
  <2>5. \A m \in Results : norm_result[m] = Empty
    BY <2>1 DEF ResultsOK, Normalised
  <2>6. MatricesOK'
    BY <2>1, <2>4 DEF MatricesOK
  <2>7. ResultsOK'
    BY <2>1, <2>5 DEF ResultsOK
  <2> QED BY <2>2, <2>3, <2>6, <2>7
<1>3. ASSUME Kept4, UNCHANGED <<gpc, kpc, transform>>,
             \/ ipc = "check" /\ ipc' \in {"aborted", "threw", "init_fftw"}
             \/ ipc = "init_fftw" /\ ipc' \in {"threw", "grid"}
             \/ ipc = "clean_up" /\ ipc' = "done"
             \/ ipc \in {"fft_image", "fft_beam", "fft_gcf", "gridding"} /\ ipc' \in {"threw", "aborted"}
             \/ ipc' = ipc
      PROVE  IInv'
  <2>1. SizesOK' /\ MatricesOK' /\ ResultsOK'
    BY <1>3, ControlStep DEF BeforeSizes, Shared, After, Normalised, Results
  <2>2. GridderQuiet' /\ TransformOK'
    BY <1>3 DEF GridderQuiet, Waiting, TransformOK, padded_size
  <2> QED BY <2>1, <2>2
<1>4. CASE CheckParameters \/ InitFFTW \/ CleanUpThreads \/ ImagerFails
  BY <1>3, <1>4 DEF CheckParameters, InitFFTW, CleanUpThreads, ImagerFails,
       awvars, gridvars, kernelvars, widevars, fftvars
<1>5. CASE Grid
  <2>1. ipc = "grid" /\ ipc' = "gridding" /\ Kept4
    BY <1>5 DEF Grid
  <2>2. SizesOK' /\ MatricesOK' /\ ResultsOK'
    BY <2>1, ControlStep DEF BeforeSizes, Shared, After, Normalised, Results
  <2>3. GridderQuiet' /\ TransformOK'
    BY <2>1 DEF GridderQuiet, Waiting, TransformOK
  <2> QED BY <2>2, <2>3
<1>6. CASE GridsReturned
  <2>1. ipc = "gridding" /\ ipc' = "transform_image" /\ UNCHANGED <<img, norm_result>>
    BY <1>6 DEF GridsReturned
  <2>2. SizesOK' /\ TransformOK'
    BY <2>1 DEF SizesOK, TransformOK, BeforeSizes, padded_size
  <2>3. GridderQuiet'
    BY <1>6 DEF GridsReturned, ReturnGridder, ReturnFromGridder, DestroyKernels, GridderQuiet
  <2>4. SharedRows' = SharedRows /\ padded_size' = padded_size /\ (InPlace' <=> InPlace)
        /\ \A m \in Results : Wanted(m)' <=> Wanted(m)
    BY <2>1 DEF SharedRows, half_rows, padded_size, InPlace, Wanted
  <2>5. SharedRows \in Int
    BY <2>1, RealRowsOfHalf DEF SizesOK, BeforeSizes, SharedRows
  <2>6. /\ DOMAIN grids' = Results
        /\ \A m \in Results : Wanted(m) => grids'[m] = "grid"
    BY <1>6 DEF GridsReturned, Results, Wanted
  <2>7. fft_result' = [m \in Results |->
                         IF InPlace /\ grids'[m] = "grid"
                         THEN [memory |-> "grids", n_rows |-> SharedRows, plan_rows |-> 0]
                         ELSE NoMatrix]
    BY <1>6 DEF GridsReturned, SharedRows
  <2>8. MatricesOK'
    <3>1. fft_result' \in [Results -> [memory : {"none", "grids", "own"}, n_rows : Int, plan_rows : Int]]
      BY <2>5, <2>7 DEF NoMatrix
    <3>2. \A m \in Results : Wanted(m) /\ InPlace => fft_result'[m].n_rows = SharedRows
      BY <2>6, <2>7
    <3>3. \A m \in Results : ipc' \notin After(m)
      BY <2>1 DEF After
    <3> QED BY <2>4, <2>6, <3>1, <3>2, <3>3 DEF MatricesOK
  <2>9. ResultsOK'
    BY <2>1 DEF ResultsOK, Normalised
  <2> QED BY <2>2, <2>3, <2>8, <2>9
<1>7. ASSUME TransformGrid, \/ ipc = "transform_image" /\ ipc' = "fft_image"
                            \/ ipc = "transform_beam" /\ ipc' = "fft_beam"
      PROVE  IInv'
  <2>1. Kept4 /\ UNCHANGED <<gpc, kpc>>
    BY <1>7 DEF TransformGrid, gridvars, widevars
  <2>2. SizesOK' /\ MatricesOK' /\ ResultsOK'
    BY <1>7, <2>1, ControlStep DEF BeforeSizes, Shared, After, Normalised, Results
  <2>3. GridderQuiet'
    BY <1>7, <2>1 DEF GridderQuiet, Waiting
  <2>4. TransformOK'
    <3>1. transform'.n_rows = RealRows(half_rows)
      BY <1>7 DEF TransformGrid, CallC2R, Call
    <3>2. padded_size \in Nat /\ padded_size % 4 = 0
      BY <1>7 DEF SizesOK, BeforeSizes
    <3> QED BY <1>7, <2>1, <3>1, <3>2, RealRowsOfHalf DEF TransformOK, padded_size
  <2> QED BY <2>2, <2>3, <2>4
<1>8. CASE TransformImage \/ TransformBeam
  BY <1>7, <1>8 DEF TransformImage, TransformBeam
<1>9. ASSUME NEW m \in Results, Transformed2D(m),
             \/ m = "image" /\ ipc = "fft_image" /\ ipc' \in {"transform_beam", "gcf"}
                /\ (ipc' = "gcf" => ~ img.generate_beam)
             \/ m = "beam" /\ ipc = "fft_beam" /\ ipc' = "gcf"
      PROVE  IInv'
  <2>1. UNCHANGED <<img, norm_result, gpc, kpc>>
    BY <1>9 DEF Transformed2D, gridvars, widevars
  <2>2. /\ SharedRows' = SharedRows /\ padded_size' = padded_size /\ (InPlace' <=> InPlace)
        /\ \A n \in Results : Wanted(n)' <=> Wanted(n)
    BY <2>1 DEF SharedRows, half_rows, padded_size, InPlace, Wanted
  <2>3. SizesOK'
    BY <1>9, <2>1, <2>2 DEF SizesOK, BeforeSizes
  <2>4. GridderQuiet' /\ TransformOK'
    BY <1>9, <2>1 DEF GridderQuiet, Waiting, TransformOK
  <2>5. transform.n_rows = padded_size /\ padded_size \in Int
    BY <1>9 DEF TransformOK, SizesOK, BeforeSizes
  <2>6. /\ grids' = [grids EXCEPT ![m] = IF Kept THEN "sky" ELSE "reset"]
        /\ fft_result' = [fft_result EXCEPT ![m].memory    = IF InPlace THEN @ ELSE "own",
                                            ![m].n_rows    = IF InPlace THEN @ ELSE padded_size,
                                            ![m].plan_rows = padded_size]
    BY <1>9, <2>5 DEF Transformed2D
  <2>7. /\ \A n \in Results \ {m} : fft_result'[n] = fft_result[n] /\ grids'[n] = grids[n]
        /\ DOMAIN grids' = Results
        /\ fft_result' \in [Results -> [memory : {"none", "grids", "own"}, n_rows : Int, plan_rows : Int]]
    <3> DEFINE M == [memory : {"none", "grids", "own"}, n_rows : Int, plan_rows : Int]
               matrix == [fft_result[m] EXCEPT !.memory    = IF InPlace THEN @ ELSE "own",
                                               !.n_rows    = IF InPlace THEN @ ELSE padded_size,
                                               !.plan_rows = padded_size]
    <3>1. DOMAIN grids = Results /\ fft_result \in [Results -> M]
      BY DEF MatricesOK
    <3>2. fft_result' = [fft_result EXCEPT ![m] = matrix]
      BY <2>6, <3>1
    <3>3. matrix \in M
      BY <2>5, <3>1
    <3> HIDE DEF M, matrix
    <3>4. fft_result' \in [Results -> M] /\ \A n \in Results \ {m} : fft_result'[n] = fft_result[n]
      BY <3>1, <3>2, <3>3
    <3>5. DOMAIN grids' = Results /\ \A n \in Results \ {m} : grids'[n] = grids[n]
      BY <2>6, <3>1
    <3> QED BY <3>4, <3>5 DEF M
  <2>8. /\ fft_result'[m].plan_rows = padded_size
        /\ fft_result'[m].n_rows = IF InPlace THEN fft_result[m].n_rows ELSE padded_size
        /\ fft_result'[m].memory = "grids" => grids'[m] = "sky"
    BY <2>5, <2>6 DEF MatricesOK, Kept
  <2>9. Wanted(m) /\ InPlace => fft_result[m].n_rows = SharedRows
    BY <1>9 DEF MatricesOK, Shared
  <2>10. MatricesOK'
    <3> SUFFICES ASSUME NEW n \in Results
                 PROVE  /\ ipc' \in Shared(n) /\ Wanted(n) /\ InPlace => fft_result'[n].n_rows = SharedRows
                        /\ ipc' \in After(n) /\ Wanted(n) =>
                             /\ fft_result'[n].plan_rows = padded_size
                             /\ fft_result'[n].n_rows = IF InPlace THEN SharedRows ELSE padded_size
                             /\ fft_result'[n].memory = "grids" => grids'[n] = "sky"
      BY <2>2, <2>7 DEF MatricesOK
    <3>1. CASE n = m
      BY <2>8, <2>9, <3>1 DEF MatricesOK
    <3>2. CASE n # m
      <4>1. fft_result'[n] = fft_result[n] /\ grids'[n] = grids[n]
        BY <2>7, <3>2
      <4>2. (ipc' \in Shared(n) => ipc \in Shared(n)) /\ (ipc' \in After(n) /\ Wanted(n) => ipc \in After(n))
        BY <1>9, <3>2 DEF Shared, After, Results, Wanted
      <4> QED BY <4>1, <4>2 DEF MatricesOK
    <3> QED BY <3>1, <3>2
  <2>11. ResultsOK'
    BY <1>9, <2>1 DEF ResultsOK, Normalised
  <2> QED BY <2>3, <2>4, <2>10, <2>11
<1>10. CASE ImageTransformed \/ BeamTransformed
  BY <1>9, <1>10 DEF ImageTransformed, BeamTransformed, Results
<1>11. CASE ComputeGCF \/ GCFTransformed
  <2>1. Kept4 /\ UNCHANGED <<gpc, kpc>>
    BY <1>11 DEF ComputeGCF, GCFTransformed, gridvars, widevars
  <2>2. \/ ipc = "gcf" /\ ipc' \in {"fft_gcf", "normalise_image", "clean_up"}
        \/ ipc = "fft_gcf" /\ ipc' = "normalise_image"
    BY <1>11 DEF ComputeGCF, GCFTransformed
  <2>3. SizesOK' /\ MatricesOK' /\ ResultsOK'
    BY <2>1, <2>2, ControlStep DEF BeforeSizes, Shared, After, Normalised, Results
  <2>4. GridderQuiet' /\ TransformOK'
    BY <2>1, <2>2 DEF GridderQuiet, Waiting, TransformOK
  <2> QED BY <2>3, <2>4
<1>12. ASSUME NEW m \in Results, Normalise(m), Wanted(m),
              \/ m = "image" /\ ipc = "normalise_image" /\ ipc' \in {"normalise_beam", "clean_up"}
                 /\ (ipc' = "normalise_beam" => img.generate_beam)
              \/ m = "beam" /\ ipc = "normalise_beam" /\ ipc' = "clean_up"
       PROVE  IInv'
  <2>1. UNCHANGED <<img, grids, fft_result, gpc, kpc>>
    BY <1>12 DEF Normalise, awvars, gridvars, kernelvars, widevars
  <2>2. /\ SharedRows' = SharedRows /\ padded_size' = padded_size /\ (InPlace' <=> InPlace)
        /\ \A n \in Results : Wanted(n)' <=> Wanted(n)
    BY <2>1 DEF SharedRows, half_rows, padded_size, InPlace, Wanted
  <2>3. SizesOK'
    BY <1>12, <2>1, <2>2 DEF SizesOK, BeforeSizes
  <2>4. GridderQuiet' /\ TransformOK'
    BY <1>12, <2>1 DEF GridderQuiet, Waiting, TransformOK
  <2>5. MatricesOK'
    BY <1>12, <2>1, <2>2 DEF MatricesOK, Shared, After
  <2>6. /\ DOMAIN norm_result' = Results
        /\ Aligned(m)'
        /\ \A n \in Results \ {m} : norm_result'[n] = norm_result[n]
    <3>1. /\ img.image_size \in Nat \ {0} /\ img.image_size % 4 = 0
          /\ padded_size \in Nat /\ padded_size % 4 = 0 /\ padded_size >= img.image_size
      BY <1>12 DEF SizesOK, BeforeSizes
    <3>2. DOMAIN norm_result = Results
      BY DEF ResultsOK
    <3> QED BY <1>12, <3>1, <3>2, NormaliseAligns
  <2>7. ASSUME NEW n \in Results, norm_result'[n] # Empty
        PROVE  ipc' \in Normalised(n) /\ Wanted(n) /\ Aligned(n)'
    <3>1. CASE n = m
      BY <1>12, <2>6, <3>1 DEF Normalised
    <3>2. CASE n # m
      <4>1. ipc \in Normalised(n) /\ Wanted(n) /\ Aligned(n)
        BY <2>6, <2>7, <3>2 DEF ResultsOK
      <4>2. Aligned(n)'
        BY <2>1, <2>6, <3>2, <4>1, AlignedUnchanged
      <4> QED BY <1>12, <4>1, <4>2 DEF Normalised
    <3> QED BY <3>1, <3>2
  <2>8. ResultsOK'
    BY <2>2, <2>6, <2>7 DEF ResultsOK
  <2> QED BY <2>3, <2>4, <2>5, <2>8
<1>13. CASE NormaliseImage
  BY <1>12, <1>13 DEF NormaliseImage, Results, Wanted
<1>14. CASE NormaliseBeam
  <2>1. Wanted("beam")
    BY <1>14 DEF NormaliseBeam, TransformOK, Wanted
  <2> QED BY <1>12, <1>14, <2>1 DEF NormaliseBeam, Results
<1>15. CASE GridderStep /\ UNCHANGED imgvars
  <2>1. ipc' = ipc /\ Kept4
    BY <1>15 DEF imgvars
  <2>2. ipc \in Waiting
    BY <1>15, QuietGridder DEF GridderQuiet
  <2>3. SizesOK' /\ MatricesOK' /\ ResultsOK'
    BY <2>1, ControlStep
  <2> QED BY <2>1, <2>2, <2>3 DEF GridderQuiet, TransformOK, Waiting
<1>16. CASE WideStep /\ UNCHANGED <<gridvars, imgvars>>
  <2>1. ipc' = ipc /\ Kept4
    BY <1>16 DEF imgvars
  <2>2. ipc \in Waiting
    BY <1>16, QuietGridder DEF GridderQuiet
  <2>3. SizesOK' /\ MatricesOK' /\ ResultsOK'
    BY <2>1, ControlStep
  <2> QED BY <2>1, <2>2, <2>3 DEF GridderQuiet, TransformOK, Waiting
<1>17. CASE FFTStep /\ UNCHANGED <<aw, widevars, gridvars, imgvars>>
  <2>1. transform' = transform
    BY <1>17 DEF FFTStep, Plan, RetryWithEstimate, Execute
  <2> QED BY <1>3, <1>17, <2>1 DEF widevars, gridvars, imgvars
<1>18. CASE UNCHANGED imagervars
  BY <1>3, <1>18 DEF imagervars, awvars, kernelvars, fftvars, widevars, gridvars, imgvars
<1> QED
  BY <1>1, <1>2, <1>4, <1>5, <1>6, <1>8, <1>10, <1>11, <1>13, <1>14, <1>15, <1>16, <1>17, <1>18
  DEF ImagerNext, ImagerStep

(***************************************************************************)
(* Every pixel of the image and of the beam comes from the element of the  *)
(* transform, and is corrected by the elements of the image-domain kernel, *)
(* that have its own offset from the centre: for every image size and      *)
(* padding factor that set_image_sizes may be given.                       *)
(***************************************************************************)
THEOREM ImagesAligned == ImagerSpec => []NormalisationAligned
<1>1. ImagerIdle => IInv
  BY InitIInv
<1>2. IInv /\ [ImagerNext]_imagervars => IInv'
  BY StepIInv
<1>3. IInv => NormalisationAligned
  BY IInvAligned
<1> QED BY <1>1, <1>2, <1>3, PTL DEF ImagerSpec

------------------------------------------------------------------------------
(***************************************************************************)
(* The gridder that image_visibilities calls: every visibility meets the   *)
(* kernel of its own plane and time step, and the steps span their times.  *)
(***************************************************************************)

\* The gridder has been called and has not failed.
Active == gpc \notin {"idle", "threw", "aborted"}

\* It is at plane pi.
Busy == {"wplane", "step_kernel", "steps", "step", "grid"}

\* A-projection is combined with W-projection by FFT only.
Allowed(a) == a.num_timesteps > 0 => a.num_wplanes > 0 /\ ~ a.hankel_opt

\* The first visibility of plane p, or the number of visibilities.
Bound(p) == IF p = Planes THEN Cardinality(Visibilities) ELSE vi_begin(p)

\* The gridder has got past visibility v.
Reached(v) ==
  \/ v < Bound(pi)
  \/ gpc \in Busy /\ v < Bound(pi + 1) /\ use_aproj /\ vis_timesteps[v] < ts

\* What OwnPlaneAndStep says of the kernel that v was gridded with.
Own(v, kernel) ==
  /\ vi_begin(kernel.plane) <= v /\ v < vi_end(kernel.plane)
  /\ use_aproj /\ (RotatesKernel => vis_timesteps[v] = 0)
       => kernel.rotations = <<lha_planes[vis_timesteps[v]]>>

------------------------------------------------------------------------------
(* The inductive invariant of the gridder.                                  *)

CallOK ==
  /\ ipc # "idle" => "gridder" \in DOMAIN img /\ GridderArguments(img.gridder)
  /\ ipc \in {"init_fftw", "grid"} => Allowed(img.gridder)

ArgumentsOK == Active => GridderArguments(aw) /\ Allowed(aw)

PlaceOK ==
  /\ gpc = "idle" => pi = 0 /\ vis_timesteps = <<>>
  /\ Active => pi \in 0 .. Planes
  /\ gpc \in {"start", "kernel_img"} => pi = 0 /\ kpc = "idle" /\ vis_timesteps = <<>>
  /\ gpc \in Busy => pi < Planes
  /\ gpc \in Busy /\ use_aproj => ts \in 0 .. T - 1
  /\ gpc \in {"wplane", "step_kernel"} => use_aproj /\ RotatesKernel
  /\ gpc = "steps" => use_aproj
  /\ gpc = "step" => use_wproj
  /\ gpc = "done" => pi = Planes

StepsOK ==
  Active /\ use_aproj =>
    IF vis_timesteps = <<>> THEN pi = 0 /\ gpc \notin Busy
    ELSE \A v \in Visibilities : aw.vis[v].good # 0 => vis_timesteps[v] \in 0 .. T - 1

\* Which kernel there is, as the image-domain kernel, in conv_kernel and in the cache.
PlaneKernelOK ==
  Active =>
    /\ use_wproj /\ gpc \in Busy => w_plane = pi
    /\ use_aproj => kpc # "interpolate"
    /\ ~ use_aproj =>
         /\ kpc = "fft" /\ ~ aw.hankel_opt => transform.kind = "c2c"
         /\ kpc = "truncate" /\ ~ aw.hankel_opt => conv_kernel.plane = w_plane
         /\ kpc = "kernel" => conv_kernel.plane = w_plane
    /\ use_aproj /\ ~ RotatesKernel /\ gpc = "step" =>
         conv_kernel = [plane |-> pi, rotations |-> <<lha_planes[ts]>>]

RotatedKernelOK ==
  Active /\ use_aproj /\ RotatesKernel =>
    /\ gpc \in {"step_kernel", "steps", "step", "grid"} =>
         conv_kernel = [plane |-> pi, rotations |-> conv_kernel.rotations]
    /\ gpc \in {"step_kernel", "steps"} /\ ts = 0 => conv_kernel.rotations = <<>>
    /\ gpc = "step" /\ ts = 0 => conv_kernel.rotations = <<lha_planes[ts]>>

CachedKernelOK ==
  Active =>
    /\ ~ use_wproj /\ gpc \in {"kernel_img", "planes", "grid"} => kernel_cache.plane = 0
    /\ gpc = "grid" =>
         /\ kernel_cache.plane = pi
         /\ use_aproj /\ (RotatesKernel => ts = 0) => kernel_cache.rotations = <<lha_planes[ts]>>

GriddedOK ==
  Active =>
    /\ DOMAIN gridded = Visibilities
    /\ \A v \in Visibilities :
         IF aw.vis[v].good # 0 /\ Reached(v)
         THEN Len(gridded[v]) = 1 /\ Own(v, gridded[v][1])
         ELSE gridded[v] = <<>>

GInv == CallOK /\ ArgumentsOK /\ PlaceOK /\ StepsOK /\ PlaneKernelOK /\ RotatedKernelOK
          /\ CachedKernelOK /\ GriddedOK

------------------------------------------------------------------------------
(***************************************************************************)
(* The visibilities of the planes: from 0, one plane after the other, to   *)
(* the last one.                                                           *)
(***************************************************************************)
LEMMA Bounds ==
  ASSUME GridderArguments(aw)
  PROVE  /\ Planes \in Nat \ {0}
         /\ Visibilities = 0 .. Cardinality(Visibilities) - 1 /\ Cardinality(Visibilities) \in Nat
         /\ Bound(0) = 0 /\ Bound(Planes) = Cardinality(Visibilities)
         /\ \A p \in 0 .. Planes - 1 :
              /\ Bound(p) \in Nat /\ Bound(p + 1) \in Nat
              /\ Bound(p) <= Bound(p + 1)
              /\ vi_begin(p) = Bound(p) /\ vi_end(p) = Bound(p + 1)
<1> DEFINE n == Cardinality(Visibilities)
<1>1. n \in Nat /\ Visibilities = 0 .. n - 1
  BY DEF GridderArguments, Visibilities
<1>2. Bound(Planes) = n
  BY DEF Bound
<1>3. CASE ~ use_wproj
  <2>1. Planes = 1 /\ \A p : vi_begin(p) = 0
    BY <1>3 DEF Planes, vi_begin
  <2>2. Bound(0) = 0 /\ Bound(1) = n /\ vi_end(0) = n
    BY <2>1 DEF Bound, vi_end
  <2>3. 0 .. Planes - 1 = {0}
    BY <2>1
  <2> HIDE DEF n
  <2> QED BY <1>1, <1>2, <2>1, <2>2, <2>3 DEF n
<1>4. CASE use_wproj
  <2>1. Planes = aw.num_wplanes /\ Planes \in Nat \ {0}
        /\ \A p : vi_begin(p) = aw.w_planes_firstidx[p]
    BY <1>4 DEF Planes, vi_begin, use_wproj, GridderArguments
  <2>2. /\ aw.w_planes_firstidx \in [0 .. Planes - 1 -> 0 .. n]
        /\ aw.w_planes_firstidx[0] = 0
        /\ \A p \in 1 .. Planes - 1 : aw.w_planes_firstidx[p - 1] <= aw.w_planes_firstidx[p]
    BY <1>4, <2>1 DEF use_wproj, GridderArguments, Visibilities
  <2>3. Bound(0) = 0
    BY <2>1, <2>2 DEF Bound
  <2> HIDE DEF n
  <2>4. ASSUME NEW p \in 0 .. Planes - 1
        PROVE  /\ Bound(p) \in Nat /\ Bound(p + 1) \in Nat
               /\ Bound(p) <= Bound(p + 1)
               /\ vi_begin(p) = Bound(p) /\ vi_end(p) = Bound(p + 1)
    <3>1. Bound(p) = aw.w_planes_firstidx[p] /\ vi_begin(p) = Bound(p) /\ Bound(p) \in 0 .. n
      BY <2>1, <2>2 DEF Bound
    <3>2. CASE p = Planes - 1
      <4>1. Bound(p + 1) = n /\ vi_end(p) = n
        BY <2>1, <3>2 DEF Bound, vi_end, n
      <4> QED BY <1>1, <3>1, <4>1
    <3>3. CASE p # Planes - 1
      <4>1. p + 1 \in 1 .. Planes - 1 /\ p + 1 # Planes /\ (p + 1) - 1 = p
        BY <2>1, <3>3
      <4>2. Bound(p + 1) = aw.w_planes_firstidx[p + 1] /\ vi_end(p) = Bound(p + 1)
        BY <2>1, <3>3, <4>1 DEF Bound, vi_end
      <4> DEFINE q == p + 1
      <4>3. aw.w_planes_firstidx[q - 1] <= aw.w_planes_firstidx[q] /\ aw.w_planes_firstidx[q] \in 0 .. n
        <5>1. q \in 1 .. Planes - 1 /\ q \in 0 .. Planes - 1
          BY <4>1
        <5> HIDE DEF q
        <5> QED BY <2>2, <5>1
      <4> QED BY <1>1, <3>1, <4>1, <4>2, <4>3
    <3> QED BY <3>2, <3>3
  <2> QED BY <1>1, <1>2, <2>1, <2>3, <2>4 DEF n
<1> QED BY <1>3, <1>4

(***************************************************************************)
(* The times of all visibilities lie between two of them.                  *)
(***************************************************************************)
LEMMA TimesSpan ==
  ASSUME GridderArguments(aw), Visibilities # {}
  PROVE  /\ min_time \in Int /\ max_time \in Int /\ min_time <= max_time
         /\ \A v \in Visibilities :
              aw.vis[v].lha \in Int /\ min_time <= aw.vis[v].lha /\ aw.vis[v].lha <= max_time
<1> DEFINE times == {aw.vis[v].lha : v \in Visibilities}
           n     == Cardinality(Visibilities)
           lha   == [v \in Visibilities |-> aw.vis[v].lha]
<1>1. \A v \in Visibilities : aw.vis[v].lha \in Int
  BY DEF GridderArguments, Visibilities
<1>2. PICK first \in Visibilities, last \in Visibilities :
        \A v \in Visibilities : aw.vis[first].lha <= aw.vis[v].lha /\ aw.vis[v].lha <= aw.vis[last].lha
  <2>1. n \in Nat /\ Visibilities = 0 .. n - 1
    BY Bounds
  <2>2. \A v \in 0 .. n - 1 : lha[v] = aw.vis[v].lha /\ lha[v] \in Int
    BY <1>1, <2>1
  <2> HIDE DEF n, lha
  <2>3. n \in Nat \ {0}
    BY <2>1
  <2>4. PICK lo \in 0 .. n - 1, hi \in 0 .. n - 1 :
          \A v \in 0 .. n - 1 : lha[lo] <= lha[v] /\ lha[v] <= lha[hi]
    BY <2>2, <2>3, Extremes
  <2>5. lo \in Visibilities /\ hi \in Visibilities
    BY <2>1, <2>4
  <2>6. ASSUME NEW v \in Visibilities
        PROVE  aw.vis[lo].lha <= aw.vis[v].lha /\ aw.vis[v].lha <= aw.vis[hi].lha
    <3>1. v \in 0 .. n - 1 /\ lha[lo] = aw.vis[lo].lha /\ lha[hi] = aw.vis[hi].lha /\ lha[v] = aw.vis[v].lha
      BY <2>1, <2>2, <2>4
    <3> QED BY <2>4, <3>1
  <2> QED BY <2>5, <2>6
<1>3. max_time \in times /\ \A y \in times : max_time >= y
  <2>1. \E x \in times : \A y \in times : x >= y
    BY <1>1, <1>2
  <2> HIDE DEF times
  <2>2. max_time = CHOOSE x \in times : \A y \in times : x >= y
    BY DEF max_time, Max, times
  <2> QED BY <2>1, <2>2
<1>4. min_time \in times /\ \A y \in times : min_time <= y
  <2>1. \E x \in times : \A y \in times : x <= y
    BY <1>1, <1>2
  <2> HIDE DEF times
  <2>2. min_time = CHOOSE x \in times : \A y \in times : x <= y
    BY DEF min_time, Min, times
  <2> QED BY <2>1, <2>2
<1> QED BY <1>1, <1>2, <1>3, <1>4

(***************************************************************************)
(* average_lha_planes: every time is in one of the T steps (the code's     *)
(* assertion seltimestep_idx < num_timesteps).                             *)
(***************************************************************************)
LEMMA StepExists ==
  ASSUME GridderArguments(aw), use_aproj, NEW v \in Visibilities
  PROVE  StepOf(aw.vis[v].lha) \in 0 .. T - 1
<1> DEFINE time  == aw.vis[v].lha
           later == {k \in 1 .. T : Scaled(time) <= TimeInterval(k)}
<1>1. T \in Nat \ {0}
  BY DEF GridderArguments, use_aproj, T
<1>2. min_time \in Int /\ max_time \in Int /\ min_time <= max_time /\ time \in Int /\ time <= max_time
  BY TimesSpan
<1>3. TimeInterval(T) >= Scaled(time)
  <2> DEFINE t == T
             lo == min_time
             hi == max_time
             x == time
  <2>1. TimeInterval(T) = 2 * t * t * lo - t * (hi - lo) + 2 * t * (t + 1) * (hi - lo)
    BY DEF TimeInterval, Scaled
  <2>2. Scaled(time) = 2 * t * t * x
    BY DEF Scaled
  <2>3. t \in Nat /\ lo \in Int /\ hi \in Int /\ x \in Int /\ lo <= hi /\ x <= hi
    BY <1>1, <1>2
  <2> HIDE DEF t, lo, hi, x
  <2> DEFINE tt == t * t
             td == t * (hi - lo)
  <2>4. tt \in Nat /\ td \in Nat
    BY <2>3, SMT
  <2>5. 2 * t * t * lo - t * (hi - lo) + 2 * t * (t + 1) * (hi - lo) = 2 * (tt * hi) + td
    BY <2>3, SMT
  <2>6. 2 * t * t * x = 2 * (tt * x)
    BY <2>3, SMT
  <2> HIDE DEF tt, td
  <2>7. tt * x <= tt * hi /\ tt * x \in Int /\ tt * hi \in Int
    BY <2>3, <2>4, SMT
  <2> QED BY <2>1, <2>2, <2>4, <2>5, <2>6, <2>7, SMT
<1>4. T \in later
  BY <1>1, <1>3
<1>5. \E k \in later : \A m \in later : k <= m
  <2>1. later \subseteq Nat /\ later # {}
    BY <1>4
  <2> HIDE DEF later
  <2> QED BY <2>1, LeastNatural
<1>6. Min(later) \in later
  <2>1. Min(later) = CHOOSE x \in later : \A y \in later : x <= y
    BY DEF Min
  <2> HIDE DEF later
  <2> QED BY <1>5, <2>1
<1>7. StepOf(time) = Min(later) - 1
  <2>1. later # {}
    BY <1>4
  <2>2. StepOf(time) = (IF later = {} THEN T + 1 ELSE Min(later)) - 1
    BY DEF StepOf
  <2> HIDE DEF later
  <2> QED BY <2>1, <2>2
<1>8. Min(later) \in 1 .. T
  BY <1>6
<1> HIDE DEF later
<1> QED BY <1>1, <1>7, <1>8

------------------------------------------------------------------------------
(***************************************************************************)
(* The invariant has what the property needs: in the end every visibility  *)
(* has been reached.                                                       *)
(***************************************************************************)
LEMMA GInvOwn == GInv => OwnPlaneAndStep
<1> SUFFICES ASSUME GInv, gpc = "done", NEW v \in Visibilities
             PROVE  /\ Len(gridded[v]) = IF aw.vis[v].good # 0 THEN 1 ELSE 0
                    /\ aw.vis[v].good # 0 => Own(v, gridded[v][1])
  BY DEF OwnPlaneAndStep, Own
<1>1. Active /\ pi = Planes /\ GridderArguments(aw)
  BY DEF Active, GInv, PlaceOK, ArgumentsOK
<1>2. Reached(v)
  BY <1>1, Bounds DEF Reached
<1> QED BY <1>1, <1>2 DEF GInv, GriddedOK

\* The parts of the invariant that say something of a gridder that has been called.
Rest == ArgumentsOK /\ PlaceOK /\ StepsOK /\ PlaneKernelOK /\ RotatedKernelOK /\ CachedKernelOK
          /\ GriddedOK

(***************************************************************************)
(* A gridder that has failed or returned.                                  *)
(***************************************************************************)
LEMMA NotActive ==
  ASSUME ~ Active, gpc = "idle" => pi = 0 /\ vis_timesteps = <<>>
  PROVE  Rest
BY DEF Rest, Active, Busy, ArgumentsOK, PlaceOK, StepsOK, PlaneKernelOK, RotatedKernelOK,
       CachedKernelOK, GriddedOK

LEMMA NotActiveNext ==
  ASSUME ~ Active', gpc' = "idle" => pi' = 0 /\ vis_timesteps' = <<>>
  PROVE  Rest'
BY DEF Rest, Active, Busy, ArgumentsOK, PlaceOK, StepsOK, PlaneKernelOK, RotatedKernelOK,
       CachedKernelOK, GriddedOK

(***************************************************************************)
(* What depends on nothing but the arguments.                              *)
(***************************************************************************)
LEMMA SameArguments ==
  ASSUME aw' = aw, build' = build
  PROVE  /\ use_wproj' <=> use_wproj
         /\ use_aproj' <=> use_aproj
         /\ RotatesKernel' <=> RotatesKernel
         /\ T' = T /\ Planes' = Planes /\ Visibilities' = Visibilities
BY DEF use_wproj, use_aproj, RotatesKernel, T, Planes, Visibilities

(***************************************************************************)
(* A step elsewhere.                                                       *)
(***************************************************************************)
LEMMA Elsewhere ==
  ASSUME Rest, UNCHANGED <<aw, build, transform, gridvars, kpc, w_plane, conv_kernel>>
  PROVE  Rest'
<1> USE DEF Rest, gridvars
<1>1. ArgumentsOK' /\ PlaceOK'
  BY SameArguments DEF ArgumentsOK, PlaceOK, Active
<1>2. StepsOK'
  BY SameArguments DEF StepsOK, Active
<1>3. PlaneKernelOK' /\ RotatedKernelOK' /\ CachedKernelOK'
  BY SameArguments DEF PlaneKernelOK, RotatedKernelOK, CachedKernelOK, Active
<1>4. GriddedOK'
  BY SameArguments DEF GriddedOK, Active, Reached, Own, Bound, vi_begin, vi_end
<1> QED BY <1>1, <1>2, <1>3, <1>4

(***************************************************************************)
(* The visibilities gridded so far, when the gridder gets past none.       *)
(***************************************************************************)
LEMMA GriddedKept ==
  ASSUME GriddedOK, Active, UNCHANGED <<aw, build, gridded, vis_timesteps, lha_planes>>,
         \A v \in Visibilities : aw.vis[v].good # 0 => (Reached(v)' <=> Reached(v))
  PROVE  GriddedOK'
BY SameArguments DEF GriddedOK, Own, vi_begin, vi_end

LEMMA ReachedSame ==
  ASSUME UNCHANGED <<aw, build, pi, ts, vis_timesteps>>, gpc \in Busy <=> gpc' \in Busy
  PROVE  \A v : Reached(v)' <=> Reached(v)
BY SameArguments DEF Reached, Bound, vi_begin

------------------------------------------------------------------------------
(* The steps of the kernels.                                                *)

LEMMA WideKeeps ==
  ASSUME Rest, WideStep, UNCHANGED gridvars
  PROVE  Rest'
<1> USE DEF Rest
<1>1. CASE ~ Active
  <2>1. ~ Active' /\ (gpc' = "idle" => pi' = 0 /\ vis_timesteps' = <<>>)
    BY <1>1 DEF Active, gridvars, PlaceOK
  <2> QED BY <2>1, NotActiveNext
<1>2. CASE Active
  <2>1. UNCHANGED <<aw, build, gpc, vis_timesteps, lha_planes, pi, ts, kernel_cache, gridded, w_plane>>
    BY DEF WideStep, TransformProduct, Transformed, Truncate, Interpolate, gridvars, CallC2C, Call,
           ReturnFFT, fftvars
  <2>2. kpc \in {"multiply", "fft", "truncate", "interpolate"}
    BY DEF WideStep, TransformProduct, Transformed, Truncate, Interpolate
  <2>3. gpc \notin {"start", "kernel_img"}
    BY <2>2 DEF PlaceOK
  <2>4. ArgumentsOK' /\ PlaceOK' /\ StepsOK' /\ CachedKernelOK'
    BY <2>1, <2>3, SameArguments DEF ArgumentsOK, PlaceOK, StepsOK, CachedKernelOK, Active
  <2>5. GriddedOK'
    BY <1>2, <2>1, GriddedKept, ReachedSame
  <2>6. use_aproj <=> aw.num_timesteps > 0
    BY DEF use_aproj
  <2>7. use_aproj => ~ aw.hankel_opt
    BY <1>2, <2>6 DEF ArgumentsOK, Allowed
  <2>8. PlaneKernelOK' /\ RotatedKernelOK'
    <3>1. CASE TransformProduct
      <4>1. kpc = "multiply" /\ kpc' = "fft" /\ transform'.kind = "c2c" /\ conv_kernel' = conv_kernel
        BY <3>1 DEF TransformProduct, CallC2C, Call
      <4> QED BY <2>1, <4>1, SameArguments DEF PlaneKernelOK, RotatedKernelOK, Active
    <3>2. CASE Transformed
      <4>1. kpc = "fft" /\ kpc' = "truncate"
            /\ conv_kernel' = IF transform.kind # "c2c" THEN conv_kernel
                              ELSE IF aw.num_timesteps > 0 THEN conv_kernel
                              ELSE [plane |-> w_plane, rotations |-> <<>>]
        BY <3>2 DEF Transformed
      <4>2. use_aproj => conv_kernel' = conv_kernel
        BY <2>6, <4>1
      <4>3. ~ use_aproj /\ ~ aw.hankel_opt => conv_kernel'.plane = w_plane
        BY <1>2, <2>6, <4>1 DEF PlaneKernelOK
      <4> QED BY <1>2, <2>1, <4>1, <4>2, <4>3, SameArguments DEF PlaneKernelOK, RotatedKernelOK, Active
    <3>3. CASE Truncate
      <4>1. kpc = "truncate" /\ UNCHANGED <<transform, conv_kernel>>
            /\ kpc' \in {"truncate", IF aw.hankel_opt THEN "interpolate" ELSE "kernel"}
        BY <3>3 DEF Truncate, fftvars
      <4> QED BY <1>2, <2>1, <2>7, <4>1, SameArguments DEF PlaneKernelOK, RotatedKernelOK, Active
    <3>4. CASE Interpolate
      <4>1. kpc = "interpolate" /\ kpc' = "kernel"
            /\ conv_kernel' = [plane |-> w_plane, rotations |-> <<>>]
        BY <3>4 DEF Interpolate
      <4>2. ~ use_aproj
        BY <1>2, <4>1 DEF PlaneKernelOK
      <4> QED BY <1>2, <2>1, <4>1, <4>2, SameArguments DEF PlaneKernelOK, RotatedKernelOK, Active
    <3> QED BY <3>1, <3>2, <3>3, <3>4 DEF WideStep
  <2> QED BY <2>4, <2>5, <2>8
<1> QED BY <1>1, <1>2

------------------------------------------------------------------------------
(* The steps of the gridder.                                                *)

\* The kernels are left alone, and nothing but the place changes.
LEMMA Moves ==
  ASSUME Rest, Active,
         UNCHANGED <<aw, build, vis_timesteps, lha_planes, pi, ts, gridded, w_plane>>,
         gpc' \in Busy <=> gpc \in Busy,
         gpc \in {"start", "kernel_img"} \/ gpc' \notin {"start", "kernel_img"},
         Active'
  PROVE  ArgumentsOK' /\ StepsOK' /\ GriddedOK'
         /\ pi' \in 0 .. Planes' /\ (gpc' \in Busy => pi' < Planes')
         /\ (gpc' \in Busy /\ use_aproj' => ts' \in 0 .. T' - 1)
<1>1. ArgumentsOK' /\ StepsOK'
  BY SameArguments DEF Rest, ArgumentsOK, StepsOK
<1>2. GriddedOK'
  BY GriddedKept, ReachedSame DEF Rest
<1>3. pi' \in 0 .. Planes' /\ (gpc' \in Busy => pi' < Planes')
      /\ (gpc' \in Busy /\ use_aproj' => ts' \in 0 .. T' - 1)
  BY SameArguments DEF Rest, PlaceOK
<1> QED BY <1>1, <1>2, <1>3

LEMMA StartKeeps ==
  ASSUME Rest, StartGridder
  PROVE  Rest'
<1>1. gpc = "start" /\ gpc' \in {"planes", "kernel_img"} /\ Active /\ Active'
      /\ gpc \notin Busy /\ gpc' \notin Busy
  BY DEF StartGridder, Active, Busy
<1>2. UNCHANGED <<aw, build, vis_timesteps, lha_planes, pi, ts, gridded, kpc, w_plane, conv_kernel>>
  BY DEF StartGridder, Construct, widevars, fftvars, CallR2R1D, Call
<1>3. ArgumentsOK' /\ StepsOK' /\ GriddedOK' /\ pi' \in 0 .. Planes'
  BY <1>1, <1>2, Moves
<1>4. pi = 0 /\ kpc = "idle" /\ vis_timesteps = <<>>
  BY <1>1 DEF Rest, PlaceOK
<1>5. PlaceOK'
  BY <1>1, <1>2, <1>3, <1>4 DEF PlaceOK, Busy
<1>6. PlaneKernelOK' /\ RotatedKernelOK'
  BY <1>1, <1>2, <1>4 DEF PlaneKernelOK, RotatedKernelOK, Busy
<1>7. ~ use_wproj' => kernel_cache'.plane = 0
  BY <1>2, SameArguments DEF StartGridder
<1>8. CachedKernelOK'
  BY <1>1, <1>7 DEF CachedKernelOK
<1> QED BY <1>3, <1>5, <1>6, <1>8 DEF Rest

LEMMA KernelImageKeeps ==
  ASSUME Rest, KernelImageTransformed
  PROVE  Rest'
<1>1. gpc = "kernel_img" /\ gpc' = "planes" /\ Active /\ Active' /\ gpc \notin Busy /\ gpc' \notin Busy
  BY DEF KernelImageTransformed, Active, Busy
<1>2. UNCHANGED <<aw, build, vis_timesteps, lha_planes, pi, ts, gridded, kpc, w_plane, conv_kernel,
                  kernel_cache>>
  BY DEF KernelImageTransformed, widevars, ReturnFFT
<1>3. ArgumentsOK' /\ StepsOK' /\ GriddedOK' /\ pi' \in 0 .. Planes'
  BY <1>1, <1>2, Moves
<1>4. pi = 0 /\ kpc = "idle" /\ vis_timesteps = <<>>
  BY <1>1 DEF Rest, PlaceOK
<1>5. PlaceOK'
  BY <1>1, <1>2, <1>3, <1>4 DEF PlaceOK, Busy
<1>6. PlaneKernelOK' /\ RotatedKernelOK'
  BY <1>1, <1>2, <1>4 DEF PlaneKernelOK, RotatedKernelOK, Busy
<1>7. CachedKernelOK'
  BY <1>1, <1>2, SameArguments DEF Rest, CachedKernelOK
<1> QED BY <1>3, <1>5, <1>6, <1>7 DEF Rest

(***************************************************************************)
(* average_lha_planes, before the first plane: nothing has been gridded.   *)
(***************************************************************************)
LEMMA AverageKeeps ==
  ASSUME Rest, AverageLha
  PROVE  Rest'
<1>1. gpc = "planes" /\ gpc' = "planes" /\ Active /\ Active' /\ use_aproj /\ vis_timesteps = <<>>
      /\ UNCHANGED <<aw, build, transform, kpc, w_plane, conv_kernel, pi, ts, kernel_cache, gridded>>
  BY DEF AverageLha, Active, kernelvars, fftvars, widevars
<1>2. pi = 0 /\ GridderArguments(aw) /\ Allowed(aw)
  BY <1>1 DEF Rest, StepsOK, ArgumentsOK
<1>3. ArgumentsOK' /\ PlaceOK'
  BY <1>1, <1>2, SameArguments DEF Rest, ArgumentsOK, PlaceOK, Busy
<1>4. \A v \in Visibilities : aw.vis[v].good # 0 => vis_timesteps'[v] \in 0 .. T - 1
  <2>1. PICK garbage \in 0 .. T :
          vis_timesteps' = [v \in Visibilities |->
                              IF aw.vis[v].good # 0 THEN StepOf(aw.vis[v].lha) ELSE garbage]
    BY DEF AverageLha
  <2> QED BY <1>1, <1>2, <2>1, StepExists
<1>5. StepsOK'
  BY <1>1, <1>2, <1>4, SameArguments DEF StepsOK, Busy
<1>6. PlaneKernelOK' /\ RotatedKernelOK' /\ CachedKernelOK'
  BY <1>1, SameArguments DEF Rest, PlaneKernelOK, RotatedKernelOK, CachedKernelOK, Busy
<1>7. GriddedOK'
  <2>1. \A v \in Visibilities : ~ Reached(v)
    BY <1>1, <1>2, Bounds DEF Reached, Busy
  <2>2. \A v \in Visibilities : ~ Reached(v)'
    BY <1>1, <1>2, <2>1, SameArguments DEF Reached, Busy, Bound, vi_begin
  <2> QED BY <1>1, <2>1, <2>2, SameArguments DEF Rest, GriddedOK
<1> QED BY <1>3, <1>5, <1>6, <1>7 DEF Rest

(***************************************************************************)
(* A plane begins: no visibility of it is in a time step before the first. *)
(***************************************************************************)
LEMMA PlaneKeeps ==
  ASSUME Rest, StartPlane
  PROVE  Rest'
<1>1. /\ gpc = "planes" /\ pi < Planes /\ Active /\ Active' /\ ts' = 0
      /\ use_aproj => vis_timesteps # <<>>
      /\ gpc' \in {"wplane", "steps", "step", "grid"}
  BY DEF StartPlane, Active
<1>2. UNCHANGED <<aw, build, vis_timesteps, lha_planes, pi, gridded, conv_kernel, kernel_cache>>
  BY DEF StartPlane, GenerateImageDomain, GenerateWProj, widevars, fftvars, CallC2C, CallC2C1D, Call
<1>3. GridderArguments(aw) /\ Allowed(aw) /\ pi \in 0 .. Planes
  BY <1>1 DEF Rest, ArgumentsOK, PlaceOK
<1>4. /\ use_aproj <=> aw.num_timesteps > 0
      /\ use_wproj <=> aw.num_wplanes > 0
      /\ use_aproj => T \in Nat \ {0}
      /\ use_aproj => use_wproj /\ ~ aw.hankel_opt
  BY <1>3 DEF use_aproj, use_wproj, T, GridderArguments, Allowed
<1>5. \/ ~ use_wproj /\ gpc' = "grid" /\ UNCHANGED <<transform, kpc, w_plane>>
      \/ use_wproj /\ use_aproj /\ GenerateImageDomain(pi)
         /\ gpc' = IF RotatesKernel THEN "wplane" ELSE "steps"
      \/ use_wproj /\ ~ use_aproj /\ GenerateWProj(pi) /\ gpc' = "step"
  BY DEF StartPlane, widevars, fftvars
<1>6. gpc' \in Busy
  BY <1>1 DEF Busy
<1>7. PlaceOK'
  BY <1>1, <1>2, <1>3, <1>4, <1>5, SameArguments DEF PlaceOK
<1>8. ArgumentsOK' /\ StepsOK'
  BY <1>1, <1>2, <1>3, SameArguments DEF Rest, ArgumentsOK, StepsOK
<1>9. PlaneKernelOK'
  <2>1. CASE ~ use_wproj /\ gpc' = "grid" /\ UNCHANGED <<transform, kpc, w_plane>>
    BY <1>1, <1>2, <1>4, <2>1, SameArguments DEF Rest, PlaneKernelOK
  <2>2. CASE use_wproj /\ use_aproj /\ GenerateImageDomain(pi)
             /\ gpc' = IF RotatesKernel THEN "wplane" ELSE "steps"
    <3>1. w_plane' = pi /\ kpc' = "idle"
      BY <2>2 DEF GenerateImageDomain
    <3> QED BY <1>1, <1>2, <2>2, <3>1, SameArguments DEF PlaneKernelOK
  <2>3. CASE use_wproj /\ ~ use_aproj /\ GenerateWProj(pi) /\ gpc' = "step"
    <3>1. /\ w_plane' = pi
          /\ \/ ~ aw.hankel_opt /\ kpc' = "fft" /\ transform'.kind = "c2c"
             \/ aw.hankel_opt /\ kpc' \in {"fft", "truncate"}
      BY <2>3 DEF GenerateWProj, CallC2C, Call
    <3> QED BY <1>1, <1>2, <2>3, <3>1, SameArguments DEF PlaneKernelOK
  <2> QED BY <1>5, <2>1, <2>2, <2>3
<1>10. RotatedKernelOK'
  BY <1>1, <1>2, <1>4, <1>5, SameArguments DEF RotatedKernelOK
<1>11. CachedKernelOK'
  <2>1. gpc' \notin {"kernel_img", "planes"} /\ (gpc' = "grid" => ~ use_wproj /\ ~ use_aproj)
    BY <1>4, <1>5
  <2>2. ~ use_wproj => kernel_cache.plane = 0
    BY <1>1 DEF Rest, CachedKernelOK
  <2>3. ~ use_wproj => pi = 0
    BY <1>1, <1>3 DEF Planes
  <2>4. UNCHANGED <<kernel_cache, lha_planes, pi>> /\ (use_wproj' <=> use_wproj) /\ (use_aproj' <=> use_aproj)
    BY <1>2, SameArguments
  <2> QED BY <2>1, <2>2, <2>3, <2>4 DEF CachedKernelOK
<1>12. \A v \in Visibilities : aw.vis[v].good # 0 => (Reached(v)' <=> Reached(v))
  <2>1. \A v \in Visibilities : aw.vis[v].good # 0 /\ use_aproj => ~ (vis_timesteps[v] < 0)
    BY <1>1, <1>4 DEF Rest, StepsOK
  <2> QED BY <1>1, <1>2, <1>6, <2>1, SameArguments DEF Reached, Bound, vi_begin, Busy
<1>13. GriddedOK'
  BY <1>1, <1>2, <1>12, GriddedKept DEF Rest
<1> QED BY <1>7, <1>8, <1>9, <1>10, <1>11, <1>13 DEF Rest

(***************************************************************************)
(* aproj_opt: the kernel of the plane, not yet rotated.                    *)
(***************************************************************************)
LEMMA PlaneMultipliedKeeps ==
  ASSUME Rest, MultiplyPlaneKernel \/ PlaneKernelMultiplied
  PROVE  Rest'
<1>1. /\ Active /\ Active' /\ gpc \in Busy /\ gpc' \in Busy
      /\ UNCHANGED <<aw, build, vis_timesteps, lha_planes, pi, ts, kernel_cache, gridded, w_plane>>
      /\ \/ /\ gpc = "wplane" /\ gpc' = "step_kernel" /\ kpc' = "multiply"
            /\ conv_kernel' = [plane |-> w_plane, rotations |-> <<>>]
         \/ /\ gpc = "step_kernel" /\ gpc' = "steps"
            /\ UNCHANGED <<kpc, conv_kernel>>
  BY DEF MultiplyPlaneKernel, PlaneKernelMultiplied, MultiplyAKernel, Unrotated, Active, Busy,
         kernelvars, fftvars, widevars
<1>2. use_aproj /\ RotatesKernel
  BY <1>1 DEF Rest, PlaceOK
<1>3. w_plane = pi
  <2>1. use_wproj
    BY <1>1, <1>2 DEF Rest, ArgumentsOK, Allowed, use_aproj, use_wproj
  <2> QED BY <1>1, <2>1 DEF Rest, PlaneKernelOK
<1>4. /\ ArgumentsOK' /\ StepsOK' /\ GriddedOK'
      /\ pi' \in 0 .. Planes' /\ pi' < Planes' /\ ts' \in 0 .. T' - 1
  BY <1>1, <1>2, Moves, SameArguments
<1>5. PlaceOK'
  BY <1>1, <1>2, <1>4, SameArguments DEF PlaceOK
<1>6. PlaneKernelOK'
  BY <1>1, <1>2, <1>3, SameArguments DEF Rest, PlaneKernelOK
<1>7. RotatedKernelOK'
  BY <1>1, <1>2, <1>3, SameArguments DEF Rest, RotatedKernelOK
<1>8. CachedKernelOK'
  BY <1>1 DEF CachedKernelOK
<1> QED BY <1>4, <1>5, <1>6, <1>7, <1>8 DEF Rest

(***************************************************************************)
(* The kernel of a time step is rotated to the time step, with aproj_opt   *)
(* from how it was for the step before.                                    *)
(***************************************************************************)
LEMMA StepKeeps ==
  ASSUME Rest, StartStep
  PROVE  Rest'
<1>1. /\ gpc = "steps" /\ gpc' = "step" /\ Active /\ Active' /\ gpc \in Busy /\ gpc' \in Busy
      /\ UNCHANGED <<aw, build, vis_timesteps, lha_planes, pi, ts, kernel_cache, gridded, w_plane>>
  BY DEF StartStep, MultiplyAKernel, Active, Busy, fftvars
<1>2. \/ /\ RotatesKernel /\ kpc' = kpc
         /\ conv_kernel' = [conv_kernel EXCEPT !.rotations = Append(@, lha_planes[ts])]
      \/ /\ ~ RotatesKernel /\ kpc' = "multiply"
         /\ conv_kernel' = [plane |-> w_plane, rotations |-> <<lha_planes[ts]>>]
  BY DEF StartStep, MultiplyAKernel, RotatedTo
<1>3. use_aproj /\ use_wproj
  BY <1>1 DEF Rest, PlaceOK, ArgumentsOK, Allowed, use_aproj, use_wproj
<1>4. w_plane = pi
  BY <1>1, <1>3 DEF Rest, PlaneKernelOK
<1>5. /\ ArgumentsOK' /\ StepsOK' /\ GriddedOK'
      /\ pi' \in 0 .. Planes' /\ pi' < Planes' /\ ts' \in 0 .. T' - 1
  BY <1>1, <1>3, Moves, SameArguments
<1>6. PlaceOK'
  BY <1>1, <1>3, <1>5, SameArguments DEF PlaceOK
<1>7. PlaneKernelOK'
  <2>1. kpc' # "interpolate"
    BY <1>1, <1>2, <1>3 DEF Rest, PlaneKernelOK
  <2> QED BY <1>1, <1>2, <1>3, <1>4, <2>1, SameArguments DEF PlaneKernelOK
<1>8. RotatedKernelOK'
  <2> SUFFICES ASSUME RotatesKernel
               PROVE  /\ conv_kernel' = [plane |-> pi, rotations |-> conv_kernel'.rotations]
                      /\ ts = 0 => conv_kernel'.rotations = <<lha_planes[ts]>>
    BY <1>1, SameArguments DEF RotatedKernelOK
  <2>1. /\ conv_kernel = [plane |-> pi, rotations |-> conv_kernel.rotations]
        /\ ts = 0 => conv_kernel.rotations = <<>>
    BY <1>1, <1>3 DEF Rest, RotatedKernelOK
  <2>2. conv_kernel' = [plane |-> pi, rotations |-> Append(conv_kernel.rotations, lha_planes[ts])]
    BY <1>2, <2>1
  <2>3. Append(<<>>, lha_planes[ts]) = <<lha_planes[ts]>>
    OBVIOUS
  <2> QED BY <2>1, <2>2, <2>3
<1>9. CachedKernelOK'
  BY <1>1 DEF CachedKernelOK
<1> QED BY <1>5, <1>6, <1>7, <1>8, <1>9 DEF Rest

LEMMA CacheKeeps ==
  ASSUME Rest, CacheKernel
  PROVE  Rest'
<1>1. /\ gpc = "step" /\ kpc = "kernel" /\ gpc' \in {"grid", "aborted"} /\ Active /\ gpc \in Busy
      /\ kernel_cache'.plane = conv_kernel.plane /\ kernel_cache'.rotations = conv_kernel.rotations
      /\ UNCHANGED <<aw, build, vis_timesteps, lha_planes, pi, ts, gridded, kpc, w_plane, conv_kernel,
                     transform>>
  BY DEF CacheKernel, Active, Busy, kernelvars, fftvars, widevars
<1>2. CASE gpc' = "aborted"
  BY <1>2, NotActiveNext DEF Active
<1>3. CASE gpc' = "grid"
  <2>1. Active' /\ gpc' \in Busy
    BY <1>3 DEF Active, Busy
  <2>2. /\ ArgumentsOK' /\ StepsOK' /\ GriddedOK'
        /\ pi' \in 0 .. Planes' /\ pi' < Planes' /\ (use_aproj' => ts' \in 0 .. T' - 1)
    BY <1>1, <1>3, <2>1, Moves
  <2>3. PlaceOK'
    BY <1>1, <1>3, <2>2 DEF PlaceOK
  <2>4. PlaneKernelOK' /\ RotatedKernelOK'
    BY <1>1, <1>3, <2>1, SameArguments DEF Rest, PlaneKernelOK, RotatedKernelOK
  <2>5. use_wproj /\ w_plane = pi
    BY <1>1 DEF Rest, PlaceOK, PlaneKernelOK
  <2>6. conv_kernel.plane = pi
    <3>1. CASE ~ use_aproj
      BY <1>1, <2>5, <3>1 DEF Rest, PlaneKernelOK
    <3>2. CASE use_aproj /\ RotatesKernel
      BY <1>1, <3>2 DEF Rest, RotatedKernelOK
    <3>3. CASE use_aproj /\ ~ RotatesKernel
      BY <1>1, <3>3 DEF Rest, PlaneKernelOK
    <3> QED BY <3>1, <3>2, <3>3
  <2>7. use_aproj /\ (RotatesKernel => ts = 0) => conv_kernel.rotations = <<lha_planes[ts]>>
    BY <1>1 DEF Rest, RotatedKernelOK, PlaneKernelOK
  <2>8. CachedKernelOK'
    BY <1>1, <1>3, <2>5, <2>6, <2>7, SameArguments DEF CachedKernelOK
  <2> QED BY <2>2, <2>3, <2>4, <2>8 DEF Rest
<1> QED BY <1>1, <1>2, <1>3

(***************************************************************************)
(* The visibilities of the plane and the time step are gridded; no other   *)
(* one is reached by going on to the next step or plane.                   *)
(***************************************************************************)
LEMMA GridKeeps ==
  ASSUME Rest, GridVisibilities
  PROVE  Rest'
<1>1. /\ gpc = "grid" /\ Active /\ Active' /\ gpc \in Busy
      /\ UNCHANGED <<aw, build, vis_timesteps, lha_planes, kernel_cache, kpc, w_plane, conv_kernel,
                     transform>>
      /\ gridded' = [v \in Visibilities |->
                       IF Gridded(v) THEN Append(gridded[v], kernel_cache) ELSE gridded[v]]
      /\ \/ use_aproj /\ ts + 1 < T /\ ts' = ts + 1 /\ gpc' = "steps" /\ pi' = pi
         \/ ~ (use_aproj /\ ts + 1 < T) /\ pi' = pi + 1 /\ gpc' = "planes" /\ ts' = ts
  BY DEF GridVisibilities, Active, Busy, kernelvars, fftvars, widevars
<1>2. /\ GridderArguments(aw) /\ Allowed(aw)
      /\ pi \in 0 .. Planes - 1 /\ Planes \in Nat
      /\ use_aproj => ts \in 0 .. T - 1 /\ T \in Nat /\ vis_timesteps # <<>>
  <2>1. GridderArguments(aw) /\ Allowed(aw) /\ pi \in 0 .. Planes /\ pi < Planes
    BY <1>1 DEF Rest, ArgumentsOK, PlaceOK
  <2>2. Planes \in Nat
    BY <2>1, Bounds
  <2>3. T \in Nat
    BY <2>1 DEF T, GridderArguments
  <2>4. use_aproj => ts \in 0 .. T - 1 /\ vis_timesteps # <<>>
    BY <1>1 DEF Rest, PlaceOK, StepsOK
  <2> QED BY <2>1, <2>2, <2>3, <2>4
<1>3. /\ gpc' = "steps" <=> use_aproj /\ ts + 1 < T
      /\ gpc' = "planes" <=> ~ (use_aproj /\ ts + 1 < T)
      /\ gpc' \in {"steps", "planes"}
  BY <1>1
<1>4. ArgumentsOK' /\ StepsOK'
  BY <1>1, <1>2, SameArguments DEF Rest, ArgumentsOK, StepsOK, Busy
<1>5. PlaceOK'
  <2>1. CASE gpc' = "steps"
    BY <1>1, <1>2, <2>1, SameArguments DEF PlaceOK
  <2>2. CASE gpc' = "planes"
    BY <1>1, <1>2, <2>2, SameArguments DEF PlaceOK, Busy
  <2> QED BY <1>3, <2>1, <2>2
<1>6. PlaneKernelOK'
  BY <1>1, SameArguments DEF Rest, PlaneKernelOK, Busy
<1>7. RotatedKernelOK'
  <2>1. gpc' = "steps" => ts' # 0 /\ pi' = pi
    BY <1>1, <1>2, <1>3
  <2> QED BY <1>1, <1>3, <2>1, SameArguments DEF Rest, RotatedKernelOK
<1>8. CachedKernelOK'
  BY <1>1, <1>3, SameArguments DEF Rest, CachedKernelOK
<1>9. GriddedOK'
  <2> SUFFICES ASSUME NEW v \in Visibilities
               PROVE  IF aw.vis[v].good # 0 /\ Reached(v)'
                      THEN Len(gridded'[v]) = 1 /\ Own(v, gridded'[v][1])
                      ELSE gridded'[v] = <<>>
    BY <1>1, SameArguments DEF GriddedOK, Own, vi_begin, vi_end
  <2>1. /\ v \in Nat
        /\ Bound(pi) \in Nat /\ Bound(pi + 1) \in Nat /\ Bound(pi) <= Bound(pi + 1)
        /\ vi_begin(pi) = Bound(pi) /\ vi_end(pi) = Bound(pi + 1)
    BY <1>2, Bounds
  <2>2. aw.vis[v].good # 0 /\ use_aproj => vis_timesteps[v] \in 0 .. T - 1
    BY <1>1, <1>2 DEF Rest, StepsOK
  <2>3. Reached(v) <=> v < Bound(pi) \/ (v < Bound(pi + 1) /\ use_aproj /\ vis_timesteps[v] < ts)
    BY <1>1 DEF Reached
  <2>4. Gridded(v) <=> /\ Bound(pi) <= v /\ v < Bound(pi + 1)
                       /\ use_aproj => vis_timesteps[v] = ts
                       /\ aw.vis[v].good # 0
    BY <2>1 DEF Gridded
  <2>5. aw.vis[v].good # 0 => (Reached(v)' <=> Reached(v) \/ Gridded(v))
    <3> DEFINE b == Bound(pi)
               e == Bound(pi + 1)
    <3>1. CASE gpc' = "steps"
      <4>1. Reached(v)' <=> v < b \/ (v < e /\ use_aproj /\ vis_timesteps[v] < ts + 1)
        BY <1>1, <1>3, <3>1, SameArguments DEF Reached, Busy, Bound, vi_begin
      <4>2. v \in Nat /\ b \in Nat /\ e \in Nat
        BY <2>1
      <4>3. Reached(v) <=> v < b \/ (v < e /\ use_aproj /\ vis_timesteps[v] < ts)
        BY <2>3
      <4>4. Gridded(v) <=> b <= v /\ v < e /\ (use_aproj => vis_timesteps[v] = ts) /\ aw.vis[v].good # 0
        BY <2>4
      <4> HIDE DEF b, e
      <4>5. use_aproj
        BY <1>3, <3>1
      <4> QED BY <1>2, <2>2, <4>1, <4>2, <4>3, <4>4, <4>5
    <3>2. CASE gpc' = "planes"
      <4>1. Reached(v)' <=> v < e
        BY <1>1, <1>3, <3>2, SameArguments DEF Reached, Busy, Bound, vi_begin
      <4>2. v \in Nat /\ b \in Nat /\ e \in Nat /\ b <= e
        BY <2>1
      <4>3. Reached(v) <=> v < b \/ (v < e /\ use_aproj /\ vis_timesteps[v] < ts)
        BY <2>3
      <4>4. Gridded(v) <=> b <= v /\ v < e /\ (use_aproj => vis_timesteps[v] = ts) /\ aw.vis[v].good # 0
        BY <2>4
      <4>5. ~ use_aproj \/ ts + 1 >= T
        BY <1>2, <1>3, <3>2
      <4> HIDE DEF b, e
      <4> QED BY <1>2, <2>2, <4>1, <4>2, <4>3, <4>4, <4>5
    <3> QED BY <1>3, <3>1, <3>2
  <2>6. gridded'[v] = IF Gridded(v) THEN Append(gridded[v], kernel_cache) ELSE gridded[v]
    BY <1>1
  <2>7. IF aw.vis[v].good # 0 /\ Reached(v)
        THEN Len(gridded[v]) = 1 /\ Own(v, gridded[v][1])
        ELSE gridded[v] = <<>>
    BY <1>1 DEF Rest, GriddedOK
  <2>8. CASE Gridded(v)
    <3>1. gridded[v] = <<>>
      BY <1>2, <2>1, <2>3, <2>4, <2>7, <2>8
    <3>2. gridded'[v] = <<kernel_cache>>
      BY <2>6, <2>8, <3>1
    <3>3. Len(gridded'[v]) = 1 /\ gridded'[v][1] = kernel_cache
      BY <3>2
    <3>4. Own(v, kernel_cache)
      BY <1>1, <2>1, <2>4, <2>8 DEF Rest, CachedKernelOK, Own
    <3> QED BY <2>4, <2>5, <2>8, <3>3, <3>4
  <2>9. CASE ~ Gridded(v)
    BY <2>5, <2>6, <2>7, <2>9
  <2> QED BY <2>8, <2>9
<1> QED BY <1>4, <1>5, <1>6, <1>7, <1>8, <1>9 DEF Rest

LEMMA DoneKeeps ==
  ASSUME Rest, GridderDone
  PROVE  Rest'
<1>1. /\ gpc = "planes" /\ gpc' = "done" /\ pi = Planes /\ Active /\ Active'
      /\ gpc \notin Busy /\ gpc' \notin Busy
      /\ UNCHANGED <<aw, build, vis_timesteps, lha_planes, pi, ts, kernel_cache, gridded, kpc, w_plane,
                     conv_kernel, transform>>
  BY DEF GridderDone, Active, Busy, kernelvars, fftvars, widevars
<1>2. ArgumentsOK' /\ StepsOK' /\ GriddedOK' /\ pi' \in 0 .. Planes'
  BY <1>1, Moves
<1>3. PlaceOK'
  BY <1>1, <1>2, SameArguments DEF PlaceOK, Busy
<1>4. PlaneKernelOK' /\ RotatedKernelOK' /\ CachedKernelOK'
  BY <1>1, SameArguments DEF Rest, PlaneKernelOK, RotatedKernelOK, CachedKernelOK
<1> QED BY <1>2, <1>3, <1>4 DEF Rest

LEMMA GridderKeeps ==
  ASSUME Rest, GridderStep
  PROVE  Rest'
<1>1. CASE TransformFails
  <2>1. ~ Active' /\ gpc' # "idle"
    BY <1>1 DEF TransformFails, Active
  <2> QED BY <2>1, NotActiveNext
<1> QED BY <1>1, StartKeeps, KernelImageKeeps, AverageKeeps, PlaneKeeps, PlaneMultipliedKeeps,
           StepKeeps, CacheKeeps, GridKeeps, DoneKeeps DEF GridderStep

------------------------------------------------------------------------------
(* The imager.                                                              *)

(***************************************************************************)
(* A call of the gridder has arguments of the imager's call, which have    *)
(* passed the checks.                                                      *)
(***************************************************************************)
LEMMA CallsKeepArguments ==
  ASSUME CallOK, IInv, ImagerNext
  PROVE  CallOK'
<1>1. CASE \E c \in ImageCalls : CallImager(c)
  <2>1. PICK c \in ImageCalls : CallImager(c)
    BY <1>1
  <2>2. ipc' = "sizes" /\ img' = c
    BY <2>1 DEF CallImager
  <2>3. "gridder" \in DOMAIN c /\ GridderArguments(c.gridder)
    BY ImagerAssumption
  <2> QED BY <2>2, <2>3 DEF CallOK
<1>2. CASE SetImageSizes
  <2>1. /\ ipc = "sizes" /\ ipc' = "check"
        /\ \E size, padded : img' = With([image_size |-> size, padded_image_size |-> padded], img)
    BY <1>2 DEF SetImageSizes
  <2>2. "gridder" \in DOMAIN img /\ GridderArguments(img.gridder)
    BY <2>1 DEF CallOK
  <2>3. "gridder" \in DOMAIN img' /\ img'.gridder = img.gridder
    BY <2>1, <2>2 DEF With
  <2> QED BY <2>1, <2>2, <2>3 DEF CallOK
<1>3. CASE CheckParameters
  <2>1. /\ ipc = "check" /\ img' = img
        /\ ipc' \in {"aborted", "threw", "init_fftw"}
        /\ ipc' = "init_fftw" =>
             ~ (img.gridder.num_timesteps > 0 /\ (~ (img.gridder.num_wplanes > 0) \/ img.gridder.hankel_opt))
    BY <1>3 DEF CheckParameters
  <2>2. ipc' = "init_fftw" => Allowed(img.gridder)
    BY <2>1 DEF Allowed
  <2> QED BY <2>1, <2>2 DEF CallOK
<1>4. CASE InitFFTW
  <2>1. ipc = "init_fftw" /\ img' = img
    BY <1>4 DEF InitFFTW
  <2> QED BY <2>1 DEF CallOK
<1>5. ASSUME img' = img, ipc # "idle", ipc' \notin {"init_fftw", "grid"} \/ ipc' = ipc
      PROVE  CallOK'
  BY <1>5 DEF CallOK
<1>6. CASE Grid \/ GridsReturned \/ TransformImage \/ ImageTransformed \/ TransformBeam \/ BeamTransformed
           \/ ComputeGCF \/ GCFTransformed
  BY <1>5, <1>6 DEF Grid, GridsReturned, TransformImage, ImageTransformed, TransformBeam,
     BeamTransformed, ComputeGCF, GCFTransformed, TransformGrid, Transformed2D
<1>7. CASE NormaliseImage \/ NormaliseBeam \/ CleanUpThreads
  BY <1>5, <1>7 DEF NormaliseImage, NormaliseBeam, CleanUpThreads, Normalise
<1>8. CASE ImagerFails
  <2>1. img' = img /\ ipc # "idle" /\ ipc' \in {"threw", "aborted"}
    BY <1>8 DEF ImagerFails
  <2> QED BY <1>5, <2>1
<1>9. ASSUME UNCHANGED imgvars PROVE CallOK'
  BY <1>9 DEF imgvars, CallOK
<1> QED BY <1>1, <1>2, <1>3, <1>4, <1>6, <1>7, <1>8, <1>9 DEF ImagerNext, ImagerStep

\* The steps of the imager itself.
OwnStep ==
  \/ \E c \in ImageCalls : CallImager(c)
  \/ SetImageSizes \/ CheckParameters \/ InitFFTW \/ Grid \/ GridsReturned
  \/ TransformImage \/ ImageTransformed \/ TransformBeam \/ BeamTransformed
  \/ ComputeGCF \/ GCFTransformed \/ NormaliseImage \/ NormaliseBeam
  \/ CleanUpThreads \/ ImagerFails

(***************************************************************************)
(* A step of the imager itself is one of a gridder that is called, returns *)
(* or is idle.                                                             *)
(***************************************************************************)
LEMMA ImagerKeeps ==
  ASSUME CallOK, Rest, IInv, OwnStep
  PROVE  Rest'
<1> DEFINE same == <<gpc, vis_timesteps, pi>>
<1>1. ASSUME gpc = "idle", UNCHANGED same PROVE Rest'
  <2>1. ~ Active' /\ pi' = 0 /\ vis_timesteps' = <<>>
    BY <1>1 DEF Active, Rest, PlaceOK
  <2> QED BY <2>1, NotActiveNext
<1>2. ipc \notin Waiting => gpc = "idle" /\ kpc = "idle"
  BY DEF IInv, GridderQuiet
<1>3. CASE (\E c \in ImageCalls : CallImager(c))
  <2>1. ipc = "idle" /\ UNCHANGED same
    BY <1>3 DEF CallImager, gridvars
  <2> QED BY <1>1, <1>2, <2>1 DEF Waiting
<1>4. CASE SetImageSizes \/ CheckParameters \/ InitFFTW \/ NormaliseImage \/ NormaliseBeam \/ CleanUpThreads
  <2>1. ipc \notin Waiting
    BY <1>4 DEF Waiting, SetImageSizes, CheckParameters, InitFFTW, NormaliseImage, NormaliseBeam,
       CleanUpThreads
  <2>2. UNCHANGED same
    BY <1>4 DEF SetImageSizes, CheckParameters, InitFFTW, NormaliseImage, NormaliseBeam,
       CleanUpThreads, Normalise, awvars, gridvars
  <2> QED BY <1>1, <1>2, <2>1, <2>2
<1>5. CASE TransformImage \/ ImageTransformed \/ TransformBeam \/ BeamTransformed \/ ComputeGCF
           \/ GCFTransformed
  <2>1. ipc \notin Waiting
    BY <1>5 DEF Waiting, TransformImage, ImageTransformed, TransformBeam, BeamTransformed, ComputeGCF,
       GCFTransformed
  <2>2. UNCHANGED same
    BY <1>5 DEF TransformImage, ImageTransformed, TransformBeam, BeamTransformed, ComputeGCF,
       GCFTransformed, TransformGrid, Transformed2D, gridvars
  <2> QED BY <1>1, <1>2, <2>1, <2>2
<1>6. CASE GridsReturned
  <2>1. gpc' = "idle" /\ pi' = 0 /\ vis_timesteps' = <<>>
    BY <1>6 DEF GridsReturned, ReturnGridder, ReturnFromGridder
  <2> QED BY <2>1, NotActiveNext DEF Active
<1>7. CASE ImagerFails
  <2>1. UNCHANGED <<aw, build, transform, gridvars, kpc, w_plane, conv_kernel>>
    BY <1>7 DEF ImagerFails, awvars, kernelvars, fftvars, widevars
  <2> QED BY <2>1, Elsewhere
<1>8. CASE Grid
  <2> DEFINE a == With([image_size |-> padded_size, analytic_gcf |-> img.analytic_gcf,
                        r_fft |-> img.r_fft], img.gridder)
             needed == {"vis", "num_wplanes", "w_planes_firstidx", "num_timesteps", "aproj_opt",
                        "hankel_opt"}
  <2>1. ipc = "grid" /\ CallGridder(a)
    BY <1>8 DEF Grid
  <2>2. GridderArguments(img.gridder) /\ Allowed(img.gridder)
    BY <2>1 DEF CallOK
  <2>3. needed \subseteq DOMAIN a /\ \A f \in needed : a[f] = img.gridder[f]
    <3>1. needed \subseteq DOMAIN img.gridder
      BY <2>2 DEF GridderArguments
    <3> QED BY <3>1 DEF With
  <2>4. /\ a.vis = img.gridder.vis /\ a.num_wplanes = img.gridder.num_wplanes
        /\ a.w_planes_firstidx = img.gridder.w_planes_firstidx
        /\ a.num_timesteps = img.gridder.num_timesteps /\ a.hankel_opt = img.gridder.hankel_opt
        /\ needed \subseteq DOMAIN a
    BY <2>3
  <2> HIDE DEF a
  <2>5. GridderArguments(a) /\ Allowed(a)
    BY <2>2, <2>4 DEF GridderArguments, Allowed
  <2>6. /\ gpc = "idle" /\ kpc = "idle" /\ pi = 0 /\ vis_timesteps = <<>>
    BY <1>2, <2>1 DEF Waiting, Rest, PlaceOK
  <2>7. /\ gpc' = "start" /\ aw' = a /\ gridded' = [v \in DOMAIN a.vis |-> <<>>]
        /\ UNCHANGED <<kpc, pi, vis_timesteps>>
    BY <2>1 DEF CallGridder, widevars
  <2>8. ArgumentsOK'
    BY <2>5, <2>7 DEF ArgumentsOK, GridderArguments, Allowed
  <2>9. GridderArguments(aw)' /\ Visibilities' = DOMAIN a.vis
    BY <2>5, <2>7 DEF GridderArguments, Visibilities
  <2>10. PlaceOK' /\ StepsOK' /\ PlaneKernelOK' /\ RotatedKernelOK' /\ CachedKernelOK'
    <3>1. Planes' \in Nat
      BY <2>5, <2>7 DEF GridderArguments, Planes, use_wproj
    <3> QED BY <2>6, <2>7, <3>1 DEF PlaceOK, StepsOK, PlaneKernelOK, RotatedKernelOK, CachedKernelOK, Busy
  <2>11. GriddedOK'
    <3>1. \A v \in Visibilities' : ~ Reached(v)'
      <4>1. Visibilities' = 0 .. Cardinality(DOMAIN a.vis) - 1 /\ Cardinality(DOMAIN a.vis) \in Nat
        BY <2>5, <2>9 DEF GridderArguments
      <4>2. Planes' # 0 /\ (use_wproj' => aw'.w_planes_firstidx[0] = 0)
        BY <2>5, <2>7 DEF GridderArguments, Planes, use_wproj
      <4>3. Bound(pi)' = 0
        BY <2>6, <2>7, <4>2 DEF Bound, vi_begin
      <4> QED BY <2>7, <4>1, <4>3 DEF Reached, Busy
    <3> QED BY <2>7, <2>9, <3>1 DEF GriddedOK
  <2> QED BY <2>8, <2>10, <2>11 DEF Rest
<1> QED BY <1>3, <1>4, <1>5, <1>6, <1>7, <1>8 DEF OwnStep

LEMMA StepGInv ==
  ASSUME IInv, GInv, [ImagerNext]_imagervars
  PROVE  GInv'
<1>1. CallOK /\ Rest
  BY DEF GInv, Rest
<1>2. CASE UNCHANGED imagervars
  <2>1. CallOK'
    BY <1>1, <1>2 DEF imagervars, imgvars, CallOK
  <2>2. Rest'
    BY <1>1, <1>2, Elsewhere DEF imagervars, awvars, kernelvars, fftvars, widevars
  <2> QED BY <2>1, <2>2 DEF GInv, Rest
<1>3. CASE ImagerNext
  <2>1. CallOK'
    BY <1>1, <1>3, CallsKeepArguments
  <2>2. CASE GridderStep
    BY <1>1, <2>1, <2>2, GridderKeeps DEF GInv, Rest
  <2>3. CASE WideStep /\ UNCHANGED gridvars
    BY <1>1, <2>1, <2>3, WideKeeps DEF GInv, Rest
  <2>4. CASE FFTStep /\ UNCHANGED <<aw, widevars, gridvars>>
    <3>1. UNCHANGED <<aw, build, transform, gridvars, kpc, w_plane, conv_kernel>>
      BY <2>4 DEF FFTStep, Plan, RetryWithEstimate, Execute, widevars
    <3> QED BY <1>1, <2>1, <3>1, Elsewhere DEF GInv, Rest
  <2>5. CASE OwnStep
    BY <1>1, <2>1, <2>5, ImagerKeeps DEF GInv, Rest
  <2> QED BY <1>3, <2>2, <2>3, <2>4, <2>5 DEF ImagerNext, ImagerStep, OwnStep
<1> QED BY <1>2, <1>3

LEMMA InitGInv == ImagerIdle => GInv
<1> SUFFICES ASSUME ImagerIdle PROVE GInv
  OBVIOUS
<1>1. ipc = "idle" /\ gpc = "idle" /\ pi = 0 /\ vis_timesteps = <<>>
  BY DEF ImagerIdle, ImgIdle, GridIdle
<1>2. CallOK
  BY <1>1 DEF CallOK
<1>3. Rest
  BY <1>1, NotActive DEF Active
<1> QED BY <1>2, <1>3 DEF GInv, Rest

(***************************************************************************)
(* convolve_to_grid: every visibility in bounds is gridded once, with the  *)
(* kernel of its own plane, rotated to its own time step (with aproj_opt:  *)
(* if that is the first one), for every number of visibilities, of planes  *)
(* and of time steps, however the planes divide the visibilities.          *)
(***************************************************************************)
THEOREM KernelsAreOwn == ImagerSpec => []OwnPlaneAndStep
<1>1. ImagerIdle => IInv /\ GInv
  BY InitIInv, InitGInv
<1>2. (IInv /\ GInv) /\ [ImagerNext]_imagervars => (IInv /\ GInv)'
  BY StepIInv, StepGInv
<1>3. GInv => OwnPlaneAndStep
  BY GInvOwn
<1> QED BY <1>1, <1>2, <1>3, PTL DEF ImagerSpec

------------------------------------------------------------------------------
(* The limits of the time steps.                                            *)

(***************************************************************************)
(* average_lha_planes: a time lies between the limits of its time step.    *)
(***************************************************************************)
LEMMA StepLimits ==
  ASSUME GridderArguments(aw), use_aproj, NEW v \in Visibilities
  PROVE  LET k    == StepOf(aw.vis[v].lha)
             time == aw.vis[v].lha
         IN  TimeInterval(k) <= Scaled(time) /\ Scaled(time) <= TimeInterval(k + 1)
<1> DEFINE time  == aw.vis[v].lha
           later == {k \in 1 .. T : Scaled(time) <= TimeInterval(k)}
           step  == StepOf(time)
<1>1. T \in Nat \ {0}
  BY DEF GridderArguments, use_aproj, T
<1>2. /\ min_time \in Int /\ max_time \in Int /\ min_time <= max_time /\ time \in Int
      /\ min_time <= time
  BY TimesSpan
<1>3. step \in 0 .. T - 1 /\ step + 1 \in later /\ step \notin later
  <2>1. step \in 0 .. T - 1
    BY StepExists
  <2>2. later # {}
    <3>1. step = (IF later = {} THEN T + 1 ELSE Min(later)) - 1
      BY DEF StepOf
    <3> HIDE DEF later, step
    <3> QED BY <1>1, <2>1, <3>1
  <2>3. step = Min(later) - 1
    <3>1. step = (IF later = {} THEN T + 1 ELSE Min(later)) - 1
      BY DEF StepOf
    <3> HIDE DEF later, step
    <3> QED BY <2>2, <3>1
  <2>4. later \subseteq Int
    OBVIOUS
  <2>5. Min(later) \in later /\ \A y \in later : Min(later) <= y
    <3>1. later \subseteq Nat
      OBVIOUS
    <3>2. Min(later) = CHOOSE x \in later : \A y \in later : x <= y
      BY DEF Min
    <3> HIDE DEF later
    <3> QED BY <2>2, <3>1, <3>2, LeastNatural
  <2>6. PICK m : m = Min(later)
    OBVIOUS
  <2> HIDE DEF later, step
  <2>7. m \in later /\ step = m - 1
    BY <2>3, <2>5, <2>6
  <2>8. m \in Int
    BY <2>4, <2>7
  <2>9. step + 1 = m /\ ~ (m <= step)
    BY <2>7, <2>8
  <2> QED BY <2>1, <2>5, <2>6, <2>7, <2>9
<1>4. Scaled(time) <= TimeInterval(step + 1)
  BY <1>3
<1>5. \A k \in Int : TimeInterval(k) \in Int
  BY <1>1, <1>2, SMT DEF TimeInterval, Scaled
<1>6. Scaled(time) \in Int
  BY <1>1, <1>2, SMT DEF Scaled
<1>7. CASE step = 0
  <2>1. PICK t \in Nat : t = T
    BY <1>1
  <2>2. PICK lo \in Int, hi \in Int, x \in Int : lo = min_time /\ hi = max_time /\ x = time
    BY <1>2
  <2>3. TimeInterval(0) = 2 * t * t * lo - t * (hi - lo) /\ Scaled(time) = 2 * t * t * x
    BY <2>1, <2>2 DEF TimeInterval, Scaled
  <2>4. lo <= hi /\ lo <= x
    BY <1>2, <2>2
  <2> DEFINE tt == t * t
             td == t * (hi - lo)
  <2>5. tt \in Nat /\ td \in Nat /\ 2 * t * t * lo = 2 * (tt * lo) /\ 2 * t * t * x = 2 * (tt * x)
    BY <2>4, SMT
  <2>6. TimeInterval(0) = 2 * (tt * lo) - td /\ Scaled(time) = 2 * (tt * x)
    BY <2>3, <2>5
  <2> HIDE DEF tt, td
  <2>7. tt * lo <= tt * x /\ tt * x \in Int /\ tt * lo \in Int
    BY <2>4, <2>5, SMT
  <2>8. TimeInterval(0) <= Scaled(time)
    BY <2>5, <2>6, <2>7, SMT
  <2> QED BY <1>4, <1>7, <2>8
<1>8. CASE step # 0
  <2>1. step \in 1 .. T
    BY <1>1, <1>3, <1>8
  <2>2. ~ (Scaled(time) <= TimeInterval(step))
    BY <1>3, <2>1
  <2>3. step \in Int
    BY <2>1
  <2>4. TimeInterval(step) \in Int
    BY <1>5, <2>3
  <2> HIDE DEF step
  <2> QED BY <1>4, <1>6, <2>2, <2>4 DEF step
<1> QED BY <1>7, <1>8

(***************************************************************************)
(* average_lha_planes: the mean of the times of a step lies between its    *)
(* limits too.                                                             *)
(***************************************************************************)
LEMMA MeanBetween ==
  ASSUME NEW S, IsFiniteSet(S), NEW t \in Nat, NEW times, \A v \in S : times[v] \in Int,
         NEW lo \in Int, NEW hi \in Int,
         \A v \in S : lo <= 2 * t * t * times[v] /\ 2 * t * t * times[v] <= hi
  PROVE  /\ Cardinality(S) * lo <= 2 * t * t * SumOf(times, S)
         /\ 2 * t * t * SumOf(times, S) <= Cardinality(S) * hi
<1>1. PICK c \in Int : c = 2 * t * t
  BY SMT
<1> DEFINE scaled == [v \in S |-> c * times[v]]
<1>2. \A v \in S : scaled[v] = c * times[v] /\ scaled[v] \in Int
  BY SMT
<1>3. \A v \in S : scaled[v] \in Int /\ lo <= scaled[v] /\ scaled[v] <= hi
  BY <1>1, <1>2
<1>4. PICK z \in Int : z = 0
  OBVIOUS
<1>5. IsLinear(scaled, times, times, S, c, z, z)
  BY <1>2, <1>4 DEF IsLinear
<1> HIDE DEF scaled
<1>6. SumOf(scaled, S) = c * SumOf(times, S) + z * SumOf(times, S) + z * Cardinality(S)
  BY <1>5, SumLinear
<1>7. SumOf(times, S) \in Int /\ Cardinality(S) \in Nat
  BY SumIsInt, FS_CardinalityType
<1>8. SumOf(scaled, S) = c * SumOf(times, S)
  BY <1>4, <1>6, <1>7, SMT
<1>9. lo * Cardinality(S) <= SumOf(scaled, S) /\ SumOf(scaled, S) <= hi * Cardinality(S)
  BY <1>3, SumBounds
<1> QED BY <1>1, <1>7, <1>8, <1>9, SMT

(***************************************************************************)
(* A step of the imager leaves the times alone, ends the gridder's call or *)
(* is average_lha_planes.                                                  *)
(***************************************************************************)
LEMMA TimesKept ==
  ASSUME IInv, GInv, [ImagerNext]_imagervars
  PROVE  \/ UNCHANGED <<aw, vis_timesteps, lha_planes>>
         \/ vis_timesteps' = <<>>
         \/ AverageLha
<1> DEFINE same == UNCHANGED <<aw, vis_timesteps, lha_planes>>
<1>1. ASSUME gpc = "idle", UNCHANGED vis_timesteps PROVE vis_timesteps' = <<>>
  BY <1>1 DEF GInv, PlaceOK
<1>2. CASE UNCHANGED imagervars
  BY <1>2 DEF imagervars, awvars, kernelvars, gridvars
<1>3. CASE GridderStep
  <2>1. CASE StartGridder \/ KernelImageTransformed \/ StartPlane
    BY <2>1 DEF StartGridder, KernelImageTransformed, StartPlane
  <2>2. CASE MultiplyPlaneKernel
    BY <2>2 DEF MultiplyPlaneKernel, MultiplyAKernel
  <2>3. CASE StartStep
    BY <2>3 DEF StartStep, MultiplyAKernel
  <2>4. CASE PlaneKernelMultiplied \/ CacheKernel \/ GridVisibilities \/ GridderDone \/ TransformFails
    BY <2>4 DEF PlaneKernelMultiplied, CacheKernel, GridVisibilities, GridderDone, TransformFails,
       kernelvars
  <2> QED BY <1>3, <2>1, <2>2, <2>3, <2>4 DEF GridderStep
<1>4. CASE WideStep /\ UNCHANGED gridvars
  <2>1. aw' = aw
    BY <1>4 DEF WideStep, TransformProduct, Transformed, Truncate, Interpolate
  <2> QED BY <1>4, <2>1 DEF gridvars
<1>5. CASE FFTStep /\ UNCHANGED <<aw, widevars, gridvars>>
  BY <1>5 DEF gridvars
<1>6. CASE OwnStep
  <2>1. CASE (\E c \in ImageCalls : CallImager(c)) \/ Grid
    <3>1. UNCHANGED vis_timesteps
      BY <2>1 DEF CallImager, Grid, CallGridder, gridvars
    <3>2. gpc = "idle"
      BY <2>1 DEF CallImager, Grid, IInv, GridderQuiet, Waiting
    <3> QED BY <1>1, <3>1, <3>2
  <2>2. CASE SetImageSizes \/ CheckParameters \/ InitFFTW \/ NormaliseImage \/ NormaliseBeam \/ CleanUpThreads
    BY <2>2 DEF SetImageSizes, CheckParameters, InitFFTW, NormaliseImage, NormaliseBeam,
       CleanUpThreads, Normalise, awvars, kernelvars, gridvars
  <2>3. CASE TransformImage \/ ImageTransformed \/ TransformBeam \/ BeamTransformed \/ ComputeGCF
             \/ GCFTransformed \/ ImagerFails
    BY <2>3 DEF TransformImage, ImageTransformed, TransformBeam, BeamTransformed, ComputeGCF,
       GCFTransformed, TransformGrid, Transformed2D, ImagerFails, awvars, kernelvars, gridvars
  <2>4. CASE GridsReturned
    BY <2>4 DEF GridsReturned, ReturnGridder, ReturnFromGridder
  <2> QED BY <1>6, <2>1, <2>2, <2>3, <2>4 DEF OwnStep
<1> QED BY <1>2, <1>3, <1>4, <1>5, <1>6 DEF ImagerNext, ImagerStep, OwnStep, GridderStep

(***************************************************************************)
(* The times and their means, once they have been divided into steps.      *)
(***************************************************************************)
LEMMA AverageSpans ==
  ASSUME GInv, AverageLha
  PROVE  StepsSpanTimes'
<1>1. Active /\ use_aproj /\ GridderArguments(aw) /\ UNCHANGED aw
  <2>1. gpc = "planes" /\ use_aproj /\ UNCHANGED aw
    BY DEF AverageLha, kernelvars
  <2> QED BY <2>1 DEF GInv, ArgumentsOK, Active
<1>2. T' = T /\ Visibilities' = Visibilities /\ \A v : Scaled(v)' = Scaled(v)
  BY <1>1 DEF T, Visibilities, Scaled
<1>3. \A k : TimeInterval(k)' = TimeInterval(k)
  BY <1>1 DEF TimeInterval, min_time, max_time, T, Visibilities, Scaled
<1>4. PICK garbage \in 0 .. T :
        vis_timesteps' = [v \in Visibilities |->
                            IF aw.vis[v].good # 0 THEN StepOf(aw.vis[v].lha) ELSE garbage]
  BY DEF AverageLha
<1>5. SUFFICES ASSUME NEW v \in Visibilities, aw.vis[v].good # 0
               PROVE  LET k    == vis_timesteps'[v]
                          mean == lha_planes'[k]
                      IN  /\ k \in 0 .. T - 1
                          /\ TimeInterval(k) <= Scaled(aw.vis[v].lha)
                          /\ Scaled(aw.vis[v].lha) <= TimeInterval(k + 1)
                          /\ mean.den * TimeInterval(k) <= Scaled(mean.num)
                          /\ Scaled(mean.num) <= mean.den * TimeInterval(k + 1)
  BY <1>1, <1>2, <1>3 DEF StepsSpanTimes
<1>6. PICK k : k = StepOf(aw.vis[v].lha)
  OBVIOUS
<1>7. vis_timesteps'[v] = k /\ k \in 0 .. T - 1
  BY <1>1, <1>4, <1>5, <1>6, StepExists
<1>8. PICK S : S = InStep(k)
  OBVIOUS
<1>9. v \in S /\ S \subseteq Visibilities /\ IsFiniteSet(S)
  <2>1. IsFiniteSet(Visibilities)
    BY <1>1, Bounds, FS_Interval
  <2>2. v \in S /\ S \subseteq Visibilities
    BY <1>5, <1>7, <1>8 DEF InStep
  <2> QED BY <2>1, <2>2, FS_Subset
<1>10. lha_planes'[k] = [num |-> SumOf(lha_of, S), den |-> Cardinality(S)]
  BY <1>7, <1>8, <1>9 DEF AverageLha
<1>11. \A u \in S : /\ lha_of[u] = aw.vis[u].lha /\ lha_of[u] \in Int
                    /\ TimeInterval(k) <= Scaled(lha_of[u])
                    /\ Scaled(lha_of[u]) <= TimeInterval(k + 1)
  <2> SUFFICES ASSUME NEW u \in S
               PROVE  /\ lha_of[u] = aw.vis[u].lha /\ lha_of[u] \in Int
                      /\ TimeInterval(k) <= Scaled(lha_of[u])
                      /\ Scaled(lha_of[u]) <= TimeInterval(k + 1)
    OBVIOUS
  <2>1. u \in Visibilities /\ lha_of[u] = aw.vis[u].lha /\ lha_of[u] \in Int
    BY <1>1, <1>9, TimesSpan DEF lha_of
  <2>2. StepOf(aw.vis[u].lha) = k
    BY <1>4, <1>8, <2>1 DEF InStep
  <2> QED BY <1>1, <2>1, <2>2, StepLimits
<1>12. TimeInterval(k) \in Int /\ TimeInterval(k + 1) \in Int
  <2>1. min_time \in Int /\ max_time \in Int /\ T \in Nat
    BY <1>1, TimesSpan DEF GridderArguments, T
  <2> QED BY <1>7, <2>1, SMT DEF TimeInterval, Scaled
<1>13. T \in Nat
  BY <1>1 DEF GridderArguments, T
<1>14. /\ Cardinality(S) * TimeInterval(k) <= Scaled(SumOf(lha_of, S))
       /\ Scaled(SumOf(lha_of, S)) <= Cardinality(S) * TimeInterval(k + 1)
  <2>1. PICK t \in Nat, lo \in Int, hi \in Int : t = T /\ lo = TimeInterval(k) /\ hi = TimeInterval(k + 1)
    BY <1>12, <1>13
  <2>2. \A u \in S : lha_of[u] \in Int /\ lo <= 2 * t * t * lha_of[u] /\ 2 * t * t * lha_of[u] <= hi
    BY <1>11, <2>1 DEF Scaled
  <2>3. /\ Cardinality(S) * lo <= 2 * t * t * SumOf(lha_of, S)
        /\ 2 * t * t * SumOf(lha_of, S) <= Cardinality(S) * hi
    BY <1>9, <2>2, MeanBetween
  <2> QED BY <2>1, <2>3 DEF Scaled
<1>15. TimeInterval(k) <= Scaled(aw.vis[v].lha) /\ Scaled(aw.vis[v].lha) <= TimeInterval(k + 1)
  BY <1>9, <1>11
<1> QED BY <1>7, <1>10, <1>14, <1>15, SMTT(20)

(***************************************************************************)
(* Steps that leave the times alone keep what was said of them.            *)
(***************************************************************************)
LEMMA StepSpans ==
  ASSUME IInv, GInv, StepsSpanTimes, [ImagerNext]_imagervars
  PROVE  StepsSpanTimes'
<1>1. CASE UNCHANGED <<aw, vis_timesteps, lha_planes>>
  <2>1. /\ T' = T /\ Visibilities' = Visibilities /\ \A k : TimeInterval(k)' = TimeInterval(k)
        /\ \A x : Scaled(x)' = Scaled(x)
    BY <1>1 DEF TimeInterval, min_time, max_time, T, Visibilities, Scaled
  <2> QED BY <1>1, <2>1 DEF StepsSpanTimes
<1>2. CASE vis_timesteps' = <<>>
  BY <1>2 DEF StepsSpanTimes
<1>3. CASE AverageLha
  BY <1>3, AverageSpans
<1> QED BY <1>1, <1>2, <1>3, TimesKept

LEMMA InitSpans == ImagerIdle => StepsSpanTimes
BY DEF ImagerIdle, GridIdle, StepsSpanTimes

(***************************************************************************)
(* average_lha_planes: the time of every visibility in bounds, and the     *)
(* mean of the times that its A-kernel is rotated for, lie between the     *)
(* limits of its time step, for every number of steps and any times.       *)
(***************************************************************************)
THEOREM TimesLieInSteps == ImagerSpec => []StepsSpanTimes
<1>1. ImagerIdle => IInv /\ GInv /\ StepsSpanTimes
  BY InitIInv, InitGInv, InitSpans
<1>2. (IInv /\ GInv /\ StepsSpanTimes) /\ [ImagerNext]_imagervars => (IInv /\ GInv /\ StepsSpanTimes)'
  BY StepIInv, StepGInv, StepSpans
<1> QED BY <1>1, <1>2, PTL DEF ImagerSpec

------------------------------------------------------------------------------

\* The inductive invariants of the imager and of its gridder.
ImagingInv == IInv /\ GInv /\ StepsSpanTimes

(***************************************************************************)
(* The programs take a step of the imager, leave it alone, or end the      *)
(* call.                                                                   *)
(***************************************************************************)
LEMMA ProgramSteps == [ReduceNext]_reducevars => [ImagerNext]_imagervars \/ ImagerIdle'
<1> SUFFICES ASSUME [ReduceNext]_reducevars
             PROVE  [ImagerNext]_imagervars \/ ImagerIdle'
  OBVIOUS
<1>1. CASE StartImager \/ Imaging
  BY <1>1 DEF StartImager, Imaging, ImagerNext
<1>2. CASE ImagerReturned \/ ImagerFailed
  <2>1. ResetImager
    BY <1>2 DEF ImagerReturned, ImagerFailed
  <2> QED BY <2>1 DEF ResetImager, ResetFFT, DestroyKernels, ReturnFromGridder, ReturnFromImager,
             ImagerIdle, FFTIdle, WideIdle, GridIdle, ImgIdle
<1>3. CASE SaveImage \/ FindInImage \/ StartSourceFind \/ CallLibrary \/ Finding
  BY <1>3 DEF SaveImage, FindInImage, StartSourceFind, CallLibrary, Finding
<1>4. CASE Ended \/ UNCHANGED reducevars
  BY <1>4 DEF Ended, reducevars
<1> QED BY <1>1, <1>2, <1>3, <1>4 DEF ReduceNext

LEMMA ProgramInv == ReduceSpec => []ImagingInv
<1>1. ReduceInit => ImagingInv
  BY InitIInv, InitGInv, InitSpans DEF ReduceInit, ImagingInv
<1>2. ImagingInv /\ [ReduceNext]_reducevars => ImagingInv'
  <2>1. ImagingInv /\ [ImagerNext]_imagervars => ImagingInv'
    BY StepIInv, StepGInv, StepSpans DEF ImagingInv
  <2>2. ImagerIdle => ImagingInv
    BY InitIInv, InitGInv, InitSpans DEF ImagingInv
  <2>3. ImagerIdle' => ImagingInv'
    BY <2>2, PTL
  <2> QED BY <2>1, <2>3, ProgramSteps
<1> QED BY <1>1, <1>2, PTL DEF ReduceSpec

(***************************************************************************)
(* reduce, run_imager: whatever image a program makes and shows is taken   *)
(* from the right elements of the transform and of the image-domain        *)
(* kernel (NormalisationAligned), for every image size and padding factor. *)
(***************************************************************************)
THEOREM ProgramsAlignImages == ReduceSpec => []NormalisationAligned
<1>1. ImagingInv => NormalisationAligned
  BY IInvAligned DEF ImagingInv
<1> QED BY <1>1, ProgramInv, PTL

(***************************************************************************)
(* reduce, run_imager: every visibility in bounds is gridded once, with    *)
(* the kernel of its own plane and time step (OwnPlaneAndStep), for every  *)
(* number of visibilities, planes and time steps.                          *)
(***************************************************************************)
THEOREM ProgramsUseOwnKernels == ReduceSpec => []OwnPlaneAndStep
<1>1. ImagingInv => OwnPlaneAndStep
  BY GInvOwn DEF ImagingInv
<1> QED BY <1>1, ProgramInv, PTL

(***************************************************************************)
(* reduce, run_imager: the time of every visibility in bounds, and the     *)
(* mean time of its step, lie between the limits of the step               *)
(* (StepsSpanTimes), for every number of steps and any times.              *)
(***************************************************************************)
THEOREM ProgramsSpanTimes == ReduceSpec => []StepsSpanTimes
<1>1. ImagingInv => StepsSpanTimes
  BY DEF ImagingInv
<1> QED BY <1>1, ProgramInv, PTL

------------------------------------------------------------------------------
(***************************************************************************)
(* Powers of two, counted as sets of subsets: 2^(k + 1) is twice 2^k.      *)
(***************************************************************************)
LEMMA PowerIsCount ==
  ASSUME NEW k \in Nat
  PROVE  /\ IsFiniteSet(1 .. k) /\ Cardinality(1 .. k) = k
         /\ IsFiniteSet(SUBSET (1 .. k)) /\ Cardinality(SUBSET (1 .. k)) = 2^k
         /\ 2^k \in Nat
<1>1. IsFiniteSet(1 .. k) /\ Cardinality(1 .. k) = k
  BY FS_Interval
<1>2. IsFiniteSet(SUBSET (1 .. k)) /\ Cardinality(SUBSET (1 .. k)) = 2^k
  BY <1>1, FS_SUBSET
<1> QED BY <1>1, <1>2, FS_CardinalityType

LEMMA PowerDoubles ==
  ASSUME NEW k \in Nat
  PROVE  2^(k + 1) = 2 * 2^k
<1> DEFINE A == SUBSET (1 .. k)
           x == k + 1
           f == [s \in A |-> s \union {x}]
           B == {s \union {x} : s \in A}
<1>1. IsFiniteSet(A) /\ Cardinality(A) = 2^k /\ 2^k \in Nat
  BY PowerIsCount
<1>2. x \notin 1 .. k /\ 1 .. k + 1 = (1 .. k) \union {x}
  OBVIOUS
<1>3. \A s \in A : x \notin s
  BY <1>2
<1>4. IsFiniteSet(B) /\ Cardinality(B) = Cardinality(A)
  <2>1. B = {f[s] : s \in A} /\ \A s \in A : f[s] = s \union {x}
    OBVIOUS
  <2>2. ASSUME NEW r \in A, NEW s \in A, f[r] = f[s] PROVE r = s
    <3>1. r \union {x} = s \union {x} /\ x \notin r /\ x \notin s
      BY <1>3, <2>1, <2>2
    <3> QED BY <3>1
  <2> HIDE DEF A, B, f
  <2> QED BY <1>1, <2>1, <2>2, ImageOneToOne
<1>5. SUBSET (1 .. k + 1) = A \union B
  <2>1. ASSUME NEW t \in SUBSET (1 .. k + 1) PROVE t \in A \union B
    <3>1. CASE x \in t
      <4>1. t \ {x} \in A /\ t = (t \ {x}) \union {x}
        BY <1>2, <2>1, <3>1
      <4> QED BY <4>1
    <3>2. CASE x \notin t
      BY <1>2, <2>1, <3>2
    <3> QED BY <3>1, <3>2
  <2>2. ASSUME NEW t \in A \union B PROVE t \in SUBSET (1 .. k + 1)
    BY <1>2, <2>2
  <2> QED BY <2>1, <2>2
<1>6. A \cap B = {} /\ Cardinality({}) = 0
  BY <1>3, FS_EmptySet
<1>7. Cardinality(A \union B) = Cardinality(A) + Cardinality(B) - Cardinality(A \cap B)
  <2> HIDE DEF A, B
  <2> QED BY <1>1, <1>4, FS_Union
<1>8. k + 1 \in Nat
  OBVIOUS
<1>9. Cardinality(SUBSET (1 .. k + 1)) = 2^(k + 1)
  BY <1>8, PowerIsCount
<1>10. Cardinality(A \union B) = 2^k + 2^k
  <2>1. PICK c \in Nat : c = 2^k
    BY <1>1
  <2> DEFINE union == A \union B
             meet  == A \cap B
  <2>2. Cardinality(A) = c /\ Cardinality(B) = c /\ Cardinality(meet) = 0
        /\ Cardinality(union) = Cardinality(A) + Cardinality(B) - Cardinality(meet)
    BY ONLY <1>1, <1>4, <1>6, <1>7, <2>1, Zenon
  <2> HIDE DEF A, B, union, meet
  <2>3. Cardinality(union) = c + c
    BY ONLY c \in Nat, <2>2, SMT
  <2> QED BY <2>1, <2>3 DEF union
<1>11. 2^(k + 1) = 2^k + 2^k
  BY ONLY <1>5, <1>9, <1>10, Zenon
<1> QED BY <1>1, <1>11

LEMMA PowerExceeds ==
  ASSUME NEW k \in Nat
  PROVE  2^k > k
<1> DEFINE S == {j \in Nat : 2^j > j}
<1>1. 0 \in S
  <2>1. SUBSET (1 .. 0) = {{}} /\ Cardinality({{}}) = 1
    <3>1. 1 .. 0 = {}
      OBVIOUS
    <3>2. SUBSET {} = {{}}
      OBVIOUS
    <3> QED BY ONLY <3>1, <3>2, FS_Singleton, Zenon
  <2>2. Cardinality(SUBSET (1 .. 0)) = 2^0
    BY PowerIsCount
  <2> QED BY <2>1, <2>2
<1>2. ASSUME NEW j \in Nat, j \in S PROVE j + 1 \in S
  <2>1. 2^(j + 1) = 2 * 2^j /\ 2^j \in Nat /\ 2^j > j
    BY <1>2, PowerDoubles, PowerIsCount
  <2> QED BY <2>1
<1> HIDE DEF S
<1>3. Nat \subseteq S
  BY <1>1, <1>2, AllNaturals
<1> QED BY <1>3 DEF S

\* From 2 on they are even.
LEMMA PowerEven ==
  ASSUME NEW n \in Nat, NEW s \in PowersOfTwo(n)
  PROVE  s \in Nat /\ \E h \in Nat : s = 2 * h
<1>1. PICK k \in 1 .. n : s = 2^k
  BY DEF PowersOfTwo
<1> DEFINE j == k - 1
<1>2. j \in Nat /\ k = j + 1
  BY <1>1
<1> HIDE DEF j
<1>3. 2^k = 2 * 2^j /\ 2^j \in Nat
  BY <1>2, PowerDoubles, PowerIsCount
<1> QED BY <1>1, <1>3

LEMMA LeastIs ==
  ASSUME NEW S, S \subseteq Nat, S # {}
  PROVE  Min(S) \in S
<1>1. \E x \in S : \A y \in S : x <= y
  BY LeastNatural
<1> QED BY <1>1 DEF Min

(***************************************************************************)
(* convolve_to_grid: the kernel's working area is even, and larger than    *)
(* the kernel.                                                             *)
(***************************************************************************)
LEMMA WorkareaFits ==
  ASSUME KernelArguments(aw, aw.image_size), aw.image_size \in Nat \ {0}
  PROVE  /\ half_kernel_size \in Nat /\ half_kernel_size > aw.max_wpconv_support
         /\ workarea_size = 2 * half_kernel_size
<1> DEFINE u == aw.undersampling_opt
           size == 2 * aw.max_wpconv_support + 1
<1>1. u \in Nat /\ aw.max_wpconv_support \in Nat /\ size \in Nat \ {0}
  BY DEF KernelArguments
<1>2. CASE u = 0
  <2> DEFINE n == aw.image_size
             S == {s \in PowersOfTwo(n) : s >= n}
  <2>1. n \in Nat \ {0} /\ size <= n
    BY <1>1, <1>2 DEF KernelArguments
  <2>2. workarea_size = Min(S)
    BY <1>2 DEF workarea_size, Least
  <2>3. 2^n \in S
    <3>1. 2^n \in PowersOfTwo(n)
      BY <2>1 DEF PowersOfTwo
    <3>2. 2^n > n /\ 2^n \in Nat
      BY <2>1, PowerExceeds, PowerIsCount
    <3> QED BY <2>1, <3>1, <3>2
  <2>4. S \subseteq Nat
    BY <2>1, PowerEven
  <2>5. Min(S) \in S
    <3> HIDE DEF S
    <3> QED BY <2>3, <2>4, LeastIs
  <2>6. PICK h \in Nat : workarea_size = 2 * h
    BY <2>1, <2>2, <2>5, PowerEven
  <2>7. workarea_size >= n
    BY <2>2, <2>5
  <2> QED BY <1>1, <2>1, <2>6, <2>7 DEF half_kernel_size
<1>3. CASE u > 0
  <2> DEFINE q == 2^(u - 1)
             n == size * q
             S == {s \in PowersOfTwo(n) : s \div q >= size}
  <2>1. q \in Nat \ {0}
    <3>1. u - 1 \in Nat
      BY <1>1, <1>3
    <3> QED BY <3>1, PowerIsCount, PowerExceeds
  <2>2. workarea_size = Min(S)
    BY <1>3 DEF workarea_size, Least
  <2> HIDE DEF q
  <2>3. n \in Nat \ {0}
    BY <1>1, <2>1
  <2> HIDE DEF size
  <2>4. \A s \in Nat : (s > n => s \div q >= size) /\ (s \div q >= size => s >= size)
    <3> TAKE s \in Nat
    <3> DEFINE d == s \div q
               r == s % q
    <3>1. d \in Int /\ r \in 0 .. q - 1 /\ s = q * d + r
      BY <2>1, Division
    <3> HIDE DEF d, r
    <3>2. ASSUME s > n PROVE d >= size
      <4>1. ASSUME d <= size - 1 PROVE FALSE
        <5>1. q * d <= q * (size - 1)
          BY <1>1, <2>1, <3>1, <4>1, SMT
        <5>2. q * (size - 1) = n - q
          BY <1>1, <2>1, SMT
        <5> HIDE DEF n
        <5> QED BY <1>1, <2>1, <2>3, <3>1, <3>2, <5>1, <5>2
      <4> QED BY <1>1, <3>1, <4>1
    <3>3. ASSUME d >= size PROVE s >= size
      <4>1. q * d >= d
        BY <1>1, <2>1, <3>1, <3>3, SMT
      <4> QED BY <1>1, <2>1, <3>1, <3>3, <4>1
    <3> QED BY <3>2, <3>3 DEF d
  <2> HIDE DEF n
  <2>5. 2^n \in S
    <3>1. 2^n \in PowersOfTwo(n)
      BY <2>3 DEF PowersOfTwo
    <3>2. 2^n > n /\ 2^n \in Nat
      BY <2>3, PowerExceeds, PowerIsCount
    <3> QED BY <2>4, <3>1, <3>2
  <2>6. S \subseteq Nat
    BY <2>3, PowerEven
  <2>7. Min(S) \in S
    <3> HIDE DEF S
    <3> QED BY <2>5, <2>6, LeastIs
  <2>8. PICK h \in Nat : workarea_size = 2 * h
    BY <2>2, <2>3, <2>7, PowerEven
  <2>9. workarea_size >= size
    BY <2>2, <2>4, <2>6, <2>7
  <2> QED BY <1>1, <2>8, <2>9 DEF half_kernel_size, size
<1> QED BY <1>1, <1>2, <1>3

\* Its array, in sub-pixels.
LEMMA ArrayFits ==
  ASSUME KernelArguments(aw, aw.image_size), aw.image_size \in Nat \ {0}
  PROVE  /\ array_size \in Nat /\ array_size = 2 * (half_kernel_size * aw.oversampling)
         /\ array_size \div 2 = half_kernel_size * aw.oversampling
         /\ half_kernel_size * aw.oversampling \in Nat
         /\ half_kernel_size * aw.oversampling >= half_kernel_size
         /\ half_kernel_size * aw.oversampling
              >= aw.max_wpconv_support * aw.oversampling + aw.oversampling
         /\ aw.max_wpconv_support * aw.oversampling \in Nat
<1> DEFINE h == half_kernel_size
           o == aw.oversampling
           m == aw.max_wpconv_support
           ho == h * o
           mo == m * o
<1>1. h \in Nat /\ m \in Nat /\ h > m /\ o \in Nat \ {0} /\ workarea_size = 2 * h
  BY WorkareaFits DEF KernelArguments
<1>2. array_size = (2 * h) * o
  BY <1>1 DEF array_size
<1> HIDE DEF h, o, m
<1>3. ho \in Nat /\ mo \in Nat /\ (2 * h) * o = 2 * ho /\ ho >= h
  BY <1>1, SMT
<1>4. ho >= (m + 1) * o /\ (m + 1) * o = mo + o
  BY <1>1, SMT
<1> HIDE DEF ho, mo
<1>5. 2 * ho \in Nat /\ (2 * ho) \div 2 = ho
  BY <1>3
<1> QED BY <1>1, <1>2, <1>3, <1>4, <1>5 DEF ho, mo, h, o, m

------------------------------------------------------------------------------
(***************************************************************************)
(* Half a quadrant: the sample at the distances a <= b is number           *)
(* a * K - a * (a + 1) / 2 + b, for rows of K samples less one each.       *)
(***************************************************************************)
Triangle(a) == (a * (a + 1)) \div 2

Number(K, a, b) == a * K - Triangle(a) + b

Final(K) == K + (K * (K - 1)) \div 2

LEMMA Triangles ==
  ASSUME NEW a \in Nat
  PROVE  /\ Triangle(a) \in Nat /\ 2 * Triangle(a) = a * (a + 1)
         /\ a > 0 => Triangle(a) = Triangle(a - 1) + a
<1>1. \A x \in Nat : Triangle(x) \in Nat /\ 2 * Triangle(x) = x * (x + 1)
  <2> TAKE x \in Nat
  <2> DEFINE r == x % 2
             q == x \div 2
  <2>1. r \in 0 .. 1 /\ q \in Nat /\ x = 2 * q + r
    BY SMT
  <2> HIDE DEF r, q
  <2>2. CASE r = 0
    <3>1. x * (x + 1) = 2 * (q * (2 * q + 1)) /\ q * (2 * q + 1) \in Nat
      BY <2>1, <2>2, SMT
    <3> DEFINE y == q * (2 * q + 1)
    <3> HIDE DEF y
    <3>2. y \in Nat /\ (2 * y) \div 2 = y
      BY <3>1 DEF y
    <3> QED BY <3>1, <3>2 DEF y, Triangle
  <2>3. CASE r = 1
    <3>1. x * (x + 1) = 2 * ((2 * q + 1) * (q + 1)) /\ (2 * q + 1) * (q + 1) \in Nat
      BY <2>1, <2>3, SMT
    <3> DEFINE y == (2 * q + 1) * (q + 1)
    <3> HIDE DEF y
    <3>2. y \in Nat /\ (2 * y) \div 2 = y
      BY <3>1 DEF y
    <3> QED BY <3>1, <3>2 DEF y, Triangle
  <2> QED BY <2>1, <2>2, <2>3
<1>2. ASSUME a > 0 PROVE Triangle(a) = Triangle(a - 1) + a
  <2> DEFINE b == a - 1
  <2>1. b \in Nat /\ a = b + 1
    BY <1>2
  <2> HIDE DEF b
  <2>2. PICK s \in Nat : s = Triangle(a) /\ 2 * s = a * (a + 1)
    BY <1>1
  <2>3. PICK t \in Nat : t = Triangle(b) /\ 2 * t = b * (b + 1)
    BY <1>1, <2>1
  <2>4. a * (a + 1) = b * (b + 1) + 2 * a
    BY <2>1, SMT
  <2>5. 2 * s = 2 * t + 2 * a
    BY <2>2, <2>3, <2>4, Zenon
  <2>6. s = t + a
    BY ONLY <2>5, s \in Nat, t \in Nat, a \in Nat
  <2> QED BY <2>2, <2>3, <2>6 DEF b
<1> QED BY <1>1, <1>2

LEMMA NumberInRange ==
  ASSUME NEW K \in Nat, NEW a \in 0 .. K - 1, NEW b \in a .. K - 1
  PROVE  Number(K, a, b) \in 0 .. Final(K) - 1
<1>1. a \in Nat /\ K - 1 \in Nat /\ b \in Nat
  OBVIOUS
<1>2. PICK s \in Nat : s = Triangle(a) /\ 2 * s = a * (a + 1)
  BY <1>1, Triangles
<1>3. PICK t \in Nat : t = Triangle(K - 1) /\ 2 * t = (K - 1) * ((K - 1) + 1)
  BY <1>1, Triangles
<1>4. (K - 1) * ((K - 1) + 1) = K * (K - 1)
  BY SMT
<1>5. Final(K) = K + t
  BY <1>3, <1>4 DEF Final, Triangle
<1> DEFINE p == a * K
           e == K - a
<1>6. p \in Nat /\ p >= a * (a + 1) /\ e \in Nat /\ e >= 1
  BY SMT
<1>7. e * (e - 1) >= 0
  BY <1>6, SMT
<1>8. e * (e - 1) = K * (K - 1) - 2 * p + a * (a + 1)
  BY SMT
<1> DEFINE x == K * (K - 1)
           y == a * (a + 1)
<1>9. x \in Int /\ y \in Int /\ x - 2 * p + y >= 0 /\ 2 * t = x /\ 2 * s = y /\ p >= y
  BY <1>2, <1>3, <1>4, <1>6, <1>7, <1>8
<1> HIDE DEF p, x, y, e
<1>10. p - s + b >= 0 /\ p - s + b < K + t
  BY <1>1, <1>2, <1>3, <1>6, <1>9
<1> QED BY <1>1, <1>2, <1>3, <1>5, <1>6, <1>10 DEF Number, p

\* The next sample of a row, and the first one of a row.
LEMMA NumberNext ==
  ASSUME NEW K \in Nat, NEW a \in 0 .. K - 1, NEW b \in a .. K - 1
  PROVE  /\ b > a => Number(K, a, b) = Number(K, a, b - 1) + 1
         /\ b = a /\ a > 0 => Number(K, a, b) = Number(K, a - 1, K - 1) + 1
<1>1. ASSUME b > a PROVE Number(K, a, b) = Number(K, a, b - 1) + 1
  <2>1. PICK s \in Nat : s = Triangle(a)
    BY Triangles
  <2>2. PICK p \in Nat : p = a * K
    BY SMT
  <2> QED BY <2>1, <2>2 DEF Number
<1>2. ASSUME b = a, a > 0 PROVE Number(K, a, b) = Number(K, a - 1, K - 1) + 1
  <2>1. PICK s \in Nat : s = Triangle(a - 1) /\ Triangle(a) = s + a
    <3>1. a \in Nat /\ a - 1 \in Nat
      BY <1>2
    <3> QED BY <1>2, <3>1, Triangles
  <2>2. PICK p \in Nat : p = (a - 1) * K /\ a * K = p + K
    <3>1. (a - 1) * K \in Nat /\ a * K = (a - 1) * K + K
      BY <1>2, SMT
    <3> QED BY <3>1
  <2> QED BY <1>2, <2>1, <2>2 DEF Number
<1> QED BY <1>1, <1>2

\* One step of RadialInterpolate's double loop.
Cell(f, K, i) ==
  IF i = 0 THEN <<0, 0>>
  ELSE LET prev == f[i - 1]
           ii   == prev[1]
           j    == prev[2] + 1
       IN  IF j = K THEN <<ii + 1, ii + 1>> ELSE <<ii, j>>

IsLoop(f, K, n) == f = [i \in 0 .. n - 1 |-> Cell(f, K, i)]

LEMMA LoopExists ==
  ASSUME NEW K, NEW n \in Nat
  PROVE  \E f : IsLoop(f, K, n)
<1> DEFINE S == {m \in Nat : \E f : IsLoop(f, K, m)}
<1>1. 0 \in S
  <2>1. 0 .. 0 - 1 = {}
    OBVIOUS
  <2> DEFINE f == [i \in {} |-> 0]
  <2>2. f = [i \in 0 .. 0 - 1 |-> Cell(f, K, i)]
    BY <2>1
  <2> QED BY <2>2 DEF IsLoop
<1>2. ASSUME NEW m \in Nat, m \in S PROVE m + 1 \in S
  <2>1. PICK f : IsLoop(f, K, m)
    BY <1>2
  <2> DEFINE g == [i \in 0 .. m |-> Cell(f, K, i)]
  <2>2. \A i \in 0 .. m - 1 : g[i] = f[i]
    BY <2>1 DEF IsLoop
  <2>3. \A i \in 0 .. m : Cell(g, K, i) = Cell(f, K, i)
    <3> TAKE i \in 0 .. m
    <3>1. CASE i = 0
      BY <3>1 DEF Cell
    <3>2. CASE i # 0
      <4>1. g[i - 1] = f[i - 1]
        BY <2>2, <3>2
      <4> HIDE DEF g
      <4> QED BY ONLY <4>1, <3>2 DEF Cell
    <3> QED BY <3>1, <3>2
  <2>4. g = [i \in 0 .. m |-> Cell(g, K, i)]
    BY <2>3
  <2>5. 0 .. (m + 1) - 1 = 0 .. m
    OBVIOUS
  <2> HIDE DEF g
  <2>6. IsLoop(g, K, m + 1)
    BY <2>4, <2>5 DEF IsLoop
  <2> QED BY <2>6
<1> HIDE DEF S
<1>3. Nat \subseteq S
  BY <1>1, <1>2, AllNaturals
<1> QED BY <1>3 DEF S

LEMMA LoopVisits ==
  ASSUME NEW K \in Nat, NEW f, IsLoop(f, K, Final(K))
  PROVE  \A a \in 0 .. K - 1 : \A b \in a .. K - 1 : f[Number(K, a, b)] = <<a, b>>
<1> DEFINE S == {i \in Nat : \A a \in 0 .. K - 1 : \A b \in a .. K - 1 :
                               Number(K, a, b) = i => f[i] = <<a, b>>}
<1>1. \A i \in 0 .. Final(K) - 1 : f[i] = Cell(f, K, i)
  BY DEF IsLoop
<1>2. ASSUME NEW a \in 0 .. K - 1, NEW b \in a .. K - 1, ~ (a = 0 /\ b = 0)
      PROVE  \E c \in 0 .. K - 1 : \E d \in c .. K - 1 :
                /\ Number(K, a, b) = Number(K, c, d) + 1
                /\ Number(K, c, d) \in Nat
                /\ \/ a = c /\ b = d + 1
                   \/ a = c + 1 /\ b = a /\ d = K - 1
  <2>1. CASE b > a
    <3>1. b - 1 \in a .. K - 1
      BY <2>1
    <3>2. Number(K, a, b - 1) \in Nat
      BY <3>1, NumberInRange
    <3> QED BY <2>1, <3>1, <3>2, NumberNext
  <2>2. CASE b = a
    <3>1. a - 1 \in 0 .. K - 1 /\ K - 1 \in a - 1 .. K - 1 /\ a > 0
      BY <1>2, <2>2
    <3> DEFINE c == a - 1
    <3>2. Number(K, c, K - 1) \in Nat
      <4>1. c \in 0 .. K - 1 /\ K - 1 \in c .. K - 1
        BY <3>1
      <4> HIDE DEF c
      <4> QED BY <4>1, NumberInRange
    <3>3. Number(K, a, b) = Number(K, c, K - 1) + 1
      BY <2>2, <3>1, NumberNext
    <3> QED BY <2>2, <3>1, <3>2, <3>3
  <2> QED BY <2>1, <2>2
<1>3. 0 \in S
  <2>1. ASSUME NEW a \in 0 .. K - 1, NEW b \in a .. K - 1, Number(K, a, b) = 0
        PROVE  f[0] = <<a, b>>
    <3>1. a = 0 /\ b = 0
      BY <1>2, <2>1
    <3>2. 0 \in 0 .. Final(K) - 1
      BY <2>1, NumberInRange
    <3> QED BY <1>1, <3>1, <3>2 DEF Cell
  <2> QED BY <2>1
<1>4. ASSUME NEW i \in Nat, i \in S PROVE i + 1 \in S
  <2>1. ASSUME NEW a \in 0 .. K - 1, NEW b \in a .. K - 1, Number(K, a, b) = i + 1
        PROVE  f[i + 1] = <<a, b>>
    <3>1. ~ (a = 0 /\ b = 0)
      <4>1. Triangle(0) = 0
        BY DEF Triangle
      <4>2. 0 * K = 0
        OBVIOUS
      <4>3. Number(K, 0, 0) = 0
        BY <4>1, <4>2 DEF Number
      <4> QED BY <2>1, <4>3
    <3>2. PICK c \in 0 .. K - 1 : \E d \in c .. K - 1 :
            /\ Number(K, a, b) = Number(K, c, d) + 1
            /\ Number(K, c, d) \in Nat
            /\ \/ a = c /\ b = d + 1
               \/ a = c + 1 /\ b = a /\ d = K - 1
      BY <1>2, <3>1
    <3>3. PICK d \in c .. K - 1 :
            /\ Number(K, a, b) = Number(K, c, d) + 1
            /\ Number(K, c, d) \in Nat
            /\ \/ a = c /\ b = d + 1
               \/ a = c + 1 /\ b = a /\ d = K - 1
      BY <3>2
    <3>4. Number(K, c, d) = i
      BY <2>1, <3>3
    <3>5. f[i] = <<c, d>>
      BY <1>4, <3>4
    <3>6. i + 1 \in 0 .. Final(K) - 1
      BY <2>1, NumberInRange
    <3>7. f[i + 1] = IF d + 1 = K THEN <<c + 1, c + 1>> ELSE <<c, d + 1>>
      BY <1>1, <3>5, <3>6 DEF Cell
    <3> QED BY <3>3, <3>7
  <2> QED BY <2>1
<1> HIDE DEF S
<1>5. Nat \subseteq S
  BY <1>3, <1>4, AllNaturals
<1>6. ASSUME NEW a \in 0 .. K - 1, NEW b \in a .. K - 1
      PROVE  f[Number(K, a, b)] = <<a, b>>
  <2> DEFINE i == Number(K, a, b)
  <2>1. i \in Nat
    BY NumberInRange
  <2>2. i \in S
    BY <1>5, <2>1
  <2> QED BY <2>2 DEF S
<1> QED BY <1>6

LEMMA HalfQuadrantHas ==
  ASSUME NEW K \in Nat, NEW a \in 0 .. K - 1, NEW b \in a .. K - 1
  PROVE  /\ Number(K, a, b) \in DOMAIN HalfQuadrant(K)
         /\ HalfQuadrant(K)[Number(K, a, b)] = {a, b}
<1> DEFINE at == CHOOSE f : IsLoop(f, K, Final(K))
<1>1. HalfQuadrant(K) = [i \in 0 .. Final(K) - 1 |-> {at[i][1], at[i][2]}]
  BY DEF HalfQuadrant, IsLoop, Cell, Final
<1>2. Number(K, a, b) \in 0 .. Final(K) - 1
  BY NumberInRange
<1>3. Final(K) \in Nat
  <2>1. K = 0 \/ K - 1 \in Nat
    OBVIOUS
  <2> QED BY <1>2, <2>1 DEF Final
<1>4. IsLoop(at, K, Final(K))
  BY <1>3, LoopExists
<1> HIDE DEF at
<1>5. at[Number(K, a, b)] = <<a, b>>
  BY <1>4, LoopVisits
<1> QED BY <1>1, <1>2, <1>5

------------------------------------------------------------------------------
(* Where the samples of a kernel are.                                       *)

\* The call that the kernels are generated in.
Called == KernelArguments(aw, aw.image_size) /\ aw.image_size \in Nat \ {0}

\* The offset from the centre of row i, as FFTW counts, and its distance.
Signed(i) == IF i <= array_size \div 2 THEN i ELSE i - array_size

Away(i) == Abs(Signed(i))

LEMMA Distances ==
  ASSUME Called, NEW i \in 0 .. array_size - 1
  PROVE  /\ Signed(i) \in Int /\ Away(i) \in Nat
         /\ Away(i) = 0 <=> i = 0
         /\ Away(i) < half_kernel_size =>
              /\ Signed(i) >= 0 <=> i < half_kernel_size
              /\ Signed(i) < 0 <=> i > array_size - half_kernel_size
              /\ Signed(i) = IF i < half_kernel_size THEN i ELSE i - array_size
              /\ Away(i) = IF i < half_kernel_size THEN i ELSE array_size - i
         /\ Away(i) >= half_kernel_size => i >= half_kernel_size /\ i <= array_size - half_kernel_size
         /\ \A k \in 1 .. half_kernel_size - 1 : i \in Mirrored(k) <=> Away(i) = k
<1> DEFINE h  == half_kernel_size
           ho == half_kernel_size * aw.oversampling
           A  == array_size
<1>1. h \in Nat /\ ho \in Nat /\ A \in Nat /\ A = 2 * ho /\ A \div 2 = ho /\ h <= ho
  BY WorkareaFits, ArrayFits DEF Called
<1>2. Mirrored(0) = Mirrored(0) /\ \A k : Mirrored(k) = {k, A - k}
  BY DEF Mirrored
<1>3. Signed(i) = IF i <= A \div 2 THEN i ELSE i - A
  BY DEF Signed
<1>4. Away(i) = IF Signed(i) < 0 THEN -Signed(i) ELSE Signed(i)
  BY DEF Away, Abs
<1> HIDE DEF h, ho, A
<1>5. i \in 0 .. A - 1
  BY DEF A
<1>6. Signed(i) = IF i <= ho THEN i ELSE i - A
  BY <1>1, <1>3
<1>7. Away(i) = IF i <= ho THEN i ELSE A - i
  BY <1>1, <1>4, <1>5, <1>6
<1>8. \A k \in 1 .. h - 1 : i \in Mirrored(k) <=> Away(i) = k
  BY <1>1, <1>2, <1>5, <1>7
<1>9. /\ Away(i) < h =>
           /\ Signed(i) >= 0 <=> i < h
           /\ Signed(i) < 0 <=> i > A - h
           /\ Signed(i) = IF i < h THEN i ELSE i - A
           /\ Away(i) = IF i < h THEN i ELSE A - i
      /\ Away(i) >= h => i >= h /\ i <= A - h
  BY <1>1, <1>5, <1>6, <1>7
<1>10. Signed(i) \in Int /\ Away(i) \in Nat /\ (Away(i) = 0 <=> i = 0)
  BY <1>1, <1>5, <1>6, <1>7
<1> QED BY <1>8, <1>9, <1>10 DEF h, A

(***************************************************************************)
(* generate_image_domain_convolution_kernel: lines, point and squares      *)
(* write the sample at its own distances, and nothing outside of half the  *)
(* working area.                                                           *)
(***************************************************************************)
LEMMA ImageDomainCentred ==
  ASSUME Called, NEW p \in Positions
  PROVE  ImageDomainKernel[p] =
           IF Away(p[1]) < half_kernel_size /\ Away(p[2]) < half_kernel_size
           THEN {{Away(p[1]), Away(p[2])}} ELSE {}
<1> DEFINE h == half_kernel_size
           inner == 1 .. h - 1
           i == p[1]
           j == p[2]
           u == Away(i)
           v == Away(j)
           line(k) == (Mirrored(k) \X {0}) \union ({0} \X Mirrored(k))
           square(k, l) == Mirrored(k) \X Mirrored(l)
           lines   == {{k, 0} : k \in {l \in inner : p \in line(l)}}
           point   == IF p = <<0, 0>> THEN {{0}} ELSE {}
           squares == {{kl[1], kl[2]} : kl \in {k \in inner \X inner : p \in square(k[1], k[2])}}
<1>1. ImageDomainKernel[p] = lines \union point \union squares
  BY DEF ImageDomainKernel
<1>2. p = <<i, j>> /\ i \in 0 .. array_size - 1 /\ j \in 0 .. array_size - 1
  BY DEF Positions
<1>3. h \in Nat \ {0}
  BY WorkareaFits DEF Called, KernelArguments
<1>4. /\ u \in Nat /\ (u = 0 <=> i = 0) /\ \A k \in inner : i \in Mirrored(k) <=> u = k
      /\ v \in Nat /\ (v = 0 <=> j = 0) /\ \A k \in inner : j \in Mirrored(k) <=> v = k
  BY <1>2, Distances
<1>5. \A k : p \in line(k) <=> (i \in Mirrored(k) /\ j = 0) \/ (i = 0 /\ j \in Mirrored(k))
  BY <1>2
<1>6. \A k, l : p \in square(k, l) <=> i \in Mirrored(k) /\ j \in Mirrored(l)
  BY <1>2
<1> HIDE DEF h, i, j, u, v, line, square
<1>7. \A k \in inner : p \in line(k) <=> (u = k /\ v = 0) \/ (u = 0 /\ v = k)
  BY <1>4, <1>5
<1>8. \A k \in inner \X inner : p \in square(k[1], k[2]) <=> u = k[1] /\ v = k[2]
  BY <1>4, <1>6
<1>9. point = IF u = 0 /\ v = 0 THEN {{0}} ELSE {}
  BY <1>2, <1>4
<1>10. lines = IF (u \in inner /\ v = 0) \/ (u = 0 /\ v \in inner) THEN {{u, v}} ELSE {}
  <2>1. CASE u \in inner /\ v = 0
    <3>1. {l \in inner : p \in line(l)} = {u}
      BY <1>3, <1>4, <1>7, <2>1
    <3> QED BY <2>1, <3>1
  <2>2. CASE u = 0 /\ v \in inner
    <3>1. {l \in inner : p \in line(l)} = {v}
      BY <1>3, <1>4, <1>7, <2>2
    <3> QED BY <2>2, <3>1
  <2>3. CASE ~ ((u \in inner /\ v = 0) \/ (u = 0 /\ v \in inner))
    <3>1. {l \in inner : p \in line(l)} = {}
      BY <1>3, <1>4, <1>7, <2>3
    <3> QED BY <2>3, <3>1
  <2> QED BY <2>1, <2>2, <2>3
<1>11. squares = IF u \in inner /\ v \in inner THEN {{u, v}} ELSE {}
  <2>1. CASE u \in inner /\ v \in inner
    <3>1. {k \in inner \X inner : p \in square(k[1], k[2])} = {<<u, v>>}
      BY <1>8, <2>1
    <3>2. squares = {{kl[1], kl[2]} : kl \in {<<u, v>>}}
      BY <3>1
    <3>3. {{kl[1], kl[2]} : kl \in {<<u, v>>}} = {{u, v}}
      OBVIOUS
    <3> QED BY <2>1, <3>2, <3>3, Zenon
  <2>2. CASE ~ (u \in inner /\ v \in inner)
    <3>1. {k \in inner \X inner : p \in square(k[1], k[2])} = {}
      BY <1>8, <2>2
    <3> QED BY <2>2, <3>1
  <2> QED BY <2>1, <2>2
<1> HIDE DEF lines, point, squares
<1>12. lines \union point \union squares = IF u < h /\ v < h THEN {{u, v}} ELSE {}
  <2>1. (u \in inner <=> u # 0 /\ u < h) /\ (v \in inner <=> v # 0 /\ v < h) /\ 0 < h
    BY <1>3, <1>4
  <2> HIDE DEF inner
  <2>2. CASE u < h /\ v < h
    <3>1. CASE u = 0 /\ v = 0
      BY <1>9, <1>10, <1>11, <2>1, <3>1
    <3>2. CASE u # 0 /\ v = 0
      BY <1>9, <1>10, <1>11, <2>1, <2>2, <3>2
    <3>3. CASE u = 0 /\ v # 0
      BY <1>9, <1>10, <1>11, <2>1, <2>2, <3>3
    <3>4. CASE u # 0 /\ v # 0
      BY <1>9, <1>10, <1>11, <2>1, <2>2, <3>4
    <3> QED BY <3>1, <3>2, <3>3, <3>4
  <2>3. CASE ~ (u < h /\ v < h)
    <3>1. ~ (u = 0 /\ v = 0)
      BY <2>1, <2>3
    <3>2. lines = {} /\ point = {} /\ squares = {}
      BY <1>9, <1>10, <1>11, <2>1, <2>3, <3>1
    <3> QED BY <2>3, <3>2
  <2> QED BY <2>2, <2>3
<1> QED BY <1>1, <1>12 DEF h, u, v, i, j

\* A range holds column j if there is one for it.
LEMMA RangesCover ==
  ASSUME NEW b \in Int, NEW e \in Int, NEW ranges \in Split(b, e), NEW j \in b .. e - 1
  PROVE  \E r \in ranges : r[1] <= j /\ j < r[2]
<1>1. CASE ranges = {<<b, e>>}
  <2>1. <<b, e>> \in ranges
    BY <1>1
  <2> QED BY <2>1
<1>2. ASSUME NEW m \in b + 1 .. e - 1, ranges = {<<b, m>>, <<m, e>>}
      PROVE  \E r \in ranges : r[1] <= j /\ j < r[2]
  <2>1. <<b, m>> \in ranges /\ <<m, e>> \in ranges
    BY <1>2
  <2> QED BY <2>1
<1> QED BY <1>1, <1>2 DEF Split

LEMMA RangesWithin ==
  ASSUME NEW b \in Int, NEW e \in Int, b < e, NEW ranges \in Split(b, e), NEW r \in ranges
  PROVE  r[1] \in Int /\ r[2] \in Int /\ b <= r[1] /\ r[1] < e /\ r[2] <= e
BY DEF Split

(***************************************************************************)
(* generate_convolution_kernel_aproj: the A-kernel's sample in the same    *)
(* direction, whatever ranges the columns are divided into.                *)
(***************************************************************************)
LEMMA ProductCentred ==
  ASSUME Called, NEW p \in Positions,
         NEW left \in Split(0, half_kernel_size),
         NEW right \in Split(array_size - half_kernel_size, array_size),
         Away(p[1]) < half_kernel_size, Away(p[2]) < half_kernel_size
  PROVE  Multiplied(left, right)[p] =
           {<<half_kernel_size + Signed(p[1]), half_kernel_size + Signed(p[2])>>}
<1> DEFINE h == half_kernel_size
           A == array_size
           i == p[1]
           j == p[2]
           rs == {s \in left \union right : s[1] <= j /\ j < s[2]}
<1>1. h \in Nat \ {0} /\ A \in Nat /\ 2 * h <= A
  BY WorkareaFits, ArrayFits DEF Called, KernelArguments
<1>2. i \in 0 .. A - 1 /\ j \in 0 .. A - 1
  BY DEF Positions
<1>3. /\ i < h \/ i > A - h
      /\ j < h \/ j > A - h
      /\ Signed(i) = IF i < h THEN i ELSE i - A
      /\ Signed(j) = IF j < h THEN j ELSE j - A
  <2>1. \A k \in 0 .. A - 1 : Away(k) < h =>
          (k < h \/ k > A - h) /\ Signed(k) = IF k < h THEN k ELSE k - A
    <3> TAKE k \in 0 .. A - 1
    <3>1. /\ Signed(k) \in Int
          /\ Away(k) < h =>
               /\ Signed(k) >= 0 <=> k < h
               /\ Signed(k) < 0 <=> k > A - h
               /\ Signed(k) = IF k < h THEN k ELSE k - A
      BY Distances
    <3> HIDE DEF h, A
    <3> QED BY <3>1
  <2> QED BY <1>2, <2>1
<1>4. /\ \A c : ARow(c) = IF c < h THEN {h + c} ELSE IF c >= A - h THEN {c - (A - h)} ELSE {}
      /\ \A c, r : ACol(c, r) = (IF r[1] < h THEN h + r[1] ELSE r[1] + h - A) + (c - r[1])
  BY DEF ARow, ACol
<1>5. Multiplied(left, right)[p] = {<<row, ACol(j, r)>> : row \in ARow(i), r \in rs}
  BY DEF Multiplied
<1>6. left \in Split(0, h) /\ right \in Split(A - h, A)
  OBVIOUS
<1> HIDE DEF h, A, i, j
<1>7. ARow(i) = {h + Signed(i)}
  BY <1>1, <1>2, <1>3, <1>4
<1>8. \A r \in rs : ACol(j, r) = h + Signed(j)
  <2> TAKE r \in rs
  <2>1. CASE r \in left
    <3>1. r[1] \in Int /\ 0 <= r[1] /\ r[1] < h /\ r[2] \in Int /\ r[2] <= h
      <4>1. 0 \in Int /\ h \in Int /\ 0 < h
        BY <1>1
      <4> QED BY <1>6, <2>1, <4>1, RangesWithin
    <3>2. j < h
      BY <1>1, <1>2, <3>1
    <3> QED BY <1>1, <1>2, <1>3, <1>4, <3>1, <3>2
  <2>2. CASE r \in right
    <3>1. r[1] \in Int /\ A - h <= r[1]
      <4>1. A - h \in Int /\ A \in Int /\ A - h < A
        BY <1>1
      <4> QED BY <1>6, <2>2, <4>1, RangesWithin
    <3>2. ~ (j < h) /\ ~ (r[1] < h)
      BY <1>1, <1>2, <3>1
    <3> QED BY <1>1, <1>2, <1>3, <1>4, <3>1, <3>2
  <2> QED BY <2>1, <2>2
<1>9. rs # {}
  <2>1. CASE j < h
    <3>1. j \in 0 .. h - 1 /\ 0 \in Int /\ h \in Int
      BY <1>1, <1>2, <2>1
    <3>2. \E r \in left : r[1] <= j /\ j < r[2]
      BY <1>6, <3>1, RangesCover
    <3> QED BY <3>2
  <2>2. CASE j > A - h
    <3>1. j \in A - h .. A - 1 /\ A - h \in Int /\ A \in Int
      BY <1>1, <1>2, <2>2
    <3>2. \E r \in right : r[1] <= j /\ j < r[2]
      BY <1>6, <3>1, RangesCover
    <3> QED BY <3>2
  <2> QED BY <1>3, <2>1, <2>2
<1> HIDE DEF rs
<1>10. {<<row, ACol(j, r)>> : row \in ARow(i), r \in rs} = {<<h + Signed(i), h + Signed(j)>>}
  BY <1>7, <1>8, <1>9
<1> QED BY <1>5, <1>10 DEF h, i, j

\* The samples of column u of the image-domain kernel, each with its weight.
Column(u) ==
  LET inner == 1 .. half_kernel_size - 1
  IN  IF u = 0 THEN {<<i, 0, 2>> : i \in inner} \union {<<0, 0, 1>>}
      ELSE {<<u, 0, 1>>} \union {<<i, u, 2>> : i \in inner}

\* There are two of each but the one on the axis.
LEMMA ColumnWeighs ==
  ASSUME half_kernel_size \in Nat \ {0}, NEW u \in Nat
  PROVE  /\ SumOf([s \in Column(u) |-> s[3]], Column(u)) = 2 * half_kernel_size - 1
         /\ \A s \in Column(u) :
              /\ u \in {s[1], s[2]}
              /\ s[3] = IF s[1] + s[2] = u /\ 0 \in {s[1], s[2]} THEN 1 ELSE 2
<1> DEFINE h == half_kernel_size
           inner == 1 .. h - 1
           twice == {<<i, u, 2>> : i \in inner}
           one == <<u, 0, 1>>
           w == [s \in Column(u) |-> s[3]]
           f == [i \in inner |-> <<i, u, 2>>]
<1>1. Column(u) = twice \union {one}
  <2>1. CASE u = 0
    <3>1. Column(u) = {<<i, 0, 2>> : i \in inner} \union {<<0, 0, 1>>}
      BY <2>1 DEF Column
    <3> QED BY <2>1, <3>1
  <2>2. CASE u # 0
    <3>1. Column(u) = {<<u, 0, 1>>} \union {<<i, u, 2>> : i \in inner}
      BY <2>2 DEF Column
    <3> QED BY <3>1
  <2> QED BY <2>1, <2>2
<1>2. IsFiniteSet(inner) /\ Cardinality(inner) = h - 1
  <2>1. 1 \in Int /\ h - 1 \in Int
    OBVIOUS
  <2> HIDE DEF h
  <2>2. IsFiniteSet(inner) /\ Cardinality(inner) = IF 1 > h - 1 THEN 0 ELSE (h - 1) - 1 + 1
    BY <2>1, FS_Interval
  <2>3. h \in Nat \ {0}
    BY DEF h
  <2> HIDE DEF inner
  <2> QED BY <2>2, <2>3
<1>3. IsFiniteSet(twice) /\ Cardinality(twice) = h - 1
  <2>1. twice = {f[i] : i \in inner} /\ \A i \in inner : f[i] = <<i, u, 2>>
    OBVIOUS
  <2>2. \A i, j \in inner : f[i] = f[j] => i = j
    BY <2>1
  <2> HIDE DEF f, inner, twice, h
  <2>3. IsFiniteSet({f[i] : i \in inner}) /\ Cardinality({f[i] : i \in inner}) = Cardinality(inner)
    BY <1>2, <2>2, ImageOneToOne
  <2> QED BY <1>2, <2>1, <2>3
<1>4. one \notin twice /\ w[one] = 1 /\ (\A s \in twice : w[s] = 2)
  BY <1>1
<1>5. SumOf(w, twice) = 2 * Cardinality(twice)
  <2> HIDE DEF w, twice
  <2> QED BY <1>3, <1>4, SumConstant
<1>6. SumOf(w, twice \union {one}) = w[one] + SumOf(w, twice)
  <2>1. \A x \in twice \union {one} : w[x] \in Int
    BY <1>4
  <2> HIDE DEF w, twice, one
  <2> QED BY <1>3, <1>4, <2>1, SumAdd
<1>7. SumOf(w, Column(u)) = 1 + 2 * (h - 1)
  <2> HIDE DEF w, twice, one
  <2> QED BY <1>1, <1>3, <1>4, <1>5, <1>6
<1>8. ASSUME NEW s \in Column(u)
      PROVE  /\ u \in {s[1], s[2]}
             /\ s[3] = IF s[1] + s[2] = u /\ 0 \in {s[1], s[2]} THEN 1 ELSE 2
  <2>1. CASE s = one
    <3>1. s[1] = u /\ s[2] = 0 /\ s[3] = 1
      BY <2>1
    <3> QED BY <3>1
  <2>2. CASE s \in twice
    <3>1. PICK i \in inner : s = <<i, u, 2>>
      BY <2>2
    <3>2. s[1] = i /\ s[2] = u /\ s[3] = 2
      BY <3>1
    <3>3. s[1] + s[2] # u
      BY <3>2
    <3> QED BY <3>2, <3>3
  <2> QED BY <1>1, <2>1, <2>2
<1> QED BY <1>7, <1>8

(***************************************************************************)
(* projected_image_domain_kernel: the element at a distance is the sum of  *)
(* the column at that distance.                                            *)
(***************************************************************************)
LEMMA ProjectedCentred ==
  ASSUME Called, NEW j \in 0 .. array_size - 1
  PROVE  ProjectedKernel[j] = IF Away(j) < half_kernel_size THEN Column(Away(j)) ELSE {}
<1> DEFINE h == half_kernel_size
           A == array_size
           inner == 1 .. h - 1
           u == Away(j)
<1>1. h \in Nat \ {0} /\ A \in Nat /\ 2 * h <= A
  BY WorkareaFits, ArrayFits DEF Called, KernelArguments
<1>2. /\ u \in Nat /\ (u = 0 <=> j = 0)
      /\ u < h => u = IF j < h THEN j ELSE A - j
      /\ u < h /\ ~ (j < h) => j > A - h
      /\ u >= h => j >= h /\ j <= A - h
  <2>1. /\ u \in Nat /\ (u = 0 <=> j = 0)
        /\ u < h => u = IF j < h THEN j ELSE A - j
        /\ u >= h => j >= h /\ j <= A - h
    BY Distances
  <2> HIDE DEF h, A, u
  <2>2. j \in 0 .. A - 1
    BY DEF A
  <2> QED BY <1>1, <2>1, <2>2
<1>3. ProjectedKernel[j] =
        IF j < h THEN Column(j) ELSE IF A - j \in inner THEN Column(A - j) ELSE {}
  <2>1. h - 1 \in Int /\ \A k \in inner : k # 0
    BY <1>1
  <2>2. A - j \in inner => A - j # 0
    BY <2>1
  <2> QED BY <2>2 DEF ProjectedKernel, Column
<1>4. j \in 0 .. A - 1
  OBVIOUS
<1> HIDE DEF h, A, u
<1>5. ASSUME u < h PROVE ProjectedKernel[j] = Column(u)
  <2>1. CASE j < h
    BY <1>2, <1>3, <1>5, <2>1
  <2>2. CASE ~ (j < h)
    <3>1. u = A - j /\ A - j \in inner
      BY <1>1, <1>2, <1>4, <1>5, <2>2
    <3> QED BY <1>3, <1>5, <2>2, <3>1
  <2> QED BY <2>1, <2>2
<1>6. ASSUME ~ (u < h) PROVE ProjectedKernel[j] = {}
  <2>1. ~ (j < h) /\ A - j \notin inner
    BY <1>1, <1>2, <1>4, <1>6
  <2> QED BY <1>3, <1>6, <2>1
<1> QED BY <1>5, <1>6 DEF u, h

------------------------------------------------------------------------------
(* generate_kernel_cache.                                                   *)

\* The offset, in sub-pixels, of an element of a kernel, and its bounds.
LEMMA OffsetsReach ==
  ASSUME Called, truncated_wpconv_support \in 0 .. aw.max_wpconv_support,
         NEW x \in Offsets, NEW t \in Elements
  PROVE  LET s == truncated_wpconv_support
             o == aw.oversampling
             d == (t - s) * o - (x - oversampled_pixel)
         IN  /\ d \in Int /\ s * o \in Nat /\ t * o \in Int /\ oversampled_pixel \in Nat
             /\ (t - s) * o = t * o - s * o
             /\ RadialDistance(x, t) = Abs(d)
             /\ Abs(d) \in Nat /\ Abs(d) < s * o + o
             /\ s * o + o <= aw.max_wpconv_support * o + o
<1> DEFINE s == truncated_wpconv_support
           o == aw.oversampling
           m == aw.max_wpconv_support
           op == oversampled_pixel
           so == s * o
           to == t * o
           ts_ == (t - s) * o
           d == ts_ - (x - op)
<1>1. o \in Nat \ {0} /\ m \in Nat /\ s \in 0 .. m
  BY DEF Called, KernelArguments
<1>2. op \in Nat /\ op < o /\ x \in 0 .. 2 * op /\ t \in 0 .. 2 * s
  <2>1. op = o \div 2
    BY DEF oversampled_pixel
  <2>2. x \in 0 .. 2 * op /\ t \in 0 .. 2 * s
    BY DEF Offsets, Elements
  <2> HIDE DEF o, op, s
  <2> QED BY <1>1, <2>1, <2>2
<1>3. RadialDistance(x, t) = Abs(ts_ + op - x)
  BY DEF RadialDistance
<1>4. \A n : Abs(n) = IF n < 0 THEN -n ELSE n
  BY DEF Abs
<1>5. so \in Nat /\ to \in Int /\ ts_ = to - so /\ to <= 2 * so /\ 0 <= to /\ so <= m * o /\ m * o \in Int
  <2> HIDE DEF s, o, m, op
  <2>1. s \in Nat /\ t \in Nat /\ t <= 2 * s /\ s <= m
    BY <1>1, <1>2
  <2>2. so \in Nat /\ to \in Nat /\ m * o \in Int
    BY <1>1, <2>1, SMT
  <2>3. to <= (2 * s) * o /\ (2 * s) * o = 2 * so
    BY <1>1, <2>1, SMT
  <2>4. s * o <= m * o
    BY <1>1, <2>1, SMT
  <2>5. (t - s) * o = t * o - s * o
    BY <1>1, <2>1, SMT
  <2> QED BY <2>2, <2>3, <2>4, <2>5
<1> HIDE DEF s, o, m, op, so, to, ts_
<1>6. d \in Int /\ d = ts_ + op - x
  BY <1>1, <1>2, <1>5
<1>7. -(so + o) < d /\ d < so + o
  BY <1>1, <1>2, <1>5, <1>6
<1> HIDE DEF d
<1>8. Abs(d) = IF d < 0 THEN -d ELSE d
  BY <1>4
<1>9. Abs(d) \in Nat /\ Abs(d) < so + o
  BY <1>1, <1>5, <1>6, <1>7, <1>8
<1>10. so + o <= m * o + o
  BY <1>1, <1>5
<1> QED BY <1>2, <1>3, <1>5, <1>6, <1>9, <1>10 DEF s, o, m, op, so, to, ts_, d

(***************************************************************************)
(* By row and column of the kernel as the FFT leaves it.                   *)
(***************************************************************************)
LEMMA CacheByPosition ==
  ASSUME Called, truncated_wpconv_support \in 0 .. aw.max_wpconv_support,
         NEW x \in Offsets, NEW t \in Elements
  PROVE  LET d == (t - truncated_wpconv_support) * aw.oversampling - (x - oversampled_pixel)
         IN  CachedIndex(x, t) = d % array_size /\ Abs(d) <= array_size \div 2
<1> DEFINE s == truncated_wpconv_support
           o == aw.oversampling
           op == oversampled_pixel
           so == s * o
           to == t * o
           d == (t - s) * o - (x - op)
           A == array_size
           ho == half_kernel_size * o
<1>1. A \in Nat /\ A = 2 * ho /\ A \div 2 = ho /\ ho \in Nat /\ o \in Nat \ {0}
      /\ ho >= aw.max_wpconv_support * o + o /\ aw.max_wpconv_support * o \in Nat
  BY ArrayFits DEF Called, KernelArguments
<1>2. /\ d \in Int /\ so \in Nat /\ to \in Int /\ op \in Nat
      /\ (t - s) * o = to - so
      /\ Abs(d) \in Nat /\ Abs(d) < so + o /\ so + o <= aw.max_wpconv_support * o + o
  BY OffsetsReach
<1>3. CachedIndex(x, t) = ((A \div 2 - so + op - x + to) + A \div 2) % A
  BY DEF CachedIndex
<1>4. x \in Int
  BY <1>2 DEF Offsets
<1>5. d = (to - so) - (x - op)
  BY <1>2
<1> HIDE DEF A, ho, so, to, d, op
<1>6. (A \div 2 - so + op - x + to) + A \div 2 = d + A
  BY <1>1, <1>2, <1>4, <1>5
<1>7. A \in Nat \ {0}
  BY <1>1
<1>8. (d + A) % A = d % A
  BY <1>2, <1>7, ModAdd
<1>9. Abs(d) <= A \div 2
  <2> DEFINE mo == aw.max_wpconv_support * o
  <2> HIDE DEF mo, o
  <2>1. ho >= mo + o /\ mo \in Nat /\ so + o <= mo + o
    BY <1>1, <1>2 DEF mo
  <2> QED BY <1>1, <1>2, <2>1
<1>10. CachedIndex(x, t) = d % A
  BY <1>3, <1>6, <1>8
<1> QED BY <1>9, <1>10 DEF A, d, op, s, o

\* The lesser and the greater of two distances.
LEMMA LesserGreater ==
  ASSUME NEW a \in Int, NEW b \in Int, a <= b
  PROVE  Min({a, b}) = a /\ Max({a, b}) = b /\ Min({b, a}) = a /\ Max({b, a}) = b
<1>1. Min({a, b}) = a
  BY DEF Min
<1>2. Max({a, b}) = b
  BY DEF Max
<1>3. {b, a} = {a, b}
  OBVIOUS
<1> QED BY <1>1, <1>2, <1>3

(***************************************************************************)
(* By the two distances, in half a quadrant that was interpolated for the  *)
(* support.                                                                *)
(***************************************************************************)
LEMMA CacheByRadius ==
  ASSUME Called, truncated_wpconv_support \in 0 .. aw.max_wpconv_support,
         current_hankel_kernel_size = (truncated_wpconv_support * 2 + 1 + 1) * aw.oversampling,
         kernel_half_quandrant = HalfQuadrant(current_hankel_kernel_size \div 2),
         NEW a \in Nat, a < truncated_wpconv_support * aw.oversampling + aw.oversampling,
         NEW b \in Nat, b < truncated_wpconv_support * aw.oversampling + aw.oversampling
  PROVE  /\ CachedRadius(a, b) \in DOMAIN kernel_half_quandrant
         /\ kernel_half_quandrant[CachedRadius(a, b)] = {a, b}
<1> DEFINE K == current_hankel_kernel_size \div 2
           so == truncated_wpconv_support * aw.oversampling
           o == aw.oversampling
<1>1. K = so + o /\ K \in Nat
  <2> DEFINE s == truncated_wpconv_support
             size == current_hankel_kernel_size
  <2>1. s \in Nat /\ o \in Nat \ {0} /\ size = (s * 2 + 1 + 1) * o
    BY DEF Called, KernelArguments
  <2> HIDE DEF s, o, size
  <2>2. size = 2 * (s * o + o) /\ s * o + o \in Nat
    BY <2>1, SMT
  <2> DEFINE n == s * o + o
  <2> HIDE DEF n
  <2>3. n \in Nat /\ size \div 2 = n
    BY <2>2 DEF n
  <2> QED BY <2>3 DEF n, s, o, size
<1>2. \A c, d : CachedRadius(c, d) =
                  Min({c, d}) * K - (Min({c, d}) * (Min({c, d}) + 1)) \div 2 + Max({c, d})
  BY DEF CachedRadius
<1>3. kernel_half_quandrant = HalfQuadrant(K)
  OBVIOUS
<1>4. a < K /\ b < K
  BY <1>1
<1> HIDE DEF K
<1>5. ASSUME NEW c \in Nat, NEW e \in Nat, c <= e, e < K
      PROVE  /\ Number(K, c, e) \in DOMAIN HalfQuadrant(K)
             /\ HalfQuadrant(K)[Number(K, c, e)] = {c, e}
             /\ CachedRadius(c, e) = Number(K, c, e) /\ CachedRadius(e, c) = Number(K, c, e)
  <2>1. c \in 0 .. K - 1 /\ e \in c .. K - 1
    BY <1>1, <1>5
  <2>2. CachedRadius(c, e) = Number(K, c, e) /\ CachedRadius(e, c) = Number(K, c, e)
    <3>1. c \in Int /\ e \in Int
      OBVIOUS
    <3>2. Min({c, e}) = c /\ Max({c, e}) = e /\ Min({e, c}) = c /\ Max({e, c}) = e
      BY ONLY <1>5, <3>1, LesserGreater
    <3>3. Number(K, c, e) = c * K - (c * (c + 1)) \div 2 + e
      BY DEF Number, Triangle
    <3> QED BY ONLY <1>2, <3>2, <3>3, Zenon
  <2> QED BY <1>1, <2>1, <2>2, HalfQuadrantHas
<1>6. CASE a <= b
  BY <1>3, <1>4, <1>5, <1>6
<1>7. CASE b <= a
  <2>1. {a, b} = {b, a}
    OBVIOUS
  <2> QED BY <1>3, <1>4, <1>5, <1>7, <2>1
<1> QED BY <1>6, <1>7

------------------------------------------------------------------------------
(* Truncation.                                                              *)

\* The samples at whole pixels: a pixel less, or the pixel's number.
LEMMA WholePixels ==
  ASSUME Called, NEW q \in 0 .. aw.max_wpconv_support
  PROVE  LET o == aw.oversampling
         IN  /\ q * o \in Nat /\ o \in Nat \ {0}
             /\ q * o = 0 <=> q = 0
             /\ q * o <= o <=> q <= 1
             /\ (q * o) \div o = q /\ (q * o + o - 1) \div o = q
             /\ q > 0 => (q * o - o) % UIntMod = (q - 1) * o
             /\ q * o + o <= array_size \div 2
<1> DEFINE o == aw.oversampling
           m == aw.max_wpconv_support
           qo == q * o
           mo == m * o
<1>1. o \in Nat \ {0} /\ m \in Nat /\ mo < UIntMod /\ UIntMod \in Nat \ {0} /\ q \in 0 .. m
  BY UIntAssumption DEF Called, KernelArguments
<1>2. array_size \div 2 >= mo + o /\ array_size \div 2 \in Nat
  BY ArrayFits DEF Called
<1> HIDE DEF o, m
<1>3. qo \in Nat /\ qo <= mo /\ mo \in Nat
  <2>1. q \in Nat /\ q <= m
    BY <1>1
  <2> QED BY <1>1, <2>1, SMT
<1>4. (qo = 0 <=> q = 0) /\ (qo <= o <=> q <= 1)
  <2>1. q = 0 \/ q = 1 \/ q >= 2
    BY <1>1
  <2>2. CASE q = 0
    BY <1>1, <2>2
  <2>3. CASE q = 1
    BY <1>1, <2>3
  <2>4. CASE q >= 2
    <3>1. q * o >= 2 * o
      BY <1>1, <2>4, SMT
    <3> HIDE DEF qo
    <3>2. qo >= 2 * o
      BY <3>1 DEF qo
    <3> QED BY <1>1, <1>3, <2>4, <3>2
  <2> QED BY <2>1, <2>2, <2>3, <2>4
<1>5. \A r \in 0 .. o - 1 : (qo + r) \div o = q
  <2> TAKE r \in 0 .. o - 1
  <2> DEFINE z == qo + r
             d == z \div o
             e == z % o
  <2>1. z \in Int
    BY <1>1, <1>3
  <2> HIDE DEF z
  <2>2. d \in Int /\ e \in 0 .. o - 1 /\ z = o * d + e
    BY <1>1, <2>1, Division
  <2> HIDE DEF d, e
  <2>3. r + o * q = e + o * d
    <3>1. o * q = qo /\ o * d \in Int
      BY <1>1, <2>2, SMT
    <3> HIDE DEF qo
    <3> QED BY <1>1, <1>3, <2>2, <3>1 DEF z
  <2>4. r = e
    BY <1>1, <2>2, <2>3, ResidueUnique
  <2>5. o * (q - d) = 0
    <3>1. o * q = o * d
      <4> DEFINE oq == o * q
                 od == o * d
      <4>1. oq \in Int /\ od \in Int /\ r + oq = e + od
        BY <1>1, <2>2, <2>3
      <4> HIDE DEF oq, od
      <4>2. oq = od
        BY <1>1, <2>2, <2>4, <4>1
      <4> QED BY <4>2 DEF oq, od
    <3>2. o * (q - d) = o * q - o * d
      BY <1>1, <2>2, SMT
    <3>3. o * d \in Int
      BY <1>1, <2>2
    <3> QED BY <3>1, <3>2, <3>3
  <2>6. q - d = 0
    <3> DEFINE y == q - d
    <3>1. y \in Int /\ o * y > -o /\ o * y < o
      BY <1>1, <2>2, <2>5
    <3> HIDE DEF y
    <3>2. y = 0
      BY <1>1, <3>1, SmallMultiple
    <3> QED BY <3>2 DEF y
  <2>7. q = d
    BY <1>1, <2>2, <2>6
  <2> QED BY <2>7 DEF d, z
<1>6. qo \div o = q /\ (qo + o - 1) \div o = q
  <2> HIDE DEF qo
  <2>1. 0 \in 0 .. o - 1 /\ o - 1 \in 0 .. o - 1 /\ qo + 0 = qo /\ qo + (o - 1) = qo + o - 1
    BY <1>1, <1>3
  <2> QED BY <1>5, <2>1
<1>7. ASSUME q > 0 PROVE (qo - o) % UIntMod = (q - 1) * o
  <2>1. (q - 1) * o = qo - o /\ (q - 1) * o \in Nat
    BY <1>1, <1>7, SMT
  <2>2. PICK n \in Nat : n = qo - o /\ n = (q - 1) * o
    BY <2>1
  <2> HIDE DEF qo, mo
  <2>3. n < UIntMod
    BY <1>1, <1>3, <2>2
  <2>4. n % UIntMod = n
    BY <1>1, <2>3
  <2> QED BY <2>2, <2>4
<1>8. qo + o <= array_size \div 2
  <2> HIDE DEF qo, mo
  <2> QED BY <1>1, <1>2, <1>3
<1> QED BY <1>1, <1>3, <1>4, <1>6, <1>7, <1>8 DEF qo, o

------------------------------------------------------------------------------
(* The inductive invariant of the kernels.                                  *)

\* No sample at a whole pixel beyond s is above kernel_trunc_perc of the centre.
Insignificant(s) ==
  \A d \in s + 1 .. aw.max_wpconv_support : ~ Significant(d * aw.oversampling)

FitOK ==
  ipc # "idle" /\ img.gridder.num_wplanes > 0 =>
    img.image_size \in Nat \ {0} /\ KernelArguments(img.gridder, img.image_size)

WideArgumentsOK == gpc # "idle" /\ use_wproj => Called

KernelUsed == kpc # "idle" => gpc \notin {"idle", "start", "kernel_img"} /\ use_wproj

SupportOK ==
  gpc \notin {"idle", "start"} /\ use_wproj =>
    truncated_wpconv_support \in 0 .. aw.max_wpconv_support

\* It is kept for the time steps.
ImageKernelOK ==
  use_wproj /\ use_aproj /\ gpc \in Busy => comb_kernel = ImageDomainKernel

MultipliedOK ==
  kpc = "multiply" =>
    /\ comb_kernel = ImageDomainKernel
    /\ \E left \in Split(0, half_kernel_size),
          right \in Split(array_size - half_kernel_size, array_size) :
         product = Multiplied(left, right)

ProjectedOK == kpc = "fft" /\ transform.kind = "c2c_1d" => product = ProjectedKernel

TruncatingOK ==
  kpc = "truncate" =>
    \E q \in 0 .. aw.max_wpconv_support : trunc_idx = q * aw.oversampling /\ Insignificant(q)

TruncatedOK ==
  kpc \in {"interpolate", "kernel"} /\ aw.truncates =>
    /\ Insignificant(truncated_wpconv_support)
    /\ truncated_wpconv_support > (IF aw.hankel_opt THEN 1 ELSE 0) =>
         Significant(truncated_wpconv_support * aw.oversampling)

InterpolatedOK ==
  kpc = "kernel" /\ aw.hankel_opt =>
    /\ current_hankel_kernel_size = (truncated_wpconv_support * 2 + 1 + 1) * aw.oversampling
    /\ kernel_half_quandrant = HalfQuadrant(current_hankel_kernel_size \div 2)

WideOK == WideArgumentsOK /\ KernelUsed /\ SupportOK /\ ImageKernelOK /\ MultipliedOK /\ ProjectedOK
            /\ TruncatingOK /\ TruncatedOK /\ InterpolatedOK

------------------------------------------------------------------------------
(* The invariant has what the properties need.                              *)

LEMMA KernelIsCalled ==
  ASSUME WideOK, kpc # "idle"
  PROVE  Called /\ truncated_wpconv_support \in 0 .. aw.max_wpconv_support
BY DEF WideOK, WideArgumentsOK, KernelUsed, SupportOK

LEMMA WideCentred == WideOK => KernelsCentred
<1> SUFFICES ASSUME WideOK PROVE KernelsCentred
  OBVIOUS
<1>1. ASSUME kpc = "multiply", NEW p \in Positions
      PROVE  IF Away(p[1]) < half_kernel_size /\ Away(p[2]) < half_kernel_size
             THEN /\ comb_kernel[p] = {{Away(p[1]), Away(p[2])}}
                  /\ product[p] = {<<half_kernel_size + Signed(p[1]), half_kernel_size + Signed(p[2])>>}
             ELSE comb_kernel[p] = {}
  <2>1. Called
    BY <1>1, KernelIsCalled
  <2>2. comb_kernel = ImageDomainKernel
    BY <1>1 DEF WideOK, MultipliedOK
  <2>3. PICK left \in Split(0, half_kernel_size),
             right \in Split(array_size - half_kernel_size, array_size) :
               product = Multiplied(left, right)
    BY <1>1 DEF WideOK, MultipliedOK
  <2>4. comb_kernel[p] = IF Away(p[1]) < half_kernel_size /\ Away(p[2]) < half_kernel_size
                         THEN {{Away(p[1]), Away(p[2])}} ELSE {}
    BY <2>1, <2>2, ImageDomainCentred
  <2>5. ASSUME Away(p[1]) < half_kernel_size, Away(p[2]) < half_kernel_size
        PROVE  product[p] =
                 {<<half_kernel_size + Signed(p[1]), half_kernel_size + Signed(p[2])>>}
    BY <2>1, <2>3, <2>5, ProductCentred
  <2> QED BY <2>4, <2>5
<1>2. ASSUME kpc = "fft", transform.kind = "c2c_1d", NEW j \in 0 .. array_size - 1
      PROVE  /\ SumOf([s \in product[j] |-> s[3]], product[j]) =
                  (IF Away(j) < half_kernel_size THEN 2 * half_kernel_size - 1 ELSE 0)
             /\ \A s \in product[j] :
                  /\ Away(j) \in {s[1], s[2]}
                  /\ s[3] = IF s[1] + s[2] = Away(j) /\ 0 \in {s[1], s[2]} THEN 1 ELSE 2
  <2>1. Called
    BY <1>2, KernelIsCalled
  <2>2. half_kernel_size \in Nat \ {0}
    BY <2>1, WorkareaFits DEF Called, KernelArguments
  <2>3. product[j] = IF Away(j) < half_kernel_size THEN Column(Away(j)) ELSE {}
    BY <1>2, <2>1, ProjectedCentred DEF WideOK, ProjectedOK
  <2>4. Away(j) \in Nat
    BY <2>1, Distances
  <2>5. CASE Away(j) < half_kernel_size
    <3>1. product[j] = Column(Away(j))
      BY <2>3, <2>5
    <3> QED BY ONLY <2>2, <2>4, <2>5, <3>1, ColumnWeighs
  <2>6. CASE ~ (Away(j) < half_kernel_size)
    <3>1. product[j] = {}
      BY <2>3, <2>6
    <3> QED BY <2>6, <3>1, SumEmpty
  <2> QED BY <2>5, <2>6
<1> QED BY <1>1, <1>2 DEF KernelsCentred, Away, Signed

LEMMA WideTruncates == WideOK => TruncationKeepsSignificant
<1> SUFFICES ASSUME WideOK PROVE TruncationKeepsSignificant
  OBVIOUS
<1>1. ASSUME kpc = "truncate"
      PROVE  trunc_idx \in 0 .. array_size \div 2
                           - (IF aw.hankel_opt /\ ~ aw.hankel_proj_slice THEN 1 ELSE 0)
  <2>1. Called
    BY <1>1, KernelIsCalled
  <2>2. PICK q \in 0 .. aw.max_wpconv_support : trunc_idx = q * aw.oversampling
    BY <1>1 DEF WideOK, TruncatingOK
  <2>3. trunc_idx \in Nat /\ aw.oversampling \in Nat \ {0}
        /\ trunc_idx + aw.oversampling <= array_size \div 2
    BY <2>1, <2>2, WholePixels
  <2>4. array_size \div 2 \in Int
    BY <2>1, ArrayFits DEF Called
  <2> QED BY <2>3, <2>4
<1>2. ASSUME kpc \in {"interpolate", "kernel"}
      PROVE  truncated_wpconv_support \in 0 .. aw.max_wpconv_support
  BY <1>2, KernelIsCalled
<1> QED BY <1>1, <1>2 DEF TruncationKeepsSignificant, WideOK, TruncatedOK, Insignificant

LEMMA WideCaches == WideOK => CacheReadsRightSample
<1> SUFFICES ASSUME WideOK, kpc = "kernel" PROVE CacheReadsRightSample
  BY DEF CacheReadsRightSample
<1>1. Called /\ truncated_wpconv_support \in 0 .. aw.max_wpconv_support
  BY KernelIsCalled
<1> DEFINE Distance(o, t) ==
             (t - truncated_wpconv_support) * aw.oversampling - (o - oversampled_pixel)
<1>2. ASSUME NEW x \in Offsets, NEW t \in Elements
      PROVE  RadialDistance(x, t) = Abs(Distance(x, t)) /\ Abs(Distance(x, t)) \in Nat
             /\ Abs(Distance(x, t)) < truncated_wpconv_support * aw.oversampling + aw.oversampling
  BY <1>1, OffsetsReach
<1>3. ASSUME NEW x \in Offsets, NEW t \in Elements
      PROVE  CachedIndex(x, t) = Distance(x, t) % array_size
             /\ Abs(Distance(x, t)) <= array_size \div 2
  BY <1>1, CacheByPosition
<1>4. ASSUME aw.hankel_opt,
             NEW x \in Offsets, NEW y \in Offsets, NEW tx \in Elements, NEW ty \in Elements
      PROVE  LET i == CachedRadius(RadialDistance(x, ty), RadialDistance(y, tx))
             IN  /\ i \in DOMAIN kernel_half_quandrant
                 /\ kernel_half_quandrant[i] = {Abs(Distance(x, ty)), Abs(Distance(y, tx))}
  <2> DEFINE a == Abs(Distance(x, ty))
             b == Abs(Distance(y, tx))
  <2>1. /\ RadialDistance(x, ty) = a /\ a \in Nat
        /\ a < truncated_wpconv_support * aw.oversampling + aw.oversampling
        /\ RadialDistance(y, tx) = b /\ b \in Nat
        /\ b < truncated_wpconv_support * aw.oversampling + aw.oversampling
    BY <1>2
  <2>2. /\ current_hankel_kernel_size = (truncated_wpconv_support * 2 + 1 + 1) * aw.oversampling
        /\ kernel_half_quandrant = HalfQuadrant(current_hankel_kernel_size \div 2)
    BY <1>4 DEF WideOK, InterpolatedOK
  <2> HIDE DEF a, b
  <2>3. /\ CachedRadius(a, b) \in DOMAIN kernel_half_quandrant
        /\ kernel_half_quandrant[CachedRadius(a, b)] = {a, b}
    BY ONLY <1>1, <2>1, <2>2, CacheByRadius
  <2>4. LET i == CachedRadius(RadialDistance(x, ty), RadialDistance(y, tx))
        IN  i \in DOMAIN kernel_half_quandrant /\ kernel_half_quandrant[i] = {a, b}
    BY ONLY <2>1, <2>3, Zenon
  <2> QED BY <2>4 DEF a, b
<1> HIDE DEF Distance
<1>5. \A x, y \in Offsets : \A tx, ty \in Elements :
        LET i == CachedRadius(RadialDistance(x, ty), RadialDistance(y, tx))
        IN  IF aw.hankel_opt
            THEN /\ i \in DOMAIN kernel_half_quandrant
                 /\ kernel_half_quandrant[i] = {Abs(Distance(x, ty)), Abs(Distance(y, tx))}
            ELSE /\ CachedIndex(x, ty) = Distance(x, ty) % array_size
                 /\ Abs(Distance(x, ty)) <= array_size \div 2
  BY <1>3, <1>4
<1> QED BY <1>5 DEF CacheReadsRightSample, Distance

------------------------------------------------------------------------------
(* What a step leaves of it.                                                *)

LEMMA NoKernels ==
  ASSUME gpc = "idle", kpc = "idle"
  PROVE  WideOK
BY DEF WideOK, WideArgumentsOK, KernelUsed, SupportOK, ImageKernelOK, MultipliedOK, ProjectedOK,
       TruncatingOK, TruncatedOK, InterpolatedOK, Busy

LEMMA NoKernelsNext ==
  ASSUME gpc' = "idle", kpc' = "idle"
  PROVE  WideOK'
BY DEF WideOK, WideArgumentsOK, KernelUsed, SupportOK, ImageKernelOK, MultipliedOK, ProjectedOK,
       TruncatingOK, TruncatedOK, InterpolatedOK, Busy

\* What depends on nothing but the arguments.
LEMMA SameKernelSizes ==
  ASSUME aw' = aw
  PROVE  /\ Called' <=> Called
         /\ use_wproj' <=> use_wproj
         /\ use_aproj' <=> use_aproj
         /\ half_kernel_size' = half_kernel_size /\ array_size' = array_size
         /\ ImageDomainKernel' = ImageDomainKernel /\ ProjectedKernel' = ProjectedKernel
         /\ \A left, right : Multiplied(left, right)' = Multiplied(left, right)
<1>1. workarea_size' = workarea_size
  BY DEF workarea_size, Least
<1>2. half_kernel_size' = half_kernel_size /\ array_size' = array_size
  BY <1>1 DEF half_kernel_size, array_size
<1>3. Positions' = Positions /\ \A i : Mirrored(i)' = Mirrored(i)
  BY <1>2 DEF Positions, Mirrored
<1>4. ImageDomainKernel' = ImageDomainKernel
  BY <1>2, <1>3 DEF ImageDomainKernel, Mirrored
<1>5. ProjectedKernel' = ProjectedKernel
  BY <1>2 DEF ProjectedKernel
<1>6. ASSUME NEW left, NEW right PROVE Multiplied(left, right)' = Multiplied(left, right)
  BY <1>2, <1>3 DEF Multiplied, ARow, ACol
<1>7. (Called' <=> Called) /\ (use_wproj' <=> use_wproj) /\ (use_aproj' <=> use_aproj)
  BY DEF Called, KernelArguments, use_wproj, use_aproj
<1> QED BY <1>2, <1>4, <1>5, <1>6, <1>7

\* The kernels and their transform are left alone; the gridder goes on.
LEMMA KernelsKept ==
  ASSUME WideOK,
         UNCHANGED <<aw, kpc, w_plane, comb_kernel, product, trunc_idx, truncated_wpconv_support,
                     current_hankel_kernel_size, kernel_half_quandrant>>,
         kpc = "idle" \/ transform' = transform,
         gpc = "idle" => gpc' = "idle",
         gpc = "start" => gpc' \in {"idle", "start"},
         gpc' \in {"idle", "start", "kernel_img"} => kpc = "idle",
         gpc' \in Busy => gpc \in Busy
  PROVE  WideOK'
<1> USE DEF WideOK
<1>1. WideArgumentsOK' /\ KernelUsed' /\ SupportOK' /\ ImageKernelOK'
  BY SameKernelSizes DEF WideArgumentsOK, KernelUsed, SupportOK, ImageKernelOK
<1>2. MultipliedOK' /\ ProjectedOK'
  BY SameKernelSizes DEF MultipliedOK, ProjectedOK
<1>3. TruncatingOK' /\ TruncatedOK' /\ InterpolatedOK'
  BY DEF TruncatingOK, TruncatedOK, InterpolatedOK, Insignificant, Significant
<1> QED BY <1>1, <1>2, <1>3

\* Only the parts of the invariant that are about the point reached by the kernels change.
LEMMA KernelsAt ==
  ASSUME WideOK, aw' = aw,
         gpc' \notin {"idle", "start", "kernel_img"}, gpc \notin {"idle", "start"}, use_wproj,
         truncated_wpconv_support' \in 0 .. aw.max_wpconv_support,
         ImageKernelOK', MultipliedOK', ProjectedOK', TruncatingOK', TruncatedOK', InterpolatedOK'
  PROVE  WideOK'
<1>1. WideArgumentsOK' /\ KernelUsed' /\ SupportOK'
  BY SameKernelSizes DEF WideOK, WideArgumentsOK, KernelUsed, SupportOK
<1> QED BY <1>1 DEF WideOK

------------------------------------------------------------------------------
(* The steps of the kernels.                                                *)

(***************************************************************************)
(* generate_convolution_kernel_aproj: the product.                         *)
(***************************************************************************)
LEMMA MultiplyKeepsWide ==
  ASSUME WideOK, NEW rotations, MultiplyAKernel(rotations), use_wproj, use_aproj,
         gpc \in Busy, gpc' \in Busy
  PROVE  WideOK'
<1>1. /\ UNCHANGED <<aw, w_plane, comb_kernel, trunc_idx, truncated_wpconv_support>>
      /\ kpc' = "multiply"
  BY DEF MultiplyAKernel
<1>0. PICK left \in Split(0, half_kernel_size),
           right \in Split(array_size - half_kernel_size, array_size) :
             product' = Multiplied(left, right)
  BY DEF MultiplyAKernel
<1>2. comb_kernel = ImageDomainKernel
  BY DEF WideOK, ImageKernelOK
<1>3. MultipliedOK' /\ ImageKernelOK'
  BY <1>0, <1>1, <1>2, SameKernelSizes DEF MultipliedOK, ImageKernelOK
<1>4. ProjectedOK' /\ TruncatingOK' /\ TruncatedOK' /\ InterpolatedOK'
  BY <1>1 DEF ProjectedOK, TruncatingOK, TruncatedOK, InterpolatedOK
<1>5. gpc \notin {"idle", "start"} /\ gpc' \notin {"idle", "start", "kernel_img"}
  BY DEF Busy
<1>6. truncated_wpconv_support' \in 0 .. aw.max_wpconv_support
  BY <1>1, <1>5 DEF WideOK, SupportOK
<1> QED BY <1>1, <1>3, <1>4, <1>5, <1>6, KernelsAt

(***************************************************************************)
(* The transform and what follows it.                                      *)
(***************************************************************************)
LEMMA WideStepKeepsWide ==
  ASSUME WideOK, WideStep, gpc' = gpc
  PROVE  WideOK'
<1>1. kpc \in {"multiply", "fft", "truncate", "interpolate"} /\ aw' = aw /\ w_plane' = w_plane
  BY DEF WideStep, TransformProduct, Transformed, Truncate, Interpolate
<1>2. use_wproj /\ gpc \notin {"idle", "start", "kernel_img"}
  BY <1>1 DEF WideOK, KernelUsed
<1>3. Called /\ truncated_wpconv_support \in 0 .. aw.max_wpconv_support
  BY <1>1, KernelIsCalled
<1>4. aw.max_wpconv_support \in Nat /\ aw.oversampling \in Nat \ {0}
  BY <1>3 DEF Called, KernelArguments
<1>5. CASE TransformProduct
  <2>1. /\ UNCHANGED <<comb_kernel, truncated_wpconv_support>> /\ kpc' = "fft"
        /\ transform'.kind = "c2c"
    BY <1>5 DEF TransformProduct, CallC2C, Call
  <2>2. ImageKernelOK'
    BY <1>1, <2>1, SameKernelSizes DEF WideOK, ImageKernelOK
  <2>3. MultipliedOK' /\ ProjectedOK' /\ TruncatingOK' /\ TruncatedOK' /\ InterpolatedOK'
    BY <2>1 DEF MultipliedOK, ProjectedOK, TruncatingOK, TruncatedOK, InterpolatedOK
  <2> QED BY <1>1, <1>2, <1>3, <2>1, <2>2, <2>3, KernelsAt
<1>6. CASE Transformed
  <2>1. /\ UNCHANGED truncated_wpconv_support /\ kpc' = "truncate"
        /\ comb_kernel' = IF aw.num_timesteps > 0 THEN comb_kernel ELSE <<>>
        /\ trunc_idx' = IF aw.hankel_opt THEN aw.max_wpconv_support * aw.oversampling ELSE TruncStart
    BY <1>6 DEF Transformed
  <2>2. ImageKernelOK'
    BY <1>1, <2>1, SameKernelSizes DEF WideOK, ImageKernelOK, use_aproj
  <2>3. TruncStart = aw.max_wpconv_support * aw.oversampling
    <3> DEFINE a == aw.max_wpconv_support * aw.oversampling
               b == array_size \div 2
    <3>1. a \in Int /\ b \in Int /\ a <= b
      <4> DEFINE o == aw.oversampling
                 H == half_kernel_size * o
      <4>1. a \in Nat /\ b = H /\ H \in Nat /\ H >= a + o /\ o \in Nat
        BY <1>3, <1>4, ArrayFits DEF Called
      <4> HIDE DEF a, b, o, H
      <4> QED BY <4>1
    <3> HIDE DEF a, b
    <3>2. Min({a, b}) = a
      BY <3>1, LesserGreater
    <3> QED BY <3>2 DEF TruncStart, a, b
  <2>4. trunc_idx' = aw.max_wpconv_support * aw.oversampling
    BY <2>1, <2>3
  <2>5. Insignificant(aw.max_wpconv_support)'
    <3>1. \A d \in aw.max_wpconv_support + 1 .. aw.max_wpconv_support : FALSE
      BY <1>4
    <3> QED BY <1>1, <3>1 DEF Insignificant
  <2>6. TruncatingOK'
    <3>1. aw.max_wpconv_support \in 0 .. aw.max_wpconv_support
      BY <1>4
    <3> QED BY <1>1, <2>4, <2>5, <3>1 DEF TruncatingOK
  <2>7. MultipliedOK' /\ ProjectedOK' /\ TruncatedOK' /\ InterpolatedOK'
    BY <2>1 DEF MultipliedOK, ProjectedOK, TruncatedOK, InterpolatedOK
  <2> QED BY <1>1, <1>2, <1>3, <2>1, <2>2, <2>6, <2>7, KernelsAt
<1>7. CASE Truncate
  <2>1. kpc = "truncate" /\ UNCHANGED <<comb_kernel, product, transform>>
    BY <1>7 DEF Truncate, fftvars
  <2>2. PICK q \in 0 .. aw.max_wpconv_support :
          trunc_idx = q * aw.oversampling /\ Insignificant(q)
    BY <2>1 DEF WideOK, TruncatingOK
  <2>3. /\ q * aw.oversampling = 0 <=> q = 0
        /\ q * aw.oversampling <= aw.oversampling <=> q <= 1
        /\ (q * aw.oversampling) \div aw.oversampling = q
        /\ (q * aw.oversampling + aw.oversampling - 1) \div aw.oversampling = q
        /\ q > 0 => (q * aw.oversampling - aw.oversampling) % UIntMod = (q - 1) * aw.oversampling
    BY <1>3, WholePixels
  <2>4. AtCentre <=> q <= (IF aw.hankel_opt THEN 1 ELSE 0)
    BY <2>2, <2>3 DEF AtCentre
  <2>5. kpc' \in {"truncate", "interpolate", "kernel"}
    BY <1>7, <2>1 DEF Truncate
  <2>6. ImageKernelOK'
    BY <1>1, <2>1, SameKernelSizes DEF WideOK, ImageKernelOK
  <2>7. MultipliedOK' /\ ProjectedOK'
    BY <2>5 DEF MultipliedOK, ProjectedOK
  <2>8. \A s : Insignificant(s)' <=> Insignificant(s)
    BY <1>1 DEF Insignificant, Significant
  <2>9. CASE aw.truncates /\ ~ AtCentre /\ ~ Significant(trunc_idx)
    <3>1. trunc_idx' = (trunc_idx - aw.oversampling) % UIntMod
          /\ UNCHANGED <<kpc, truncated_wpconv_support>>
      BY <1>7, <2>9 DEF Truncate
    <3>2. q > 0
      BY <2>4, <2>9
    <3>3. trunc_idx' = (q - 1) * aw.oversampling
      BY <2>2, <2>3, <3>1, <3>2
    <3>4. Insignificant(q - 1)
      <4>1. \A d \in (q - 1) + 1 .. aw.max_wpconv_support : d = q \/ d \in q + 1 .. aw.max_wpconv_support
        BY <1>4
      <4>2. ~ Significant(q * aw.oversampling)
        BY <2>2, <2>9
      <4> QED BY <2>2, <4>1, <4>2 DEF Insignificant
    <3>5. TruncatingOK'
      <4>1. q - 1 \in 0 .. aw.max_wpconv_support
        BY <1>4, <3>2
      <4> QED BY <1>1, <2>8, <3>3, <3>4, <4>1 DEF TruncatingOK
    <3>6. TruncatedOK' /\ InterpolatedOK'
      BY <2>1, <3>1 DEF TruncatedOK, InterpolatedOK
    <3> QED BY <1>1, <1>2, <1>3, <2>6, <2>7, <3>1, <3>5, <3>6, KernelsAt
  <2>10. CASE ~ (aw.truncates /\ ~ AtCentre /\ ~ Significant(trunc_idx))
    <3> DEFINE pixels == IF aw.hankel_opt
                         THEN (trunc_idx + aw.oversampling - 1) \div aw.oversampling
                         ELSE trunc_idx \div aw.oversampling
    <3>1. /\ truncated_wpconv_support' = IF ~ aw.truncates THEN truncated_wpconv_support
                                         ELSE Min({pixels, aw.max_wpconv_support})
          /\ kpc' = IF aw.hankel_opt THEN "interpolate" ELSE "kernel"
      BY <1>7, <2>10 DEF Truncate
    <3>2. pixels = q
      BY <2>2, <2>3
    <3> HIDE DEF pixels
    <3>3. Min({q, aw.max_wpconv_support}) = q
      BY <1>4, LesserGreater
    <3>4. truncated_wpconv_support' = IF ~ aw.truncates THEN truncated_wpconv_support ELSE q
      BY <3>1, <3>2, <3>3
    <3>5. TruncatingOK' /\ InterpolatedOK'
      BY <1>1, <3>1 DEF TruncatingOK, InterpolatedOK
    <3>6. TruncatedOK'
      <4> SUFFICES ASSUME aw.truncates
                   PROVE  /\ Insignificant(q)
                          /\ q > (IF aw.hankel_opt THEN 1 ELSE 0) =>
                               Significant(q * aw.oversampling)
        BY <1>1, <3>4 DEF TruncatedOK, Insignificant, Significant
      <4> QED BY <2>2, <2>4, <2>10
    <3>7. truncated_wpconv_support' \in 0 .. aw.max_wpconv_support
      BY <1>3, <3>4
    <3> QED BY <1>1, <1>2, <2>6, <2>7, <3>5, <3>6, <3>7, KernelsAt
  <2> QED BY <2>9, <2>10
<1>8. CASE Interpolate
  <2>1. /\ kpc = "interpolate" /\ kpc' = "kernel"
        /\ UNCHANGED <<comb_kernel, truncated_wpconv_support>>
        /\ current_hankel_kernel_size' = (truncated_wpconv_support * 2 + 1 + 1) * aw.oversampling
        /\ kernel_half_quandrant' = HalfQuadrant(current_hankel_kernel_size' \div 2)
    BY <1>8 DEF Interpolate
  <2>2. ImageKernelOK'
    BY <1>1, <2>1, SameKernelSizes DEF WideOK, ImageKernelOK
  <2>3. InterpolatedOK'
    <3>1. HalfQuadrant(current_hankel_kernel_size \div 2)' = HalfQuadrant(current_hankel_kernel_size' \div 2)
      BY DEF HalfQuadrant
    <3> QED BY <1>1, <2>1, <3>1 DEF InterpolatedOK
  <2>4. TruncatedOK'
    BY <1>1, <2>1 DEF WideOK, TruncatedOK, Insignificant, Significant
  <2>5. MultipliedOK' /\ ProjectedOK' /\ TruncatingOK'
    BY <2>1 DEF MultipliedOK, ProjectedOK, TruncatingOK
  <2> QED BY <1>1, <1>2, <1>3, <2>1, <2>2, <2>3, <2>4, <2>5, KernelsAt
<1> QED BY <1>5, <1>6, <1>7, <1>8 DEF WideStep

------------------------------------------------------------------------------
(* The steps of the gridder.                                                *)

LEMMA GridderKeepsWide ==
  ASSUME WideOK, Rest, GridderStep
  PROVE  WideOK'
<1> DEFINE kernels == <<aw, kpc, w_plane, comb_kernel, product, trunc_idx, truncated_wpconv_support,
                        current_hankel_kernel_size, kernel_half_quandrant>>
<1>1. CASE StartGridder
  <2>1. gpc = "start" /\ gpc' \in {"planes", "kernel_img"} /\ aw' = aw
    BY <1>1 DEF StartGridder
  <2>2. kpc = "idle"
    BY <2>1 DEF Rest, PlaceOK
  <2>3. kpc' = "idle"
    BY <1>1, <2>2 DEF StartGridder, Construct, widevars
  <2>4. use_wproj => Called /\ truncated_wpconv_support' = aw.max_wpconv_support
    BY <1>1, <2>1 DEF StartGridder, Construct, WideOK, WideArgumentsOK
  <2>5. use_wproj => aw.max_wpconv_support \in 0 .. aw.max_wpconv_support
    BY <2>4 DEF Called, KernelArguments
  <2>6. WideArgumentsOK' /\ SupportOK' /\ KernelUsed' /\ ImageKernelOK'
    BY <2>1, <2>3, <2>4, <2>5, SameKernelSizes
       DEF WideArgumentsOK, SupportOK, KernelUsed, ImageKernelOK, Busy
  <2>7. MultipliedOK' /\ ProjectedOK' /\ TruncatingOK' /\ TruncatedOK' /\ InterpolatedOK'
    BY <2>3 DEF MultipliedOK, ProjectedOK, TruncatingOK, TruncatedOK, InterpolatedOK
  <2> QED BY <2>6, <2>7 DEF WideOK
<1>2. CASE KernelImageTransformed
  <2>1. gpc = "kernel_img" /\ gpc' = "planes" /\ UNCHANGED kernels
    BY <1>2 DEF KernelImageTransformed, widevars
  <2>2. kpc = "idle"
    BY <2>1 DEF Rest, PlaceOK
  <2> QED BY <2>1, <2>2, KernelsKept DEF Busy
<1>3. ASSUME UNCHANGED kernels, transform' = transform,
             gpc \notin {"idle", "start"}, gpc' \notin {"idle", "start", "kernel_img"},
             gpc' \in Busy => gpc \in Busy
      PROVE  WideOK'
  BY <1>3, KernelsKept
<1>4. CASE AverageLha \/ PlaneKernelMultiplied \/ CacheKernel \/ GridVisibilities \/ GridderDone
           \/ TransformFails
  <2>1. UNCHANGED kernels /\ transform' = transform
    BY <1>4 DEF AverageLha, PlaneKernelMultiplied, CacheKernel, GridVisibilities, GridderDone,
       TransformFails, kernelvars, fftvars, widevars
  <2>2. gpc \notin {"idle", "start"} /\ gpc' \notin {"idle", "start", "kernel_img"}
        /\ (gpc' \in Busy => gpc \in Busy)
    BY <1>4 DEF AverageLha, PlaneKernelMultiplied, CacheKernel, GridVisibilities, GridderDone,
       TransformFails, Busy, kernelvars
  <2> QED BY <1>3, <2>1, <2>2
<1>5. CASE StartPlane
  <2>1. gpc = "planes" /\ aw' = aw /\ gpc' \in {"wplane", "steps", "step", "grid"}
    BY <1>5 DEF StartPlane
  <2>2. gpc' \notin {"idle", "start", "kernel_img"} /\ gpc \notin {"idle", "start"}
    BY <2>1
  <2>3. CASE ~ use_wproj
    <3>1. UNCHANGED kernels /\ transform' = transform
      BY <1>5, <2>3 DEF StartPlane, fftvars, widevars
    <3>2. kpc = "idle" /\ ~ use_wproj'
      BY <2>1, <2>3, SameKernelSizes DEF WideOK, KernelUsed
    <3>3. WideArgumentsOK' /\ KernelUsed' /\ SupportOK' /\ ImageKernelOK'
      BY <3>1, <3>2 DEF WideArgumentsOK, KernelUsed, SupportOK, ImageKernelOK
    <3>4. MultipliedOK' /\ ProjectedOK' /\ TruncatingOK' /\ TruncatedOK' /\ InterpolatedOK'
      BY <3>1, <3>2 DEF MultipliedOK, ProjectedOK, TruncatingOK, TruncatedOK, InterpolatedOK
    <3> QED BY <3>3, <3>4 DEF WideOK
  <2>4. CASE use_wproj
    <3>1. Called /\ truncated_wpconv_support \in 0 .. aw.max_wpconv_support
      BY <2>2, <2>4 DEF WideOK, WideArgumentsOK, SupportOK
    <3>2. CASE use_aproj
      <4>1. kpc' = "idle" /\ comb_kernel' = ImageDomainKernel
            /\ UNCHANGED truncated_wpconv_support
        BY <1>5, <2>4, <3>2 DEF StartPlane, GenerateImageDomain
      <4>2. ImageKernelOK'
        BY <2>1, <4>1, SameKernelSizes DEF ImageKernelOK
      <4>3. MultipliedOK' /\ ProjectedOK' /\ TruncatingOK' /\ TruncatedOK' /\ InterpolatedOK'
        BY <4>1 DEF MultipliedOK, ProjectedOK, TruncatingOK, TruncatedOK, InterpolatedOK
      <4> QED BY <2>1, <2>2, <2>4, <3>1, <4>1, <4>2, <4>3, KernelsAt
    <3>3. CASE ~ use_aproj
      <4>1. GenerateWProj(pi)
        BY <1>5, <2>4, <3>3 DEF StartPlane
      <4>2. UNCHANGED truncated_wpconv_support
        BY <4>1 DEF GenerateWProj
      <4>3. ImageKernelOK'
        BY <2>1, <3>3, SameKernelSizes DEF ImageKernelOK
      <4>4. \/ kpc' = "fft" /\ transform'.kind = "c2c"
            \/ kpc' = "fft" /\ product' = ProjectedKernel
            \/ kpc' = "truncate" /\ trunc_idx' = aw.max_wpconv_support * aw.oversampling
        BY <4>1 DEF GenerateWProj, CallC2C, Call
      <4>5. MultipliedOK' /\ TruncatedOK' /\ InterpolatedOK'
        BY <4>4 DEF MultipliedOK, TruncatedOK, InterpolatedOK
      <4>6. ProjectedOK'
        BY <2>1, <4>4, SameKernelSizes DEF ProjectedOK
      <4>7. TruncatingOK'
        <5>1. aw.max_wpconv_support \in 0 .. aw.max_wpconv_support
              /\ aw.max_wpconv_support + 1 .. aw.max_wpconv_support = {}
          BY <3>1 DEF Called, KernelArguments
        <5>2. Insignificant(aw.max_wpconv_support)'
          BY <2>1, <5>1 DEF Insignificant
        <5> QED BY <2>1, <4>4, <5>1, <5>2 DEF TruncatingOK
      <4> QED BY <2>1, <2>2, <2>4, <3>1, <4>2, <4>3, <4>5, <4>6, <4>7, KernelsAt
    <3> QED BY <3>2, <3>3
  <2> QED BY <2>3, <2>4
<1>6. CASE MultiplyPlaneKernel
  <2>1. gpc = "wplane" /\ gpc' = "step_kernel" /\ MultiplyAKernel(Unrotated)
    BY <1>6 DEF MultiplyPlaneKernel
  <2>2. use_aproj /\ Active
    BY <2>1 DEF Rest, PlaceOK, Active
  <2>3. use_wproj
    BY <2>2 DEF Rest, ArgumentsOK, Allowed, use_aproj, use_wproj
  <2> QED BY <2>1, <2>2, <2>3, MultiplyKeepsWide DEF Busy
<1>7. CASE StartStep
  <2>1. gpc = "steps" /\ gpc' = "step"
    BY <1>7 DEF StartStep
  <2>2. use_aproj /\ Active
    BY <2>1 DEF Rest, PlaceOK, Active
  <2>3. use_wproj
    BY <2>2 DEF Rest, ArgumentsOK, Allowed, use_aproj, use_wproj
  <2>4. CASE RotatesKernel
    <3>1. UNCHANGED kernels /\ transform' = transform
      BY <1>7, <2>4 DEF StartStep, fftvars
    <3> QED BY <1>3, <2>1, <3>1 DEF Busy
  <2>5. CASE ~ RotatesKernel
    <3>1. MultiplyAKernel(RotatedTo(ts))
      BY <1>7, <2>5 DEF StartStep
    <3> QED BY <2>1, <2>2, <2>3, <3>1, MultiplyKeepsWide DEF Busy
  <2> QED BY <2>4, <2>5
<1> QED BY <1>1, <1>2, <1>4, <1>5, <1>6, <1>7 DEF GridderStep

------------------------------------------------------------------------------
(* The imager.                                                              *)

\* A kernel that fits fits in a larger image.
LEMMA FitsLarger ==
  ASSUME NEW a, NEW n \in Nat, NEW m \in Nat, m >= n, KernelArguments(a, n)
  PROVE  KernelArguments(a, m)
<1>1. 2 * a.max_wpconv_support \in Nat
  BY DEF KernelArguments
<1>2. a.undersampling_opt = 0 => 2 * a.max_wpconv_support < m
  BY <1>1 DEF KernelArguments
<1> QED BY <1>2 DEF KernelArguments

(***************************************************************************)
(* set_image_sizes only enlarges the image.                                *)
(***************************************************************************)
LEMMA CallsKeepFit ==
  ASSUME KernelsFit, FitOK, IInv, CallOK, ImagerNext
  PROVE  FitOK'
<1>1. CASE \E c \in ImageCalls : CallImager(c)
  <2>1. PICK c \in ImageCalls : CallImager(c)
    BY <1>1
  <2>2. img' = c
    BY <2>1 DEF CallImager
  <2>3. c.image_size \in Nat \ {0}
        /\ (c.gridder.num_wplanes > 0 => KernelArguments(c.gridder, c.image_size))
    BY ImagerAssumption DEF KernelsFit
  <2> QED BY <2>2, <2>3 DEF FitOK
<1>2. CASE SetImageSizes
  <2>1. ipc = "sizes" /\ img \in ImageCalls /\ "gridder" \in DOMAIN img
    BY <1>2 DEF SetImageSizes, IInv, SizesOK, CallOK
  <2>2. img.image_size \in Nat \ {0}
    BY <2>1, ImagerAssumption
  <2> DEFINE size == Rounded(img.image_size)
  <2>3. size \in Nat /\ size >= img.image_size
    BY <2>2, RoundedUp
  <2>4. PICK padded : img' = With([image_size |-> size, padded_image_size |-> padded], img)
    BY <1>2 DEF SetImageSizes
  <2> HIDE DEF size
  <2>5. img'.image_size = size /\ img'.gridder = img.gridder
    BY <2>1, <2>4 DEF With
  <2>6. img.gridder.num_wplanes > 0 => KernelArguments(img.gridder, size)
    BY <2>1, <2>2, <2>3, FitsLarger DEF FitOK
  <2>7. size \in Nat \ {0}
    BY <2>2, <2>3
  <2> QED BY <2>5, <2>6, <2>7 DEF FitOK
<1>3. ASSUME img' = img, ipc # "idle" \/ ipc' = "idle" PROVE FitOK'
  BY <1>3 DEF FitOK
<1>4. CASE CheckParameters \/ InitFFTW \/ Grid \/ GridsReturned \/ TransformImage \/ ImageTransformed
           \/ TransformBeam \/ BeamTransformed \/ ComputeGCF \/ GCFTransformed
  BY <1>3, <1>4 DEF CheckParameters, InitFFTW, Grid, GridsReturned, TransformImage, ImageTransformed,
     TransformBeam, BeamTransformed, ComputeGCF, GCFTransformed, TransformGrid, Transformed2D
<1>5. CASE NormaliseImage \/ NormaliseBeam \/ CleanUpThreads \/ ImagerFails
  BY <1>3, <1>5 DEF NormaliseImage, NormaliseBeam, CleanUpThreads, Normalise, ImagerFails
<1>6. ASSUME UNCHANGED imgvars PROVE FitOK'
  BY <1>6 DEF imgvars, FitOK
<1> QED BY <1>1, <1>2, <1>4, <1>5, <1>6 DEF ImagerNext, ImagerStep

LEMMA ImagerKeepsWide ==
  ASSUME WideOK, FitOK, IInv, CallOK, OwnStep
  PROVE  WideOK'
<1> DEFINE same == <<gpc, kpc>>
<1>1. ASSUME ipc \notin Waiting, UNCHANGED same PROVE WideOK'
  <2>1. gpc' = "idle" /\ kpc' = "idle"
    BY <1>1 DEF IInv, GridderQuiet
  <2> QED BY <2>1, NoKernelsNext
<1>2. CASE (\E c \in ImageCalls : CallImager(c))
  <2>1. ipc = "idle" /\ UNCHANGED same
    BY <1>2 DEF CallImager, widevars, gridvars
  <2> QED BY <1>1, <2>1 DEF Waiting
<1>3. CASE SetImageSizes \/ CheckParameters \/ InitFFTW \/ NormaliseImage \/ NormaliseBeam \/ CleanUpThreads
  <2>1. ipc \notin Waiting
    BY <1>3 DEF Waiting, SetImageSizes, CheckParameters, InitFFTW, NormaliseImage, NormaliseBeam,
       CleanUpThreads
  <2>2. UNCHANGED same
    BY <1>3 DEF SetImageSizes, CheckParameters, InitFFTW, NormaliseImage, NormaliseBeam,
       CleanUpThreads, Normalise, awvars, kernelvars, widevars, gridvars
  <2> QED BY <1>1, <2>1, <2>2
<1>4. CASE TransformImage \/ ImageTransformed \/ TransformBeam \/ BeamTransformed \/ ComputeGCF
           \/ GCFTransformed
  <2>1. ipc \notin Waiting
    BY <1>4 DEF Waiting, TransformImage, ImageTransformed, TransformBeam, BeamTransformed, ComputeGCF,
       GCFTransformed
  <2>2. UNCHANGED same
    BY <1>4 DEF TransformImage, ImageTransformed, TransformBeam, BeamTransformed, ComputeGCF,
       GCFTransformed, TransformGrid, Transformed2D, widevars, gridvars
  <2> QED BY <1>1, <2>1, <2>2
<1>5. CASE GridsReturned
  <2>1. gpc' = "idle" /\ kpc' = "idle"
    BY <1>5 DEF GridsReturned, ReturnGridder, ReturnFromGridder, DestroyKernels
  <2> QED BY <2>1, NoKernelsNext
<1>6. CASE ImagerFails
  <2>1. UNCHANGED <<aw, kpc, w_plane, comb_kernel, product, trunc_idx, truncated_wpconv_support,
                    current_hankel_kernel_size, kernel_half_quandrant, transform, gpc>>
    BY <1>6 DEF ImagerFails, awvars, kernelvars, fftvars, widevars, gridvars
  <2> QED BY <2>1, KernelsKept DEF WideOK, KernelUsed
<1>7. CASE Grid
  <2> DEFINE r == [image_size |-> padded_size, analytic_gcf |-> img.analytic_gcf, r_fft |-> img.r_fft]
             a == With(r, img.gridder)
  <2>1. ipc = "grid" /\ CallGridder(a)
    BY <1>7 DEF Grid
  <2>2. gpc' = "start" /\ aw' = a /\ kpc' = kpc /\ kpc = "idle"
    BY <2>1 DEF CallGridder, widevars, IInv, GridderQuiet, Waiting
  <2>3. /\ img.image_size \in Nat \ {0} /\ padded_size \in Nat /\ padded_size >= img.image_size
    BY <2>1 DEF IInv, SizesOK, BeforeSizes
  <2>4. "num_wplanes" \in DOMAIN img.gridder
    BY <2>1 DEF CallOK, GridderArguments
  <2>5. DOMAIN r = {"image_size", "analytic_gcf", "r_fft"} /\ r.image_size = padded_size
    OBVIOUS
  <2> HIDE DEF r
  <2>6. a.image_size = padded_size /\ a.num_wplanes = img.gridder.num_wplanes
    BY <2>4, <2>5 DEF With
  <2>7. ASSUME img.gridder.num_wplanes > 0
        PROVE  KernelArguments(a, padded_size)
    <3>1. KernelArguments(img.gridder, img.image_size)
      BY <2>1, <2>7 DEF FitOK
    <3>2. KernelArguments(img.gridder, padded_size)
      <4>1. img.image_size \in Nat
        BY <2>3
      <4> QED BY <2>3, <3>1, <4>1, FitsLarger
    <3>3. {"max_wpconv_support", "oversampling", "undersampling_opt"} \subseteq DOMAIN img.gridder
      BY <3>1 DEF KernelArguments
    <3>4. /\ a.max_wpconv_support = img.gridder.max_wpconv_support
          /\ a.oversampling = img.gridder.oversampling
          /\ a.undersampling_opt = img.gridder.undersampling_opt
          /\ {"max_wpconv_support", "oversampling", "undersampling_opt"} \subseteq DOMAIN a
      BY <2>5, <3>3 DEF With
    <3> HIDE DEF a
    <3> QED BY <3>2, <3>4 DEF KernelArguments
  <2>8. padded_size \in Nat \ {0}
    BY <2>3
  <2> HIDE DEF a
  <2>9. WideArgumentsOK'
    <3>1. use_wproj' => img.gridder.num_wplanes > 0
      BY <2>2, <2>6 DEF use_wproj
    <3>2. Called' <=> KernelArguments(a, a.image_size) /\ a.image_size \in Nat \ {0}
      BY <2>2 DEF Called, KernelArguments
    <3> QED BY <2>6, <2>7, <2>8, <3>1, <3>2 DEF WideArgumentsOK
  <2>10. KernelUsed' /\ SupportOK' /\ ImageKernelOK'
    BY <2>2 DEF KernelUsed, SupportOK, ImageKernelOK, Busy
  <2>11. MultipliedOK' /\ ProjectedOK' /\ TruncatingOK' /\ TruncatedOK' /\ InterpolatedOK'
    BY <2>2 DEF MultipliedOK, ProjectedOK, TruncatingOK, TruncatedOK, InterpolatedOK
  <2> QED BY <2>9, <2>10, <2>11 DEF WideOK
<1> QED BY <1>2, <1>3, <1>4, <1>5, <1>6, <1>7 DEF OwnStep

LEMMA StepWide ==
  ASSUME KernelsFit, IInv, GInv, FitOK, WideOK, [ImagerNext]_imagervars
  PROVE  FitOK' /\ WideOK'
<1>1. CallOK /\ Rest
  BY DEF GInv, Rest
<1>2. ASSUME UNCHANGED <<aw, kpc, w_plane, comb_kernel, product, trunc_idx, truncated_wpconv_support,
                         current_hankel_kernel_size, kernel_half_quandrant, transform, gpc>>
      PROVE  WideOK'
  BY <1>2, KernelsKept DEF WideOK, KernelUsed
<1>3. CASE UNCHANGED imagervars
  <2>1. FitOK'
    BY <1>3 DEF imagervars, imgvars, FitOK
  <2>2. UNCHANGED <<aw, kpc, w_plane, comb_kernel, product, trunc_idx, truncated_wpconv_support,
                    current_hankel_kernel_size, kernel_half_quandrant, transform, gpc>>
    BY <1>3 DEF imagervars, awvars, kernelvars, fftvars, widevars, gridvars
  <2> QED BY <1>2, <2>1, <2>2
<1>4. CASE ImagerNext
  <2>1. FitOK'
    BY <1>1, <1>4, CallsKeepFit
  <2>2. CASE GridderStep
    BY <1>1, <2>1, <2>2, GridderKeepsWide
  <2>3. CASE WideStep /\ UNCHANGED gridvars
    BY <2>1, <2>3, WideStepKeepsWide DEF gridvars
  <2>4. CASE FFTStep /\ UNCHANGED <<aw, widevars, gridvars>>
    <3>1. UNCHANGED <<aw, kpc, w_plane, comb_kernel, product, trunc_idx, truncated_wpconv_support,
                      current_hankel_kernel_size, kernel_half_quandrant, transform, gpc>>
      BY <2>4 DEF FFTStep, Plan, RetryWithEstimate, Execute, widevars, gridvars
    <3> QED BY <1>2, <2>1, <3>1
  <2>5. CASE OwnStep
    BY <1>1, <2>1, <2>5, ImagerKeepsWide
  <2> QED BY <1>4, <2>2, <2>3, <2>4, <2>5 DEF ImagerNext, ImagerStep, OwnStep
<1> QED BY <1>3, <1>4

LEMMA InitWide == ImagerIdle => FitOK /\ WideOK
<1> SUFFICES ASSUME ImagerIdle PROVE FitOK /\ WideOK
  OBVIOUS
<1>1. ipc = "idle" /\ gpc = "idle" /\ kpc = "idle"
  BY DEF ImagerIdle, ImgIdle, GridIdle, WideIdle
<1> QED BY <1>1, NoKernels DEF FitOK

------------------------------------------------------------------------------

LEMMA ProgramWide ==
  ASSUME KernelsFit
  PROVE  ReduceSpec => [](FitOK /\ WideOK)
<1> DEFINE Inv == ImagingInv /\ FitOK /\ WideOK
<1>1. ReduceInit => Inv
  BY InitIInv, InitGInv, InitSpans, InitWide DEF ReduceInit, ImagingInv
<1>2. Inv /\ [ReduceNext]_reducevars => Inv'
  <2>1. Inv /\ [ImagerNext]_imagervars => Inv'
    BY StepIInv, StepGInv, StepSpans, StepWide DEF ImagingInv
  <2>2. ImagerIdle => Inv
    BY InitIInv, InitGInv, InitSpans, InitWide DEF ImagingInv
  <2>3. ImagerIdle' => Inv'
    BY <2>2, PTL
  <2> QED BY <2>1, <2>3, ProgramSteps
<1>3. Inv => FitOK /\ WideOK
  OBVIOUS
<1> QED BY <1>1, <1>2, <1>3, PTL DEF ReduceSpec

(***************************************************************************)
(* generate_image_domain_convolution_kernel, its projection and            *)
(* generate_convolution_kernel_aproj: every sample is where the FFT        *)
(* expects it, and meets the A-kernel's sample in the same direction       *)
(* (KernelsCentred), for every size of the working area, every             *)
(* oversampling and whatever ranges TBB divides the columns into.          *)
(***************************************************************************)
THEOREM KernelsStayCentred ==
  ASSUME KernelsFit
  PROVE  ReduceSpec => []KernelsCentred
<1>1. FitOK /\ WideOK => KernelsCentred
  BY WideCentred
<1> QED BY <1>1, ProgramWide, PTL

(***************************************************************************)
(* The search for the support stays inside the kernel, does not wrap       *)
(* around as a uint, and cuts no sample at a whole pixel that is above     *)
(* kernel_trunc_perc (TruncationKeepsSignificant), whichever samples are.  *)
(***************************************************************************)
THEOREM TruncationIsSafe ==
  ASSUME KernelsFit
  PROVE  ReduceSpec => []TruncationKeepsSignificant
<1>1. FitOK /\ WideOK => TruncationKeepsSignificant
  BY WideTruncates
<1> QED BY <1>1, ProgramWide, PTL

(***************************************************************************)
(* generate_kernel_cache copies every element of every sub-pixel kernel    *)
(* from the sample at its own offset (CacheReadsRightSample), by position  *)
(* or, for radial kernels, by the number of the sample in the half         *)
(* quadrant that RadialInterpolate filled for the truncated support.       *)
(***************************************************************************)
THEOREM CacheIsRight ==
  ASSUME KernelsFit
  PROVE  ReduceSpec => []CacheReadsRightSample
<1>1. FitOK /\ WideOK => CacheReadsRightSample
  BY WideCaches
<1> QED BY <1>1, ProgramWide, PTL

------------------------------------------------------------------------------
(* The statistics of an image.                                              *)

\* One call of a median function is all that a program makes.
OneMedianCall ==
  /\ program # "finding" => /\ mpc = "idle" /\ cpc = "idle" /\ spc = "idle"
                            /\ interval = Undefined
                            /\ stats.moments_valid = FALSE /\ stats.median_valid = FALSE
  /\ spc = "median" \/ (cpc = "start" /\ stats.median_valid = FALSE) =>
       mpc = "idle" /\ interval = Undefined
  /\ spc \in {"median", "await"} =>
       cpc = "idle" /\ DataOK /\ Narrow /\ find.sigma_clip_iters \in Nat

StatisticsInv == MedianInv /\ ClipInv /\ OneMedianCall

LEMMA CallData ==
  /\ \A c \in MedianCalls : NarrowData(c.data) /\ data' = c.data => DataOK' /\ Narrow'
  /\ \A c \in RmsCalls : /\ NarrowData(c.data) /\ data' = c.data => DataOK' /\ Narrow'
                         /\ c.num_sigma \in Nat /\ c.iters \in Nat
  /\ \A c \in SourceFindCalls : /\ NarrowData(c.image) /\ data' = c.image => DataOK' /\ Narrow'
                                /\ c.sigma_clip_iters \in Nat
<1>1. ASSUME NEW x, NEW size, size = Cardinality(DOMAIN x), size \in Nat \ {0},
             x \in [0 .. size - 1 -> Int], NarrowData(x), data' = x
      PROVE  DataOK' /\ Narrow'
  BY <1>1 DEF DataOK, Narrow, NarrowData, Samples
<1>2. \A c \in MedianCalls : NarrowData(c.data) /\ data' = c.data => DataOK' /\ Narrow'
  BY <1>1, BinMedianAssumption
<1>3. \A c \in RmsCalls : /\ NarrowData(c.data) /\ data' = c.data => DataOK' /\ Narrow'
                          /\ c.num_sigma \in Nat /\ c.iters \in Nat
  BY <1>1, EstimateRmsAssumption
<1>4. ASSUME NEW c \in SourceFindCalls
      PROVE  /\ NarrowData(c.image) /\ data' = c.image => DataOK' /\ Narrow'
             /\ c.sigma_clip_iters \in Nat
  <2>1. /\ c.rows \in Nat \ {0} /\ c.cols \in Nat \ {0} /\ c.sigma_clip_iters \in Nat
        /\ c.image \in [0 .. c.rows * c.cols - 1 -> Int]
    BY SourceFindAssumption
  <2>2. PICK r \in Nat \ {0}, l \in Nat \ {0} : r = c.rows /\ l = c.cols
    BY <2>1
  <2>3. PICK size \in Nat \ {0} : size = r * l
    <3>1. r * l \in Nat \ {0}
      BY SMT
    <3> QED BY <3>1
  <2>4. DOMAIN c.image = 0 .. size - 1
    BY <2>1, <2>2, <2>3
  <2>5. Cardinality(0 .. size - 1) = size
    <3>1. PICK last \in Int : last = size - 1 /\ 0 <= last
      BY <2>3
    <3>2. Cardinality(0 .. last) = last - 0 + 1
      BY <3>1, FS_Interval
    <3> QED BY <3>1, <3>2
  <2> QED BY <1>1, <2>1, <2>2, <2>3, <2>4, <2>5
<1> QED BY <1>2, <1>3, <1>4

LEMMA InitStatistics == ReduceInit => StatisticsInv
BY DEF ReduceInit, SourceInit, MedianIdle, RmsIdle, SourceIdle, StatisticsInv, MedianInv, ClipInv,
       OneMedianCall, StatsIs, CentreOK, Undefined

------------------------------------------------------------------------------
(* Each step that touches the statistics.                                   *)

\* Neither the data of a median nor that of an rms are in use.
LEMMA ClipIdle ==
  ASSUME ClipInv, cpc' = "idle", stats' = stats
  PROVE  ClipInv'
<1>1. StatsIs' /\ CentreOK'
  BY DEF ClipInv, StatsIs, CentreOK
<1> QED BY <1>1 DEF ClipInv

\* A call of mat_binmedian or of mat_median_binapprox, by itself.
LEMMA MedianCalled ==
  ASSUME NarrowCalls, StatisticsInv, program = "idle", program' = "finding",
         NEW c \in MedianCalls, CallMedian(c.data, c.approx), UNCHANGED <<clipvars, findvars>>
  PROVE  StatisticsInv'
<1>1. /\ mpc = "idle" /\ cpc = "idle" /\ spc = "idle" /\ interval = Undefined
      /\ stats.median_valid = FALSE /\ MedianInv /\ ClipInv
  BY DEF StatisticsInv, OneMedianCall
<1>2. /\ mpc' = "stats" /\ data' = c.data /\ interval' = interval
      /\ cpc' = cpc /\ stats' = stats /\ spc' = spc
  BY DEF CallMedian, binvars, clipvars, findvars
<1>3. DataOK' /\ Narrow'
  BY <1>2, CallData DEF NarrowCalls
<1>4. MedianInv'
  BY <1>1, <1>2, <1>3, MedianCallersKeep
<1>5. ClipInv'
  BY <1>1, <1>2, ClipIdle
<1>6. OneMedianCall'
  BY <1>1, <1>2 DEF OneMedianCall
<1> QED BY <1>4, <1>5, <1>6 DEF StatisticsInv

\* A call of estimate_rms, by itself.
LEMMA RmsCalled ==
  ASSUME NarrowCalls, StatisticsInv, program = "idle", program' = "finding",
         NEW c \in RmsCalls, CallRmsOn(c), UNCHANGED findvars
  PROVE  StatisticsInv'
<1>1. /\ mpc = "idle" /\ cpc = "idle" /\ spc = "idle" /\ interval = Undefined
      /\ stats.median_valid = FALSE /\ stats.moments_valid = FALSE /\ MedianInv /\ ClipInv
  BY DEF StatisticsInv, OneMedianCall
<1>2. /\ mpc' = mpc /\ data' = c.data /\ interval' = interval /\ cpc' = "start"
      /\ num_sigma' = c.num_sigma /\ iters' = c.iters /\ stats' = stats /\ spc' = spc
  BY DEF CallRmsOn, CallRms, binvars, findvars
<1>3. DataOK' /\ Narrow' /\ num_sigma' \in Nat /\ iters' \in Nat
  BY <1>2, CallData DEF NarrowCalls
<1>4. MedianInv'
  BY <1>1, <1>2, MedianCallersKeep
<1>5. StatsIs' /\ CentreOK'
  BY <1>1, <1>2 DEF ClipInv, StatsIs, CentreOK
<1>6. stats'.moments_valid => stats'.moments = AllMoments'
  BY <1>1, <1>2
<1>7. ClipInv'
  BY <1>2, <1>3, <1>5, <1>6, CallClipKeeps
<1>8. OneMedianCall'
  BY <1>1, <1>2 DEF OneMedianCall
<1> QED BY <1>4, <1>7, <1>8 DEF StatisticsInv

\* SourceFindImage, from its constructor or from a program.
LEMMA FindCalled ==
  ASSUME NarrowCalls, StatisticsInv, program # "finding", program' = "finding",
         NEW c \in SourceFindCalls, CallSourceFind(c) \/ CallSourceFind(Swapped(c))
  PROVE  StatisticsInv'
<1>1. /\ mpc = "idle" /\ cpc = "idle" /\ spc = "idle" /\ interval = Undefined
      /\ stats.median_valid = FALSE /\ MedianInv /\ ClipInv
  BY DEF StatisticsInv, OneMedianCall
<1>2. /\ mpc' = mpc /\ data' = c.image /\ interval' = interval /\ cpc' = cpc /\ stats' = stats
      /\ spc' = "median" /\ find'.sigma_clip_iters = c.sigma_clip_iters
  <2>1. Swapped(c).image = c.image /\ Swapped(c).sigma_clip_iters = c.sigma_clip_iters
    BY SourceFindAssumption DEF Swapped
  <2> QED BY <2>1 DEF CallSourceFind, binvars, clipvars
<1>3. DataOK' /\ Narrow' /\ c.sigma_clip_iters \in Nat
  BY <1>2, CallData DEF NarrowCalls
<1>4. MedianInv'
  BY <1>1, <1>2, MedianCallersKeep
<1>5. ClipInv'
  BY <1>1, <1>2, ClipIdle
<1>6. OneMedianCall'
  BY <1>1, <1>2, <1>3 DEF OneMedianCall
<1> QED BY <1>4, <1>5, <1>6 DEF StatisticsInv

\* The level of the background is known: rms_est is used, or estimate_rms is called.
LEMMA RmsIsAsked ==
  ASSUME ClipInv, cpc = "idle", DataOK', Narrow', find.sigma_clip_iters \in Nat, data' = data,
         NEW st, Rms(st), st.median.num \in Int, st.median.den \in Nat \ {0},
         st = [median |-> st.median, median_valid |-> TRUE, moments |-> st.moments,
               moments_valid |-> st.moments_valid],
         st.moments_valid => st.moments = AllMoments'
  PROVE  /\ ClipInv' /\ spc' \in {"label", "rms"}
         /\ cpc' = "start" => stats'.median_valid = TRUE
<1>1. CASE find.rms_est.num # 0
  <2>1. spc' = "label" /\ UNCHANGED clipvars
    BY <1>1 DEF Rms
  <2>2. cpc' = "idle" /\ stats' = stats
    BY <2>1 DEF clipvars
  <2> QED BY <2>1, <2>2, ClipIdle
<1>2. CASE find.rms_est.num = 0
  <2>1. /\ spc' = "rms" /\ cpc' = "start" /\ num_sigma' = 3 /\ iters' = find.sigma_clip_iters
        /\ stats' = st
    BY <1>2 DEF Rms, CallRms
  <2>2. StatsIs' /\ CentreOK'
    BY <2>1 DEF StatsIs, CentreOK
  <2>3. ClipInv'
    BY <2>1, <2>2, CallClipKeeps
  <2> QED BY <2>1, <2>3
<1> QED BY <1>1, <1>2

LEMMA DirectKeeps ==
  ASSUME StatisticsInv, program = "finding", program' = program, BackgroundDirect
  PROVE  StatisticsInv'
<1>1. /\ spc = "median" /\ MedianInv /\ ClipInv /\ cpc = "idle" /\ DataOK /\ Narrow
      /\ find.sigma_clip_iters \in Nat
  BY DEF BackgroundDirect, StatisticsInv, OneMedianCall
<1>2. UNCHANGED medianvars /\ data' = data /\ mpc' = mpc /\ interval' = interval
  BY DEF BackgroundDirect, medianvars, binvars
<1>3. PICK st : /\ st = StatsWith(bg_level') /\ Rms(st)
                /\ bg_level'.num \in Int /\ bg_level'.den \in Nat \ {0}
  BY <1>1, MedianIs DEF BackgroundDirect
<1>4. DataOK' /\ Narrow'
  BY <1>1, <1>2, DataKept
<1>5. MedianInv'
  BY <1>1, <1>2, MedianCallersKeep
<1>6. /\ ClipInv' /\ spc' \in {"label", "rms"}
      /\ cpc' = "start" => stats'.median_valid = TRUE
  <2>1. /\ st.median.num \in Int /\ st.median.den \in Nat \ {0}
        /\ st = [median |-> st.median, median_valid |-> TRUE, moments |-> st.moments,
                 moments_valid |-> st.moments_valid]
        /\ st.moments_valid = FALSE
    BY <1>3 DEF StatsWith
  <2> QED BY <1>1, <1>2, <1>3, <1>4, <2>1, RmsIsAsked
<1>7. OneMedianCall'
  BY <1>6 DEF OneMedianCall
<1> QED BY <1>5, <1>6, <1>7 DEF StatisticsInv

LEMMA BinningKeeps ==
  ASSUME StatisticsInv, program = "finding", program' = program, BackgroundByBinning
  PROVE  StatisticsInv'
<1>1. /\ spc = "median" /\ MedianInv /\ ClipInv /\ cpc = "idle" /\ DataOK /\ Narrow
      /\ find.sigma_clip_iters \in Nat /\ mpc = "idle" /\ interval = Undefined
  BY DEF BackgroundByBinning, StatisticsInv, OneMedianCall
<1>2. /\ mpc' = "stats" /\ data' = data /\ interval' = interval /\ spc' = "await" /\ find' = find
      /\ cpc' = cpc /\ stats' = stats
  BY DEF BackgroundByBinning, CallMedian, binvars, clipvars
<1>3. DataOK' /\ Narrow'
  BY <1>1, <1>2, DataKept
<1>4. MedianInv'
  BY <1>1, <1>2, <1>3, MedianCallersKeep
<1>5. ClipInv'
  BY <1>1, <1>2, ClipIdle
<1>6. OneMedianCall'
  BY <1>1, <1>2, <1>3 DEF OneMedianCall
<1> QED BY <1>4, <1>5, <1>6 DEF StatisticsInv

LEMMA BinnedKeeps ==
  ASSUME StatisticsInv, program = "finding", program' = program, BackgroundBinned
  PROVE  StatisticsInv'
<1>1. /\ spc = "await" /\ MedianInv /\ ClipInv /\ cpc = "idle" /\ DataOK /\ Narrow
      /\ find.sigma_clip_iters \in Nat /\ mpc = "done"
  BY DEF BackgroundBinned, StatisticsInv, OneMedianCall
<1>2. /\ mpc' = "idle" /\ data' = data
      /\ Rms([median |-> median, median_valid |-> TRUE, moments |-> moments, moments_valid |-> TRUE])
  BY DEF BackgroundBinned
<1>3. moments = AllMoments /\ median.num \in Int /\ median.den \in Nat \ {0}
  BY <1>1 DEF MedianInv, MedianOK
<1>4. DataOK' /\ Narrow' /\ AllMoments' = AllMoments
  BY <1>1, <1>2, DataKept
<1>5. MedianInv'
  BY <1>1, <1>2, MedianCallersKeep
<1>6. /\ ClipInv' /\ spc' \in {"label", "rms"}
      /\ cpc' = "start" => stats'.median_valid = TRUE
  <2>1. PICK st : st = [median |-> median, median_valid |-> TRUE, moments |-> moments,
                        moments_valid |-> TRUE]
    OBVIOUS
  <2>2. /\ st.median.num \in Int /\ st.median.den \in Nat \ {0}
        /\ st = [median |-> st.median, median_valid |-> TRUE, moments |-> st.moments,
                 moments_valid |-> st.moments_valid]
        /\ st.moments_valid => st.moments = AllMoments'
        /\ Rms(st)
    BY <1>2, <1>3, <1>4, <2>1
  <2> QED BY <1>1, <1>2, <1>4, <2>2, RmsIsAsked
<1>7. OneMedianCall'
  BY <1>6 DEF OneMedianCall
<1> QED BY <1>5, <1>6, <1>7 DEF StatisticsInv

\* The steps of the constructor after those.
LEMMA LaterKeeps ==
  ASSUME StatisticsInv, program = "finding", program' = program, spc \notin {"median", "await"},
         SourceStep
  PROVE  StatisticsInv'
<1>1. /\ UNCHANGED medianvars /\ stats' = stats /\ spc' \notin {"median", "await"}
      /\ UNCHANGED clipvars \/ cpc' = "idle"
  <2>1. CASE RmsEstimated
    BY <2>1 DEF RmsEstimated
  <2>2. CASE LabelImage
    BY <2>2 DEF LabelImage, statvars, rmsvars, clipvars
  <2>3. CASE CombineExtrema
    BY <2>3 DEF CombineExtrema, statvars, rmsvars, clipvars
  <2>4. CASE CombineMeasures
    BY <2>4 DEF CombineMeasures, statvars, rmsvars, clipvars
  <2>5. CASE ListIslands
    BY <2>5 DEF ListIslands, statvars, rmsvars, clipvars
  <2>6. CASE FitsOver
    BY <2>6 DEF FitsOver, statvars, rmsvars, clipvars
  <2>7. ASSUME NEW t \in Threads, NEW i \in pending, FindExtremum(t, i) \/ MeasureColumn(t, i)
        PROVE  UNCHANGED <<medianvars, clipvars, spc>> /\ stats' = stats
    BY <2>7 DEF FindExtremum, MeasureColumn, statvars, rmsvars, clipvars
  <2>8. ASSUME NEW n \in pending, FitIsland(n)
        PROVE  UNCHANGED <<medianvars, clipvars, spc>> /\ stats' = stats
    BY <2>8 DEF FitIsland, statvars, rmsvars, clipvars
  <2>9. ~ BackgroundDirect /\ ~ BackgroundByBinning /\ ~ BackgroundBinned
    BY DEF BackgroundDirect, BackgroundByBinning, BackgroundBinned
  <2> QED BY <2>1, <2>2, <2>3, <2>4, <2>5, <2>6, <2>7, <2>8, <2>9 DEF SourceStep
<1>2. mpc' = mpc /\ interval' = interval /\ data' = data
  BY <1>1 DEF medianvars, binvars
<1>3. MedianInv /\ ClipInv /\ OneMedianCall
  BY DEF StatisticsInv
<1>4. MedianInv'
  BY <1>1, <1>3, MedianCallersKeep
<1>5. ClipInv'
  BY <1>1, <1>2, <1>3, ClipIdle, RmsIdleKeeps
<1>6. OneMedianCall'
  <2>1. cpc' = "start" => cpc = "start"
    BY <1>1 DEF clipvars
  <2> QED BY <1>1, <1>2, <1>3, <2>1 DEF OneMedianCall
<1> QED BY <1>4, <1>5, <1>6 DEF StatisticsInv

\* A step of a median function.
LEMMA MedianStepInProgram ==
  ASSUME StatisticsInv, program = "finding", program' = program, MedianStep,
         UNCHANGED <<clipvars, findvars>>
  PROVE  StatisticsInv'
<1>1. MedianInv /\ ClipInv /\ OneMedianCall
  BY DEF StatisticsInv
<1>2. mpc # "idle" /\ data' = data
  BY DEF MedianStep, MeanAndStddev, BinData, FindMedianBin, SelectFromBin, MedianExactly,
         ApproximateMedian
<1>3. cpc' = cpc /\ stats' = stats /\ spc' = spc /\ find' = find
  BY DEF clipvars, findvars
<1>4. ClipInv'
  BY <1>1, <1>2, RmsIdleKeeps
<1>5. DataOK' = DataOK /\ Narrow' = Narrow
  BY <1>2, DataKept
<1>6. OneMedianCall'
  BY <1>1, <1>2, <1>3, <1>5 DEF OneMedianCall
<1> QED BY <1>1, <1>4, <1>6, MedianStepKeeps DEF StatisticsInv

\* A step of estimate_rms.
LEMMA RmsStepInProgram ==
  ASSUME StatisticsInv, program = "finding", program' = program, RmsStep, UNCHANGED findvars
  PROVE  StatisticsInv'
<1>1. MedianInv /\ ClipInv /\ OneMedianCall
  BY DEF StatisticsInv
<1>2. cpc # "idle" /\ spc \notin {"median", "await"} /\ spc' = spc
  BY <1>1 DEF RmsStep, AwaitMedian, ReturnMedian, StartSums, ClipOnce, ClipIterationsOver,
              OneMedianCall, findvars
<1>3. ClipInv'
  BY <1>1, RmsStepKeeps
<1>4. MedianInv' /\ (cpc' = "start" => stats'.median_valid = TRUE)
  <2>1. CASE AwaitMedian
    <3>1. /\ mpc = "idle" /\ mpc' = "stats" /\ interval' = Undefined /\ data' = data
          /\ DataOK /\ Narrow /\ cpc' = "await"
      BY <1>1, <2>1 DEF AwaitMedian, CallMedian, ClipInv, OneMedianCall, binvars, StatsIs
    <3>2. DataOK' /\ Narrow'
      BY <3>1, DataKept
    <3> QED BY <1>1, <3>1, <3>2, MedianCallersKeep
  <2>2. CASE ReturnMedian
    <3>1. mpc' = "idle" /\ stats'.median_valid = TRUE
      BY <2>2 DEF ReturnMedian
    <3> QED BY <1>1, <3>1, MedianCallersKeep
  <2>3. CASE StartSums \/ ClipOnce \/ ClipIterationsOver
    <3>1. UNCHANGED medianvars /\ cpc' # "start"
      BY <2>3 DEF StartSums, ClipOnce, ClipIterationsOver
    <3> QED BY <1>1, <3>1, MedianCallersKeep
  <2> QED BY <2>1, <2>2, <2>3 DEF RmsStep
<1>5. OneMedianCall'
  BY <1>2, <1>4 DEF OneMedianCall
<1> QED BY <1>3, <1>4, <1>5 DEF StatisticsInv

(***************************************************************************)
(* The programs that do not look at an image leave the statistics alone.   *)
(***************************************************************************)
LEMMA ElsewhereKeeps ==
  ASSUME StatisticsInv, UNCHANGED sourcevars, program = "finding" <=> program' = "finding"
  PROVE  StatisticsInv'
<1>1. UNCHANGED medianvars /\ UNCHANGED clipvars /\ UNCHANGED findvars
  BY DEF sourcevars, rmsvars
<1>2. /\ mpc' = mpc /\ interval' = interval /\ data' = data /\ cpc' = cpc /\ stats' = stats
      /\ spc' = spc /\ find' = find
  BY <1>1 DEF medianvars, binvars, clipvars, findvars
<1>3. MedianInv /\ ClipInv /\ OneMedianCall
  BY DEF StatisticsInv
<1>4. MedianInv' /\ ClipInv'
  BY <1>1, <1>2, <1>3, MedianCallersKeep, RmsIdleKeeps
<1>5. DataOK' = DataOK /\ Narrow' = Narrow
  BY <1>2, DataKept
<1>6. OneMedianCall'
  BY <1>2, <1>3, <1>5 DEF OneMedianCall
<1> QED BY <1>4, <1>6 DEF StatisticsInv

LEMMA StatisticsStep == NarrowCalls /\ StatisticsInv /\ [ReduceNext]_reducevars => StatisticsInv'
<1> SUFFICES ASSUME NarrowCalls, StatisticsInv, [ReduceNext]_reducevars
             PROVE  StatisticsInv'
  OBVIOUS
<1>1. CASE StartImager \/ Imaging \/ ImagerReturned \/ ImagerFailed \/ SaveImage
  <2>1. UNCHANGED sourcevars /\ (program = "finding" <=> program' = "finding")
    BY <1>1 DEF StartImager, Imaging, ImagerReturned, ImagerFailed, SaveImage
  <2> QED BY <2>1, ElsewhereKeeps
<1>2. CASE FindInImage
  BY <1>2, FindCalled DEF FindInImage
<1>3. CASE StartSourceFind
  BY <1>3, FindCalled DEF StartSourceFind
<1>4. CASE CallLibrary
  BY <1>4, MedianCalled, RmsCalled, FindCalled DEF CallLibrary, SourceCall
<1>5. CASE Finding
  <2>1. program = "finding" /\ program' = program /\ SourceRun
    BY <1>5 DEF Finding
  <2>2. CASE MedianStep /\ UNCHANGED <<clipvars, findvars>>
    BY <2>1, <2>2, MedianStepInProgram
  <2>3. CASE RmsStep /\ UNCHANGED findvars
    BY <2>1, <2>3, RmsStepInProgram
  <2>4. CASE SourceStep
    <3>1. CASE spc = "median"
      <4>1. ~ BackgroundBinned /\ ~ RmsEstimated /\ ~ LabelImage /\ ~ CombineExtrema
            /\ ~ CombineMeasures /\ ~ ListIslands /\ ~ FitsOver
        BY <3>1 DEF BackgroundBinned, RmsEstimated, LabelImage, CombineExtrema, CombineMeasures,
                    ListIslands, FitsOver
      <4>2. /\ \A t \in Threads, i \in pending : ~ FindExtremum(t, i) /\ ~ MeasureColumn(t, i)
            /\ \A n \in pending : ~ FitIsland(n)
        BY <3>1 DEF FindExtremum, MeasureColumn, FitIsland
      <4>3. BackgroundDirect \/ BackgroundByBinning
        BY <2>4, <4>1, <4>2 DEF SourceStep
      <4> QED BY <2>1, <4>3, DirectKeeps, BinningKeeps
    <3>2. CASE spc = "await"
      <4>1. ~ BackgroundDirect /\ ~ BackgroundByBinning /\ ~ RmsEstimated /\ ~ LabelImage
            /\ ~ CombineExtrema /\ ~ CombineMeasures /\ ~ ListIslands /\ ~ FitsOver
        BY <3>2 DEF BackgroundDirect, BackgroundByBinning, RmsEstimated, LabelImage, CombineExtrema,
                    CombineMeasures, ListIslands, FitsOver
      <4>2. /\ \A t \in Threads, i \in pending : ~ FindExtremum(t, i) /\ ~ MeasureColumn(t, i)
            /\ \A n \in pending : ~ FitIsland(n)
        BY <3>2 DEF FindExtremum, MeasureColumn, FitIsland
      <4>3. BackgroundBinned
        BY <2>4, <4>1, <4>2 DEF SourceStep
      <4> QED BY <2>1, <4>3, BinnedKeeps
    <3>3. CASE spc \notin {"median", "await"}
      BY <2>1, <2>4, <3>3, LaterKeeps
    <3> QED BY <3>1, <3>2, <3>3
  <2> QED BY <2>1, <2>2, <2>3, <2>4 DEF SourceRun
<1>6. CASE Ended \/ UNCHANGED reducevars
  <2>1. UNCHANGED sourcevars /\ program' = program
    BY <1>6 DEF Ended, reducevars
  <2> QED BY <2>1, ElsewhereKeeps
<1> QED BY <1>1, <1>2, <1>3, <1>4, <1>5, <1>6 DEF ReduceNext

LEMMA ProgramStatistics ==
  ASSUME NarrowCalls
  PROVE  ReduceSpec => []StatisticsInv
<1>1. StatisticsInv /\ [ReduceNext]_reducevars => StatisticsInv'
  BY StatisticsStep
<1> QED BY <1>1, InitStatistics, PTL DEF ReduceSpec

(***************************************************************************)
(* mat_binmedian, called by itself, by estimate_rms or by SourceFindImage, *)
(* returns the exact median, for every number of bins and of samples,      *)
(* whatever ranges TBB divides them into.                                  *)
(***************************************************************************)
THEOREM MediansExact ==
  ASSUME NarrowCalls
  PROVE  ReduceSpec => []MedianExact
<1>1. StatisticsInv => MedianExact
  BY MedianInvImplies DEF StatisticsInv
<1> QED BY <1>1, ProgramStatistics, PTL

(***************************************************************************)
(* However often it refines the bins, they hold the middle samples and the *)
(* rank kth of the one looked for (MiddleStaysBinned).                     *)
(***************************************************************************)
THEOREM MiddleSamplesStayBinned ==
  ASSUME NarrowCalls
  PROVE  ReduceSpec => []MiddleStaysBinned
<1>1. StatisticsInv => MiddleStaysBinned
  BY MedianInvImplies DEF StatisticsInv
<1> QED BY <1>1, ProgramStatistics, PTL

(***************************************************************************)
(* mat_median_binapprox misses the median by half a bin at most.           *)
(***************************************************************************)
THEOREM MediansWithinBin ==
  ASSUME NarrowCalls
  PROVE  ReduceSpec => []ApproxWithinBin
<1>1. StatisticsInv => ApproxWithinBin
  BY MedianInvImplies DEF StatisticsInv
<1> QED BY <1>1, ProgramStatistics, PTL

(***************************************************************************)
(* The running sums of estimate_rms are those of the samples that clipping *)
(* leaves, and the sigma it returns is that of the last iteration          *)
(* (SumsMatchSurvivors), for any limit and number of iterations.           *)
(***************************************************************************)
THEOREM RunningSumsExact ==
  ASSUME NarrowCalls
  PROVE  ReduceSpec => []SumsMatchSurvivors
<1>1. StatisticsInv => SumsMatchSurvivors
  BY ClipInvImplies DEF StatisticsInv
<1> QED BY <1>1, ProgramStatistics, PTL

(***************************************************************************)
(* About the median, with limits of three sigma or more, five iterations   *)
(* do not remove every sample of any image, and sigma is a number          *)
(* (SomeSampleSurvives).                                                   *)
(***************************************************************************)
THEOREM FiveIterationsLeaveSome ==
  ASSUME NarrowCalls
  PROVE  ReduceSpec => []SomeSampleSurvives
<1>1. StatisticsInv => SomeSampleSurvives
  BY ClipInvImplies DEF StatisticsInv
<1> QED BY <1>1, ProgramStatistics, PTL

------------------------------------------------------------------------------
(* What source finding finds.                                               *)

\* The final label of pixel i, the pixels with a label, and all that have one.
LabelAt(i) == Cat!Labelled!Labelling.map[<<Cat!RowOf(i), Cat!ColOf(i)>>]

PixelsOf(l) == {i \in Cat!Index : LabelAt(i) = l}

Found == {i \in Cat!Index : LabelAt(i) # 0}

AllLabels == (-Cat!Labelled!Labelling.neg .. Cat!Labelled!Labelling.pos) \ {0}

\* Pixel i is at least as extreme as j.
AtLeast(l, i, j) == Cat!SignOf(l) * find.image[i] >= Cat!SignOf(l) * find.image[j]

Peaks(l, i) == Cat!Beyond(Cat!SignOf(l), i, find.detection_n_sigma)

\* Label l has its extremum at pixel i.
ExtremumOf(l, i) == i \in PixelsOf(l) /\ Peaks(l, i) /\ \A j \in PixelsOf(l) : AtLeast(l, i, j)

\* The label has a pixel beyond the detection threshold.
Strong(l) == label_extrema_id[l] # 0

\* The pixels of label l whose columns have been measured.
Measured(l) ==
  IF Strong(l) THEN {i \in PixelsOf(l) : spc = "measure" => Cat!ColOf(i) \notin pending} ELSE {}

Fields == {"x", "y", "xx", "yy", "xy", "flux"}

\* What pixel i adds to a field.
Weight(f, i) ==
  LET p == Coordinate(i)
      v == find.image[i]
  IN  [x |-> p.x * v, y |-> p.y * v, xx |-> p.x * p.x * v, yy |-> p.y * p.y * v,
       xy |-> p.x * p.y * v, flux |-> v][f]

Weights(f) == [i \in Cat!Index |-> Weight(f, i)]

Measure ==
  [num_samples : Nat, x : Int, y : Int, xx : Int, yy : Int, xy : Int, flux : Int,
   box : [top : Int, bottom : Int, left : Int, right : Int]]

\* The box has place p.
Holds(box, p) == box.left <= p.x /\ p.x <= box.right /\ box.top <= p.y /\ p.y <= box.bottom

\* A box that is not larger than the image, or the one that has not been enlarged.
BoxOK(box) ==
  /\ box.left \in 0 .. find.cols /\ box.right \in -1 .. find.cols - 1
  /\ box.top \in 0 .. find.rows /\ box.bottom \in -1 .. find.rows - 1

BoxedMeasure == {m \in Measure : BoxOK(m.box)}

\* The list has the islands of the listed labels, in their order.
Answers(list) ==
  /\ list \in [1 .. Cardinality(Listed) -> {IslandOf(l) : l \in Listed}]
  /\ \A m, n \in DOMAIN list : m < n => Cat!Precedes(list[m].label, list[n].label)

------------------------------------------------------------------------------
(* The inductive invariant of the constructor.                              *)

\* The constructor has labels.
HasLabels == spc \in {"extrema", "measure", "islands", "fit", "done"}

\* It has them with their extrema.
HasExtrema == spc \in {"measure", "islands", "fit", "done"}

CallFits ==
  spc # "idle" =>
    /\ find.rows \in Nat \ {0} /\ find.cols \in Nat \ {0}
    /\ find.rows % 2 = 0 /\ find.cols % 2 = 0
    /\ find.image \in [Cat!Index -> Int]
    /\ find.detection_n_sigma \in Nat
    /\ find.rms_est.num \in Nat /\ find.rms_est.den \in Nat \ {0}

LevelsOK ==
  /\ spc \notin {"idle", "median", "await"} => bg_level.num \in Int /\ bg_level.den \in Nat \ {0}
  /\ spc = "label" \/ HasLabels => rms.num \in Int /\ rms.den \in Nat

PixelsOK ==
  spc = "extrema" =>
    /\ pending \subseteq Found /\ DOMAIN label_map = Cat!Index
    /\ \A i \in Cat!Index \ pending : label_map[i] = LabelAt(i)
    /\ \A i \in pending : P[label_map[i]] = LabelAt(i)

ExtremaOK ==
  spc = "extrema" =>
    /\ extrema \in [Threads -> [AllLabels -> Cat!Index \union {None}]]
    /\ \A t \in Threads, l \in AllLabels :
         extrema[t][l] # None => extrema[t][l] \in PixelsOf(l) /\ Peaks(l, extrema[t][l])
    /\ \A l \in AllLabels : \A i \in PixelsOf(l) \ pending : Peaks(l, i) =>
         \E t \in Threads : extrema[t][l] # None /\ AtLeast(l, extrema[t][l], i)

LabelsOK ==
  HasLabels => DOMAIN label_extrema_id = AllLabels

CombinedOK ==
  HasExtrema => \A l \in AllLabels :
    \/ label_extrema[l] = None /\ label_extrema_id[l] = 0 /\ \A i \in PixelsOf(l) : ~ Peaks(l, i)
    \/ label_extrema[l] # None /\ label_extrema_id[l] = l /\ ExtremumOf(l, label_extrema[l])

MapOK ==
  HasExtrema =>
    /\ DOMAIN label_map = Cat!Index
    /\ \A i \in Cat!Index :
         label_map[i] = IF /\ spc = "measure" => Cat!ColOf(i) \notin pending
                           /\ find.generate_labelmap /\ LabelAt(i) # 0 /\ ~ Strong(LabelAt(i))
                        THEN 0 ELSE LabelAt(i)

MeasuresOK ==
  spc = "measure" =>
    /\ measures \in [Threads -> [AllLabels -> BoxedMeasure]]
    /\ \A l \in AllLabels :
         /\ Total("num_samples", l) = Cardinality(Measured(l))
         /\ \A f \in Fields : Total(f, l) = SumOf(Weights(f), Measured(l))
         /\ find.gaussian_fitting =>
              \A i \in Measured(l) : \E t \in Threads : Holds(measures[t][l].box, Coordinate(i))

LabelMeasuresOK ==
  spc \in {"islands", "fit", "done"} => \A l \in AllLabels : Strong(l) =>
    /\ label_measures[l].num_samples = Cardinality(PixelsOf(l))
    /\ label_measures[l].moments =
         [x |-> SumOf(Weights("x"), PixelsOf(l)), y |-> SumOf(Weights("y"), PixelsOf(l)),
          xx |-> SumOf(Weights("xx"), PixelsOf(l)), yy |-> SumOf(Weights("yy"), PixelsOf(l)),
          xy |-> SumOf(Weights("xy"), PixelsOf(l)),
          flux |-> SumOf(Weights("flux"), PixelsOf(l))]
    /\ find.gaussian_fitting =>
         /\ BoxOK(label_measures[l].box)
         /\ \A i \in PixelsOf(l) : Holds(label_measures[l].box, Coordinate(i))

IslandsOK ==
  spc \in {"fit", "done"} => Answers(islands)

FitsOK ==
  /\ spc \notin {"fit", "done"} => fits = <<>>
  /\ DOMAIN fits \subseteq DOMAIN islands
  /\ spc = "fit" => find.gaussian_fitting /\ pending \subseteq DOMAIN islands
  /\ FitCoversIsland

FindInv ==
  /\ CallFits /\ LevelsOK /\ PixelsOK /\ ExtremaOK /\ LabelsOK /\ CombinedOK /\ MapOK /\ MeasuresOK
  /\ LabelMeasuresOK /\ IslandsOK /\ FitsOK

------------------------------------------------------------------------------
(* The labelling.                                                           *)

LEMMA SameLabelling ==
  ASSUME UNCHANGED <<find, bg_level, rms>>
  PROVE  Cat!Labelled!Labelling' = Cat!Labelled!Labelling
<1> DEFINE starts(s) == {Cat!Labelled!FirstMet(C) : C \in Cat!Labelled!Components(s)}
           numbered(s) ==
             {[pixels |-> C,
               number |-> s * Cat!Labelled!Cardinality({x \in starts(s) :
                                                          x <= Cat!Labelled!FirstMet(C)})] :
                C \in Cat!Labelled!Components(s)}
           labels == numbered(1) \union numbered(-1)
           numberOf(p) == (CHOOSE l \in labels : p \in l.pixels).number
           map == [p \in Cat!Labelled!Pixel |-> IF Cat!Labelled!Polarity(p) = 0 THEN 0 ELSE numberOf(p)]
           pos == Cat!Labelled!Cardinality(Cat!Labelled!Components(1))
           neg == Cat!Labelled!Cardinality(Cat!Labelled!Components(-1))
<1>1. \A s : Cat!Labelled!Components(s)' = Cat!Labelled!Components(s)
  BY DEF Cat!Labelled!Components, Cat!Labelled!FoldSet, Cat!Labelled!MapThenFoldSet,
         Cat!Labelled!Pixel, Cat!Labelled!Polarity, Cat!Labelled!Adjacent, Cat!Labelled!Near,
         Cat!Labelled!SkyRow, Cat!Labelled!SkyCol, Cat!Labelled!Rows, Cat!Labelled!Cols,
         Cat!Thresholded, Cat!Beyond
<1>2. \A C : Cat!Labelled!FirstMet(C)' = Cat!Labelled!FirstMet(C)
  BY DEF Cat!Labelled!FirstMet, Cat!Labelled!ScanPosition, Cat!Labelled!SkyRow,
         Cat!Labelled!SkyCol, Cat!Labelled!Rows, Cat!Labelled!Cols
<1>3. /\ Cat!Labelled!Pixel' = Cat!Labelled!Pixel
      /\ \A p : Cat!Labelled!Polarity(p)' = Cat!Labelled!Polarity(p)
  BY DEF Cat!Labelled!Pixel, Cat!Labelled!Polarity, Cat!Labelled!Rows, Cat!Labelled!Cols,
         Cat!Thresholded, Cat!Beyond
<1>4. Cat!Labelled!Labelling = [map |-> map, pos |-> pos, neg |-> neg]
  BY DEF Cat!Labelled!Labelling
<1>5. Cat!Labelled!Labelling' = [map |-> map', pos |-> pos', neg |-> neg']
  BY DEF Cat!Labelled!Labelling
<1>6. \A s : starts(s)' = starts(s)
  BY <1>1, <1>2
<1>7. pos' = pos /\ neg' = neg
  BY <1>1
<1> HIDE DEF starts
<1>8. \A s : numbered(s)' = numbered(s)
  BY <1>1, <1>2, <1>6
<1> HIDE DEF numbered
<1>9. labels' = labels
  BY <1>8
<1> HIDE DEF labels
<1>10. \A p : numberOf(p)' = numberOf(p)
  BY <1>9
<1> HIDE DEF numberOf
<1>11. map' = map
  BY <1>3, <1>10
<1> HIDE DEF map, pos, neg
<1> QED BY <1>4, <1>5, <1>7, <1>11

\* The number of elements is what it is in the instances.
LEMMA SameCount ==
  ASSUME NEW S
  PROVE  Cat!Cardinality(S) = Cardinality(S) /\ Cat!Labelled!Cardinality(S) = Cardinality(S)
BY DEF Cat!Cardinality, Cat!Labelled!Cardinality, Cardinality

\* One step of the fold in Components, and the recursive function.
Joined(q, parts) ==
  LET touched == {C \in parts : \E r \in C : Cat!Labelled!Adjacent(q, r)}
  IN  (parts \ touched) \union {{q} \union UNION touched}

IsJoin(f, S) ==
  f = [s \in SUBSET S |-> IF s = {} THEN {}
                          ELSE Joined(CHOOSE x \in s : TRUE, f[s \ {CHOOSE x \in s : TRUE}])]

LEMMA JoinExists ==
  ASSUME NEW S, IsFiniteSet(S)
  PROVE  \E f : IsJoin(f, S)
<1> DEFINE Parts == SUBSET SUBSET S
           F == [q \in S |-> [parts \in Parts |-> Joined(q, parts)]]
<1>1. PICK f : IsFold(f, F, {}, S)
  BY FoldExists
<1> DEFINE G == {t \in SUBSET S : f[t] \in Parts}
<1>2. ASSUME NEW t \in SUBSET S, t # {}, f[t \ {CHOOSE x \in t : TRUE}] \in Parts
      PROVE  f[t] = Joined(CHOOSE x \in t : TRUE, f[t \ {CHOOSE x \in t : TRUE}]) /\ f[t] \in Parts
  <2> DEFINE c == CHOOSE x \in t : TRUE
             r == f[t \ {c}]
  <2>1. c \in S /\ r \in Parts
    BY <1>2
  <2>2. f[t] = F[c][r]
    BY <1>1, <1>2 DEF IsFold
  <2> HIDE DEF c, r
  <2>3. F[c][r] = Joined(c, r)
    BY <2>1
  <2>4. Joined(c, r) \in Parts
    BY <2>1 DEF Joined
  <2> QED BY <2>2, <2>3, <2>4 DEF c, r
<1>3. SUBSET S \subseteq G
  <2>1. ASSUME NEW t \in SUBSET S, \A u \in SUBSET t : u # t => u \in G
        PROVE  t \in G
    <3>1. CASE t = {}
      <4>1. f[t] = {}
        BY <1>1, <3>1 DEF IsFold
      <4> QED BY <4>1
    <3>2. CASE t # {}
      <4> DEFINE c == CHOOSE x \in t : TRUE
      <4>1. c \in t
        BY <3>2
      <4> HIDE DEF c
      <4>2. t \ {c} \in G
        <5> HIDE DEF G
        <5> QED BY <2>1, <4>1
      <4>3. f[t \ {c}] \in Parts
        BY <4>2
      <4> QED BY <1>2, <3>2, <4>3 DEF c
    <3> QED BY <3>1, <3>2
  <2> HIDE DEF G
  <2> QED BY <2>1, SubsetInduction
<1> DEFINE d(s) == IF s = {} THEN {} ELSE F[CHOOSE x \in s : TRUE][f[s \ {CHOOSE x \in s : TRUE}]]
           e(s) == IF s = {} THEN {}
                   ELSE Joined(CHOOSE x \in s : TRUE, f[s \ {CHOOSE x \in s : TRUE}])
<1>4. f = [s \in SUBSET S |-> d(s)]
  BY <1>1 DEF IsFold
<1>5. \A s \in SUBSET S : f[s] = e(s)
  <2> TAKE s \in SUBSET S
  <2>1. CASE s = {}
    BY <1>1, <2>1 DEF IsFold
  <2>2. CASE s # {}
    <3>1. f[s \ {CHOOSE x \in s : TRUE}] \in Parts
      BY <1>3
    <3> QED BY <1>2, <2>2, <3>1
  <2> QED BY <2>1, <2>2
<1>6. f = [s \in SUBSET S |-> e(s)]
  <2> HIDE DEF d, e
  <2> QED BY <1>4, <1>5
<1>7. IsJoin(f, S)
  BY <1>6 DEF IsJoin
<1> QED BY <1>7

\* The components of one polarity are finitely many, and every pixel of it is in one.
LEMMA ComponentsCover ==
  ASSUME NEW s, IsFiniteSet(Cat!Labelled!Pixel)
  PROVE  /\ IsFiniteSet(Cat!Labelled!Components(s))
         /\ \A p \in Cat!Labelled!Pixel :
              Cat!Labelled!Polarity(p) = s => \E C \in Cat!Labelled!Components(s) : p \in C
<1> DEFINE S == {q \in Cat!Labelled!Pixel : Cat!Labelled!Polarity(q) = s}
           f == CHOOSE g : IsJoin(g, S)
           G == {t \in SUBSET S : f[t] \subseteq SUBSET S /\ t \subseteq UNION f[t]}
<1>1. Cat!Labelled!Components(s) = f[S]
  BY DEF Cat!Labelled!Components, Cat!Labelled!FoldSet, Cat!Labelled!MapThenFoldSet, IsJoin, Joined
<1>2. IsFiniteSet(S)
  BY FS_Subset
<1> HIDE DEF S
<1>3. IsJoin(f, S)
  BY <1>2, JoinExists
<1> HIDE DEF f
<1>4. ASSUME NEW t \in SUBSET S, \A u \in SUBSET t : u # t => u \in G
      PROVE  t \in G
  <2>1. CASE t = {}
    BY <1>3, <2>1 DEF IsJoin
  <2>2. CASE t # {}
    <3> DEFINE c == CHOOSE x \in t : TRUE
               r == t \ {c}
    <3>1. c \in t
      BY <2>2
    <3>2. f[t] = Joined(c, f[r])
      BY <1>3, <2>2 DEF IsJoin
    <3> HIDE DEF c
    <3>3. f[r] \subseteq SUBSET S /\ r \subseteq UNION f[r]
      <4>1. r \in G
        <5> HIDE DEF G
        <5> QED BY <1>4, <3>1
      <4> HIDE DEF r
      <4> QED BY <4>1
    <3>4. Joined(c, f[r]) \subseteq SUBSET S
      <4> HIDE DEF r
      <4> QED BY <3>1, <3>3 DEF Joined
    <3>5. \A x \in t : \E C \in Joined(c, f[r]) : x \in C
      <4> TAKE x \in t
      <4>1. CASE x = c
        BY <4>1 DEF Joined
      <4>2. CASE x # c
        <5>1. PICK C \in f[r] : x \in C
          BY <3>3, <4>2
        <5>2. CASE \E y \in C : Cat!Labelled!Adjacent(c, y)
          <6> DEFINE touched == {D \in f[r] : \E y \in D : Cat!Labelled!Adjacent(c, y)}
          <6>1. x \in {c} \union UNION touched
            BY <5>1, <5>2
          <6>2. {c} \union UNION touched \in Joined(c, f[r])
            BY DEF Joined
          <6> QED BY <6>1, <6>2
        <5>3. CASE ~ \E y \in C : Cat!Labelled!Adjacent(c, y)
          <6>1. C \in Joined(c, f[r])
            BY <5>1, <5>3 DEF Joined
          <6> QED BY <5>1, <6>1
        <5> QED BY <5>2, <5>3
      <4> QED BY <4>1, <4>2
    <3>6. f[t] \subseteq SUBSET S /\ t \subseteq UNION f[t]
      <4> HIDE DEF r
      <4> QED BY <3>2, <3>4, <3>5
    <3> QED BY <3>6
  <2> QED BY <2>1, <2>2
<1>5. SUBSET S \subseteq G
  <2> HIDE DEF G
  <2> QED BY <1>2, <1>4, SubsetInduction
<1>6. f[S] \subseteq SUBSET S /\ S \subseteq UNION f[S]
  BY <1>5
<1>7. IsFiniteSet(f[S])
  <2>1. PICK Parts : Parts = SUBSET S
    OBVIOUS
  <2>2. IsFiniteSet(Parts)
    BY <1>2, <2>1, FS_SUBSET
  <2>3. PICK fS : fS = f[S] /\ fS \in SUBSET Parts
    BY <1>6, <2>1
  <2>4. IsFiniteSet(fS)
    BY <2>2, <2>3, FS_Subset
  <2> QED BY <2>3, <2>4
<1>8. ASSUME NEW p \in Cat!Labelled!Pixel, Cat!Labelled!Polarity(p) = s
      PROVE  \E C \in f[S] : p \in C
  <2>1. p \in S
    BY <1>8 DEF S
  <2> QED BY <1>6, <2>1
<1> QED BY <1>1, <1>7, <1>8

\* Where the pixels of the image are.
LEMMA Places ==
  ASSUME find.rows \in Nat \ {0}, find.cols \in Nat \ {0}, NEW i \in Cat!Index
  PROVE  /\ Cat!RowOf(i) \in 0 .. find.rows - 1
         /\ Cat!ColOf(i) \in 0 .. find.cols - 1
         /\ i = Cat!ColOf(i) * find.rows + Cat!RowOf(i)
<1>1. PICK m, n \in Nat \ {0} : m = find.rows /\ n = find.cols
  OBVIOUS
<1> DEFINE c == i \div m
           r == i % m
<1>2. i \in Int /\ 0 <= i /\ i < m * n
  <2>1. m * n \in Nat
    BY <1>1, SMT
  <2> QED BY <1>1, <2>1 DEF Cat!Index
<1>3. c \in Int /\ r \in 0 .. m - 1 /\ i = m * c + r
  BY <1>2, Division
<1>4. Cat!RowOf(i) = r /\ Cat!ColOf(i) = c
  BY <1>1 DEF Cat!RowOf, Cat!ColOf
<1> HIDE DEF c, r
<1>5. c >= 0
  <2> SUFFICES ASSUME c <= -1 PROVE FALSE
    BY <1>3
  <2>1. m * c <= -m
    BY <1>3, SMT
  <2>2. m * c \in Int
    BY <1>3, SMT
  <2> QED BY <1>2, <1>3, <2>1, <2>2
<1>6. c < n
  <2> SUFFICES ASSUME c >= n PROVE FALSE
    BY <1>3
  <2>1. m * c >= m * n /\ m * c \in Int /\ m * n \in Int
    BY <1>3, SMT
  <2> QED BY <1>2, <1>3, <2>1
<1>7. m * c = c * m
  BY <1>3, SMT
<1> QED BY <1>1, <1>3, <1>4, <1>5, <1>6, <1>7

\* The labels are from -neg to pos, 0 for a pixel within the thresholds.
LEMMA LabelRange ==
  ASSUME find.rows \in Nat \ {0}, find.cols \in Nat \ {0}
  PROVE  /\ Cat!Labelled!Labelling.neg \in Nat /\ Cat!Labelled!Labelling.pos \in Nat
         /\ \A i \in Cat!Index : LabelAt(i) = 0 \/ LabelAt(i) \in AllLabels
<1> DEFINE pos == Cardinality(Cat!Labelled!Components(1))
           neg == Cardinality(Cat!Labelled!Components(-1))
           starts(s) == {Cat!Labelled!FirstMet(C) : C \in Cat!Labelled!Components(s)}
           numbered(s) ==
             {[pixels |-> C,
               number |-> s * Cat!Labelled!Cardinality({x \in starts(s) :
                                                          x <= Cat!Labelled!FirstMet(C)})] :
                C \in Cat!Labelled!Components(s)}
           labels == numbered(1) \union numbered(-1)
           L == Cat!Labelled!Labelling
<1>1. IsFiniteSet(Cat!Labelled!Pixel)
  <2>1. IsFiniteSet(0 .. find.rows - 1) /\ IsFiniteSet(0 .. find.cols - 1)
    BY FS_Interval
  <2> QED BY <2>1, FS_Product DEF Cat!Labelled!Pixel, Cat!Labelled!Rows, Cat!Labelled!Cols
<1>2. /\ L.pos = pos /\ L.neg = neg
      /\ \A p \in Cat!Labelled!Pixel :
           L.map[p] = IF Cat!Labelled!Polarity(p) = 0 THEN 0
                      ELSE (CHOOSE l \in labels : p \in l.pixels).number
  BY SameCount DEF Cat!Labelled!Labelling
<1>3. ASSUME NEW s \in {1, -1}
      PROVE  /\ IsFiniteSet(Cat!Labelled!Components(s))
             /\ Cardinality(Cat!Labelled!Components(s)) \in Nat
             /\ \A l \in numbered(s) : \E k \in 0 .. Cardinality(Cat!Labelled!Components(s)) :
                  l.number = s * k
  <2>1. IsFiniteSet(Cat!Labelled!Components(s)) /\ Cardinality(Cat!Labelled!Components(s)) \in Nat
    BY <1>1, ComponentsCover, FS_CardinalityType
  <2>2. IsFiniteSet(starts(s)) /\ Cardinality(starts(s)) <= Cardinality(Cat!Labelled!Components(s))
    <3> DEFINE f == [C \in Cat!Labelled!Components(s) |-> Cat!Labelled!FirstMet(C)]
    <3>1. f \in Surjection(Cat!Labelled!Components(s), starts(s))
      BY DEF Surjection
    <3> HIDE DEF f, starts
    <3> QED BY <2>1, <3>1, FS_Surjection
  <2>3. ASSUME NEW C \in Cat!Labelled!Components(s)
        PROVE  LET upTo == {x \in starts(s) : x <= Cat!Labelled!FirstMet(C)}
               IN  Cat!Labelled!Cardinality(upTo) \in 0 .. Cardinality(Cat!Labelled!Components(s))
    <3> DEFINE upTo == {x \in starts(s) : x <= Cat!Labelled!FirstMet(C)}
    <3>1. upTo \in SUBSET starts(s)
      OBVIOUS
    <3> HIDE DEF upTo, starts
    <3>2. IsFiniteSet(upTo) /\ Cardinality(upTo) <= Cardinality(starts(s)) /\ Cardinality(upTo) \in Nat
          /\ Cardinality(starts(s)) \in Nat
      BY <2>2, <3>1, FS_Subset, FS_CardinalityType
    <3>3. Cardinality(upTo) \in 0 .. Cardinality(Cat!Labelled!Components(s))
      BY <2>1, <2>2, <3>2
    <3> QED BY <3>3, SameCount DEF upTo
  <2> HIDE DEF starts
  <2>4. ASSUME NEW l \in numbered(s)
        PROVE  \E k \in 0 .. Cardinality(Cat!Labelled!Components(s)) : l.number = s * k
    <3>1. PICK C \in Cat!Labelled!Components(s) :
            l = [pixels |-> C,
                 number |-> s * Cat!Labelled!Cardinality({x \in starts(s) :
                                                            x <= Cat!Labelled!FirstMet(C)})]
      BY <2>4
    <3> DEFINE k == Cat!Labelled!Cardinality({x \in starts(s) : x <= Cat!Labelled!FirstMet(C)})
    <3>2. k \in 0 .. Cardinality(Cat!Labelled!Components(s))
      BY <2>3
    <3>3. l.number = s * k
      BY <3>1
    <3> HIDE DEF k
    <3> QED BY <3>2, <3>3
  <2> HIDE DEF numbered
  <2> QED BY <2>1, <2>4
<1>4. pos \in Nat /\ neg \in Nat
  BY <1>3
<1>5. ASSUME NEW p \in Cat!Labelled!Pixel, Cat!Labelled!Polarity(p) # 0
      PROVE  L.map[p] \in -neg .. pos
  <2>1. Cat!Labelled!Polarity(p) \in {1, -1}
    <3>1. Cat!Thresholded[p] \in {1, 0, -1}
      BY DEF Cat!Thresholded, Cat!Labelled!Pixel, Cat!Labelled!Rows, Cat!Labelled!Cols
    <3> QED BY <1>5, <3>1 DEF Cat!Labelled!Polarity
  <2>2. PICK s \in {1, -1} : s = Cat!Labelled!Polarity(p)
    BY <2>1
  <2>3. PICK C \in Cat!Labelled!Components(s) : p \in C
    BY <1>1, <2>2, ComponentsCover
  <2>4. \E l \in labels : p \in l.pixels
    <3>1. \E l \in numbered(s) : p \in l.pixels
      <4> DEFINE l == [pixels |-> C,
                       number |-> s * Cat!Labelled!Cardinality({x \in starts(s) :
                                                                  x <= Cat!Labelled!FirstMet(C)})]
      <4>1. l \in numbered(s) /\ l.pixels = C
        OBVIOUS
      <4> HIDE DEF l, numbered
      <4> QED BY <2>3, <4>1
    <3> QED BY <3>1
  <2> DEFINE l == CHOOSE m \in labels : p \in m.pixels
  <2>5. l \in labels
    <3> HIDE DEF labels
    <3> QED BY <2>4
  <2>6. L.map[p] = l.number
    BY <1>2, <1>5
  <2> HIDE DEF l, L
  <2>7. \E k \in 0 .. pos : l.number = 1 * k \/ \E j \in 0 .. neg : l.number = -1 * j
    <3> HIDE DEF numbered
    <3> QED BY <1>3, <1>4, <2>5
  <2> HIDE DEF pos, neg
  <2> QED BY <1>4, <2>6, <2>7
<1>6. \A p \in Cat!Labelled!Pixel : L.map[p] \in -neg .. pos
  <2> HIDE DEF L, labels, neg, pos
  <2>1. \A p \in Cat!Labelled!Pixel : Cat!Labelled!Polarity(p) = 0 => L.map[p] = 0
    BY <1>2
  <2> QED BY <1>4, <1>5, <2>1
<1>7. \A i \in Cat!Index : <<Cat!RowOf(i), Cat!ColOf(i)>> \in Cat!Labelled!Pixel
  BY Places DEF Cat!Labelled!Pixel, Cat!Labelled!Rows, Cat!Labelled!Cols
<1> HIDE DEF L, neg, pos
<1> QED BY <1>2, <1>4, <1>6, <1>7 DEF LabelAt, AllLabels, L

------------------------------------------------------------------------------
(* What the steps after the labelling leave alone.                          *)

LEMMA SameView ==
  ASSUME UNCHANGED <<find, bg_level, rms>>
  PROVE  /\ Cat!Index' = Cat!Index /\ AllLabels' = AllLabels /\ Found' = Found
         /\ \A i : /\ LabelAt(i)' = LabelAt(i) /\ Cat!ColOf(i)' = Cat!ColOf(i)
                   /\ Coordinate(i)' = Coordinate(i)
         /\ \A l : PixelsOf(l)' = PixelsOf(l) /\ Cat!SignOf(l)' = Cat!SignOf(l)
         /\ \A l, i : Peaks(l, i)' = Peaks(l, i) /\ ExtremumOf(l, i)' = ExtremumOf(l, i)
         /\ \A l, i, j : AtLeast(l, i, j)' = AtLeast(l, i, j)
         /\ \A f : Weights(f)' = Weights(f)
         /\ \A box : BoxOK(box)' = BoxOK(box)
         /\ BoxedMeasure' = BoxedMeasure
<1>1. Cat!Labelled!Labelling' = Cat!Labelled!Labelling
  BY SameLabelling
<1>2. /\ Cat!Index' = Cat!Index
      /\ \A i : Cat!RowOf(i)' = Cat!RowOf(i) /\ Cat!ColOf(i)' = Cat!ColOf(i)
  BY DEF Cat!Index, Cat!RowOf, Cat!ColOf
<1>3. \A i : LabelAt(i)' = LabelAt(i)
  BY <1>1, <1>2 DEF LabelAt
<1>4. AllLabels' = AllLabels
  BY <1>1 DEF AllLabels
<1>5. Found' = Found /\ \A l : PixelsOf(l)' = PixelsOf(l)
  BY <1>2, <1>3 DEF Found, PixelsOf
<1>6. \A l : Cat!SignOf(l)' = Cat!SignOf(l)
  BY DEF Cat!SignOf
<1>7. \A l, i : Peaks(l, i)' = Peaks(l, i)
  BY <1>6 DEF Peaks, Cat!Beyond
<1>8. \A l, i, j : AtLeast(l, i, j)' = AtLeast(l, i, j)
  BY <1>6 DEF AtLeast
<1>9. \A l, i : ExtremumOf(l, i)' = ExtremumOf(l, i)
  BY <1>5, <1>7, <1>8 DEF ExtremumOf
<1>10. \A i : Coordinate(i)' = Coordinate(i)
  BY DEF Coordinate, Cat!SkyRow, Cat!SkyCol, Cat!HalfShift, Cat!RowOf, Cat!ColOf
<1>11. \A f, i : Weight(f, i)' = Weight(f, i)
  BY <1>10 DEF Weight
<1>12. \A f : Weights(f)' = Weights(f)
  BY <1>2, <1>11 DEF Weights
<1>13. \A box : BoxOK(box)' = BoxOK(box)
  BY DEF BoxOK
<1>14. BoxedMeasure' = BoxedMeasure
  BY <1>13 DEF BoxedMeasure, Measure
<1> QED BY <1>2, <1>3, <1>4, <1>5, <1>6, <1>7, <1>8, <1>9, <1>10, <1>12, <1>13, <1>14

\* Sizes and values are numbers.
ImageOK ==
  find.rows \in Nat \ {0} /\ find.cols \in Nat \ {0} /\ find.image \in [Cat!Index -> Int]

LEMMA IndexFinite ==
  ASSUME ImageOK
  PROVE  IsFiniteSet(Cat!Index) /\ Cat!Index \subseteq Nat
<1>1. find.rows * find.cols \in Nat
  BY SMT DEF ImageOK
<1> QED BY <1>1, FS_Interval DEF Cat!Index

LEMMA Coordinates ==
  ASSUME ImageOK, NEW i \in Cat!Index
  PROVE  Coordinate(i).x \in 0 .. find.cols - 1 /\ Coordinate(i).y \in 0 .. find.rows - 1
<1>1. ASSUME NEW size \in Nat \ {0}, NEW k \in 0 .. size - 1
      PROVE  (IF k < size \div 2 THEN k + size \div 2 ELSE k - size \div 2) \in 0 .. size - 1
  OBVIOUS
<1>2. Cat!RowOf(i) \in 0 .. find.rows - 1 /\ Cat!ColOf(i) \in 0 .. find.cols - 1
  BY Places DEF ImageOK
<1>3. /\ Cat!HalfShift(Cat!RowOf(i), find.rows) \in 0 .. find.rows - 1
      /\ Cat!HalfShift(Cat!ColOf(i), find.cols) \in 0 .. find.cols - 1
  BY <1>1, <1>2 DEF Cat!HalfShift, ImageOK
<1> QED BY <1>2, <1>3 DEF Coordinate, Cat!SkyRow, Cat!SkyCol

LEMMA WeightIsInt ==
  ASSUME ImageOK
  PROVE  \A f \in Fields, i \in Cat!Index : Weights(f)[i] = Weight(f, i) /\ Weight(f, i) \in Int
<1> SUFFICES ASSUME NEW i \in Cat!Index PROVE \A f \in Fields : Weight(f, i) \in Int
  BY DEF Weights
<1>1. PICK x \in Int, y \in Int, v \in Int :
        x = Coordinate(i).x /\ y = Coordinate(i).y /\ v = find.image[i]
  BY Coordinates DEF ImageOK
<1>2. /\ Weight("x", i) = x * v /\ Weight("y", i) = y * v /\ Weight("xx", i) = x * x * v
      /\ Weight("yy", i) = y * y * v /\ Weight("xy", i) = x * y * v /\ Weight("flux", i) = v
  BY <1>1 DEF Weight
<1>3. x * v \in Int /\ y * v \in Int /\ x * x * v \in Int /\ y * y * v \in Int /\ x * y * v \in Int
  BY SMT
<1> QED BY <1>2, <1>3 DEF Fields

LEMMA MinMax ==
  ASSUME NEW a \in Int, NEW b \in Int
  PROVE  /\ Min({a, b}) = IF a <= b THEN a ELSE b
         /\ Max({a, b}) = IF a <= b THEN b ELSE a
BY DEF Min, Max

LEMMA PixelAdds ==
  ASSUME ImageOK, NEW i \in Cat!Index, NEW m \in Measure, BoxOK(m.box)
  PROVE  LET n == WithPixel(i, m)
         IN  /\ n \in Measure /\ BoxOK(n.box)
             /\ n.num_samples = m.num_samples + 1
             /\ \A f \in Fields : n[f] = m[f] + Weight(f, i)
             /\ find.gaussian_fitting => Holds(n.box, Coordinate(i))
             /\ \A p \in [x : Int, y : Int] : Holds(m.box, p) => Holds(n.box, p)
<1> DEFINE n == WithPixel(i, m)
           p == Coordinate(i)
           b == n.box
<1>1. p.x \in 0 .. find.cols - 1 /\ p.y \in 0 .. find.rows - 1
  BY Coordinates
<1>2. /\ m.box \in [top : Int, bottom : Int, left : Int, right : Int]
      /\ m.num_samples \in Nat /\ \A f \in Fields : m[f] \in Int
  BY DEF Measure, Fields
<1>3. \A f \in Fields : n[f] = m[f] + Weight(f, i)
  BY DEF WithPixel, Weight, Fields
<1>4. n.num_samples = m.num_samples + 1
  BY DEF WithPixel
<1>5. /\ b \in [top : Int, bottom : Int, left : Int, right : Int] /\ BoxOK(b)
      /\ find.gaussian_fitting => Holds(b, p)
      /\ \A q \in [x : Int, y : Int] : Holds(m.box, q) => Holds(b, q)
  <2>1. CASE find.gaussian_fitting
    <3>1. b = Enlarged(m.box, p.x, p.y)
      BY <2>1 DEF WithPixel
    <3> DEFINE e == Enlarged(m.box, p.x, p.y)
    <3>7. /\ p.x \in Int /\ p.y \in Int /\ m.box.top \in Int /\ m.box.bottom \in Int
          /\ m.box.left \in Int /\ m.box.right \in Int
      BY <1>1, <1>2 DEF ImageOK
    <3> HIDE DEF p
    <3>8. /\ e.top = Min({m.box.top, p.y}) /\ e.bottom = Max({m.box.bottom, p.y})
          /\ e.left = Min({m.box.left, p.x}) /\ e.right = Max({m.box.right, p.x})
      BY DEF Enlarged
    <3>2. /\ e.top = (IF m.box.top <= p.y THEN m.box.top ELSE p.y)
          /\ e.bottom = (IF m.box.bottom <= p.y THEN p.y ELSE m.box.bottom)
          /\ e.left = (IF m.box.left <= p.x THEN m.box.left ELSE p.x)
          /\ e.right = (IF m.box.right <= p.x THEN p.x ELSE m.box.right)
      <4> HIDE DEF e
      <4> QED BY <3>7, <3>8, MinMax
    <3>6. e = [top |-> e.top, bottom |-> e.bottom, left |-> e.left, right |-> e.right]
      BY DEF Enlarged
    <3> HIDE DEF e
    <3>3. e \in [top : Int, bottom : Int, left : Int, right : Int] /\ BoxOK(e)
      <4>1. e.top \in Int /\ e.bottom \in Int /\ e.left \in Int /\ e.right \in Int /\ BoxOK(e)
        BY <1>1, <1>2, <3>2 DEF BoxOK, ImageOK
      <4> QED BY <3>6, <4>1
    <3>4. Holds(e, p)
      BY <1>1, <1>2, <3>2 DEF Holds, ImageOK
    <3>5. \A q \in [x : Int, y : Int] : Holds(m.box, q) => Holds(e, q)
      BY <1>1, <1>2, <3>2 DEF Holds, ImageOK
    <3> QED BY <3>1, <3>3, <3>4, <3>5 DEF e, p
  <2>2. CASE ~ find.gaussian_fitting
    <3>1. b = m.box
      BY <2>2 DEF WithPixel
    <3> QED BY <1>2, <2>2, <3>1
  <2> QED BY <2>1, <2>2
<1>6. n \in Measure
  <2>1. n = [num_samples |-> n.num_samples, x |-> n["x"], y |-> n["y"], xx |-> n["xx"],
             yy |-> n["yy"], xy |-> n["xy"], flux |-> n["flux"], box |-> b]
    BY DEF WithPixel
  <2>2. \A f \in Fields : n[f] \in Int
    BY <1>2, <1>3, WeightIsInt
  <2> HIDE DEF n
  <2> QED BY <1>2, <1>4, <1>5, <2>1, <2>2 DEF Measure, Fields
<1> QED BY <1>3, <1>4, <1>5, <1>6

\* The recursive function in the fold of MeasureColumn.
IsMeasure(f, m, S) ==
  f = [s \in SUBSET S |-> IF s = {} THEN m
                          ELSE WithPixel(CHOOSE x \in s : TRUE, f[s \ {CHOOSE x \in s : TRUE}])]

LEMMA MeasureExists ==
  ASSUME ImageOK, NEW S \in SUBSET Cat!Index, IsFiniteSet(S), NEW m \in BoxedMeasure
  PROVE  \E f : IsMeasure(f, m, S)
<1> DEFINE F == [i \in S |-> [n \in BoxedMeasure |-> WithPixel(i, n)]]
<1>1. PICK f : IsFold(f, F, m, S)
  BY FoldExists
<1> DEFINE G == {t \in SUBSET S : f[t] \in BoxedMeasure}
<1>2. ASSUME NEW t \in SUBSET S, t # {}, f[t \ {CHOOSE x \in t : TRUE}] \in BoxedMeasure
      PROVE  /\ f[t] = WithPixel(CHOOSE x \in t : TRUE, f[t \ {CHOOSE x \in t : TRUE}])
             /\ f[t] \in BoxedMeasure
  <2> DEFINE c == CHOOSE x \in t : TRUE
             r == f[t \ {c}]
  <2>1. c \in S /\ r \in BoxedMeasure
    BY <1>2
  <2>2. f[t] = F[c][r]
    BY <1>1, <1>2 DEF IsFold
  <2> HIDE DEF c, r
  <2>3. F[c][r] = WithPixel(c, r)
    BY <2>1
  <2>4. WithPixel(c, r) \in BoxedMeasure
    BY <2>1, PixelAdds DEF BoxedMeasure
  <2> QED BY <2>2, <2>3, <2>4 DEF c, r
<1>3. SUBSET S \subseteq G
  <2>1. ASSUME NEW t \in SUBSET S, \A u \in SUBSET t : u # t => u \in G
        PROVE  t \in G
    <3>1. CASE t = {}
      <4>1. f[t] = m
        BY <1>1, <3>1 DEF IsFold
      <4> QED BY <4>1
    <3>2. CASE t # {}
      <4> DEFINE c == CHOOSE x \in t : TRUE
      <4>1. c \in t
        BY <3>2
      <4> HIDE DEF c
      <4>2. t \ {c} \in G
        <5> HIDE DEF G
        <5> QED BY <2>1, <4>1
      <4>3. f[t \ {c}] \in BoxedMeasure
        BY <4>2
      <4> QED BY <1>2, <3>2, <4>3 DEF c
    <3> QED BY <3>1, <3>2
  <2> HIDE DEF G
  <2> QED BY <2>1, SubsetInduction
<1> DEFINE d(s) == IF s = {} THEN m ELSE F[CHOOSE x \in s : TRUE][f[s \ {CHOOSE x \in s : TRUE}]]
           e(s) == IF s = {} THEN m
                   ELSE WithPixel(CHOOSE x \in s : TRUE, f[s \ {CHOOSE x \in s : TRUE}])
<1>4. f = [s \in SUBSET S |-> d(s)]
  BY <1>1 DEF IsFold
<1>5. \A s \in SUBSET S : f[s] = e(s)
  <2> TAKE s \in SUBSET S
  <2>1. CASE s = {}
    BY <1>1, <2>1 DEF IsFold
  <2>2. CASE s # {}
    <3>1. f[s \ {CHOOSE x \in s : TRUE}] \in BoxedMeasure
      BY <1>3
    <3> QED BY <1>2, <2>2, <3>1
  <2> QED BY <2>1, <2>2
<1>6. f = [s \in SUBSET S |-> e(s)]
  <2> HIDE DEF d, e
  <2> QED BY <1>4, <1>5
<1>7. IsMeasure(f, m, S)
  BY <1>6 DEF IsMeasure
<1> QED BY <1>7

\* The pixels of set S have been added to m.
Added(n, m, S) ==
  /\ n \in BoxedMeasure
  /\ n.num_samples = m.num_samples + Cardinality(S)
  /\ \A f \in Fields : n[f] = m[f] + SumOf(Weights(f), S)
  /\ find.gaussian_fitting => \A i \in S : Holds(n.box, Coordinate(i))
  /\ \A p \in [x : Int, y : Int] : Holds(m.box, p) => Holds(n.box, p)

\* A measure with the pixels of set S.
AddAll(m, S) == FoldSet(WithPixel, m, S)

LEMMA MeasureAdds ==
  ASSUME ImageOK, NEW S \in SUBSET Cat!Index, NEW m \in BoxedMeasure
  PROVE  Added(AddAll(m, S), m, S)
<1> DEFINE f == CHOOSE g : IsMeasure(g, m, S)
           G == {t \in SUBSET S : Added(f[t], m, t)}
<1>1. AddAll(m, S) = f[S]
  BY DEF AddAll, FoldSet, MapThenFoldSet, IsMeasure
<1>2. IsFiniteSet(S)
  BY IndexFinite, FS_Subset
<1>3. IsMeasure(f, m, S)
  BY <1>2, MeasureExists
<1> HIDE DEF f
<1>4. /\ m \in Measure /\ BoxOK(m.box) /\ m.num_samples \in Nat /\ \A g \in Fields : m[g] \in Int
  BY DEF BoxedMeasure, Measure, Fields
<1>5. Added(m, m, {})
  <2>1. Cardinality({}) = 0 /\ \A g : SumOf(g, {}) = 0
    BY FS_EmptySet, SumEmpty
  <2> QED BY <1>4, <2>1 DEF Added
<1>6. ASSUME NEW t \in SUBSET S, NEW c \in t, Added(f[t \ {c}], m, t \ {c}), f[t] = WithPixel(c, f[t \ {c}])
      PROVE  Added(f[t], m, t)
  <2> DEFINE r == t \ {c}
  <2>1. IsFiniteSet(r) /\ IsFiniteSet(t) /\ c \notin r /\ r \union {c} = t
    BY <1>2, FS_Subset
  <2>2. c \in Cat!Index /\ r \subseteq Cat!Index
    OBVIOUS
  <2> HIDE DEF r
  <2>3. PICK n : n = f[r] /\ Added(n, m, r)
    BY <1>6 DEF r
  <2>4. PICK q : q = WithPixel(c, n) /\ q = f[t]
    BY <1>6, <2>3 DEF r
  <2>5. /\ n \in Measure /\ BoxOK(n.box) /\ n.num_samples \in Nat /\ \A g \in Fields : n[g] \in Int
    BY <2>3 DEF Added, BoxedMeasure, Measure, Fields
  <2>6. /\ q \in Measure /\ BoxOK(q.box) /\ q.num_samples = n.num_samples + 1
        /\ \A g \in Fields : q[g] = n[g] + Weight(g, c)
        /\ find.gaussian_fitting => Holds(q.box, Coordinate(c))
        /\ \A p \in [x : Int, y : Int] : Holds(n.box, p) => Holds(q.box, p)
    BY <2>2, <2>4, <2>5, PixelAdds
  <2>7. q.num_samples = m.num_samples + Cardinality(t)
    <3>1. Cardinality(t) = Cardinality(r) + 1 /\ Cardinality(r) \in Nat
      BY <2>1, FS_AddElement, FS_CardinalityType
    <3>2. n.num_samples = m.num_samples + Cardinality(r)
      BY <2>3 DEF Added
    <3> QED BY <1>4, <2>6, <3>1, <3>2
  <2>8. ASSUME NEW g \in Fields PROVE q[g] = m[g] + SumOf(Weights(g), t)
    <3>1. \A x \in t : Weights(g)[x] \in Int
      BY <2>1, <2>2, WeightIsInt
    <3>2. SumOf(Weights(g), t) = Weights(g)[c] + SumOf(Weights(g), r)
      BY <2>1, <3>1, SumAdd
    <3>3. SumOf(Weights(g), r) \in Int
      BY <2>1, <3>1, SumIsInt
    <3>4. Weights(g)[c] = Weight(g, c) /\ Weight(g, c) \in Int
      BY <2>2, WeightIsInt
    <3>5. n[g] = m[g] + SumOf(Weights(g), r)
      BY <2>3 DEF Added
    <3>6. q[g] = n[g] + Weight(g, c) /\ m[g] \in Int
      BY <1>4, <2>6
    <3> HIDE DEF r
    <3> QED BY <3>2, <3>3, <3>4, <3>5, <3>6
  <2>9. find.gaussian_fitting => \A i \in t : Holds(q.box, Coordinate(i))
    <3> SUFFICES ASSUME find.gaussian_fitting, NEW i \in t PROVE Holds(q.box, Coordinate(i))
      OBVIOUS
    <3>1. CASE i = c
      BY <2>6, <3>1
    <3>2. CASE i # c
      <4>1. Coordinate(i) \in [x : Int, y : Int]
        <5>1. i \in Cat!Index
          OBVIOUS
        <5>2. Coordinate(i).x \in Int /\ Coordinate(i).y \in Int
          BY <5>1, Coordinates
        <5> QED BY <5>2 DEF Coordinate
      <4>2. Holds(n.box, Coordinate(i))
        BY <2>1, <2>3, <3>2 DEF Added
      <4> QED BY <2>6, <4>1, <4>2
    <3> QED BY <3>1, <3>2
  <2>10. \A p \in [x : Int, y : Int] : Holds(m.box, p) => Holds(q.box, p)
    BY <2>3, <2>6 DEF Added
  <2> QED BY <2>4, <2>6, <2>7, <2>8, <2>9, <2>10 DEF Added, BoxedMeasure
<1>7. ASSUME NEW t \in SUBSET S, \A u \in SUBSET t : u # t => u \in G
      PROVE  t \in G
  <2>1. CASE t = {}
    <3>1. f[t] = m
      BY <1>3, <2>1 DEF IsMeasure
    <3> QED BY <1>5, <2>1, <3>1
  <2>2. CASE t # {}
    <3> DEFINE c == CHOOSE x \in t : TRUE
    <3>1. c \in t
      BY <2>2
    <3>2. f[t] = WithPixel(c, f[t \ {c}])
      BY <1>3, <2>2 DEF IsMeasure
    <3> HIDE DEF c
    <3>3. t \ {c} \in G
      <4> HIDE DEF G
      <4> QED BY <1>7, <3>1
    <3> QED BY <1>6, <3>1, <3>2, <3>3
  <2> QED BY <2>1, <2>2
<1>8. SUBSET S \subseteq G
  <2> HIDE DEF G
  <2> QED BY <1>2, <1>7, SubsetInduction
<1> QED BY <1>1, <1>8

------------------------------------------------------------------------------
(* Labels and their extrema.                                                *)

LEMMA CallHasImage ==
  ASSUME CallFits, spc # "idle"
  PROVE  ImageOK
BY DEF CallFits, ImageOK

LEMMA FinalLabels ==
  ASSUME ImageOK
  PROVE  /\ AllLabels \subseteq Int /\ 0 \notin AllLabels
         /\ \A i \in Found : LabelAt(i) \in AllLabels
         /\ \A l \in AllLabels : PixelsOf(l) \subseteq Found
         /\ \A l : Cat!SignOf(l) \in {1, -1}
<1>1. /\ Cat!Labelled!Labelling.neg \in Nat /\ Cat!Labelled!Labelling.pos \in Nat
      /\ \A i \in Cat!Index : LabelAt(i) = 0 \/ LabelAt(i) \in AllLabels
  BY LabelRange DEF ImageOK
<1>2. AllLabels \subseteq Int /\ 0 \notin AllLabels
  BY <1>1 DEF AllLabels
<1> QED BY <1>1, <1>2 DEF Found, PixelsOf, Cat!SignOf

\* A pixel at least as extreme as one beyond a threshold is beyond it.
LEMMA PeaksMonotone ==
  ASSUME ImageOK, find.detection_n_sigma \in Nat,
         bg_level.num \in Int, bg_level.den \in Nat \ {0}, rms.num \in Int, rms.den \in Nat,
         NEW l, NEW i \in Cat!Index, NEW j \in Cat!Index, AtLeast(l, i, j), Peaks(l, j)
  PROVE  Peaks(l, i)
<1>1. PICK s \in {1, -1} : s = Cat!SignOf(l)
  BY FinalLabels
<1>2. PICK x, y, a, b, d, n, r :
        /\ x = find.image[i] /\ y = find.image[j] /\ a = bg_level.num /\ b = bg_level.den
        /\ d = rms.den /\ n = find.detection_n_sigma /\ r = rms.num
  OBVIOUS
<1>0. /\ x \in Int /\ y \in Int /\ a \in Int /\ b \in Nat \ {0} /\ d \in Nat /\ n \in Int
      /\ r \in Int
  BY <1>2 DEF ImageOK
<1> DEFINE dx == s * (b * x - a)
           dy == s * (b * y - a)
           limit == n * n * r * b * b
<1>3. s * x >= s * y
  BY <1>1, <1>2 DEF AtLeast
<1>4. dy > 0 /\ dy * dy * d > limit
  BY <1>1, <1>2 DEF Peaks, Cat!Beyond
<1>5. dx \in Int /\ dy \in Int /\ limit \in Int
  BY <1>0, SMT
<1>6. dx >= dy
  <2>1. b * x \in Int /\ b * y \in Int
    BY <1>0, SMT
  <2>2. CASE s = 1
    <3>1. b * x >= b * y
      <4>1. x >= y
        BY <1>0, <1>3, <2>2
      <4> QED BY <1>0, <4>1, SMT
    <3> QED BY <1>0, <2>1, <2>2, <3>1
  <2>3. CASE s = -1
    <3>1. b * x <= b * y
      <4>1. x <= y
        BY <1>0, <1>3, <2>3
      <4> QED BY <1>0, <4>1, SMT
    <3> QED BY <1>0, <2>1, <2>3, <3>1
  <2> QED BY <2>2, <2>3
<1>7. Peaks(l, i) <=> dx > 0 /\ dx * dx * d > limit
  BY <1>1, <1>2 DEF Peaks, Cat!Beyond
<1> HIDE DEF dx, dy, limit
<1>8. dx * dx >= dy * dy /\ dx * dx \in Int /\ dy * dy \in Int
  BY <1>4, <1>5, <1>6, SMT
<1>9. PICK p \in Int, q \in Int : p = dx * dx /\ q = dy * dy
  BY <1>8
<1>10. p * d >= q * d /\ p * d \in Int /\ q * d \in Int
  BY <1>0, <1>8, <1>9, SMT
<1>11. p * d > limit
  BY <1>0, <1>4, <1>5, <1>9, <1>10
<1> QED BY <1>4, <1>5, <1>6, <1>7, <1>9, <1>11

\* The arguments and the levels stay what they are.
LEMMA CallKept ==
  ASSUME CallFits, LevelsOK, spc = "label" \/ HasLabels, HasLabels',
         UNCHANGED <<find, bg_level, rms>>
  PROVE  CallFits' /\ LevelsOK'
<1>1. spc \notin {"idle", "median", "await"} /\ spc' \notin {"idle", "median", "await"}
  BY DEF HasLabels
<1>2. Cat!Index' = Cat!Index
  BY SameView
<1> QED BY <1>1, <1>2 DEF CallFits, LevelsOK

LEMMA LabelImageKeeps ==
  ASSUME FindInv, LabelImage
  PROVE  FindInv'
<1>1. /\ spc = "label" /\ spc' = "extrema" /\ UNCHANGED <<find, bg_level, rms>> /\ fits' = fits
  BY DEF LabelImage, statvars
<1>2. CallFits' /\ LevelsOK' /\ ImageOK
  BY <1>1, CallKept, CallHasImage DEF FindInv, HasLabels
<1>3. /\ label_map' = [i \in Cat!Index |-> Cat!SignOf(LabelAt(i)) * (IF i \in Found THEN i + 1 ELSE 0)]
      /\ P' = [l \in {label_map'[i] : i \in Found} |-> LabelAt(l * Cat!SignOf(l) - 1)]
      /\ pending' = Found
      /\ extrema' = [t \in Threads |-> [l \in AllLabels |-> None]]
      /\ label_extrema_id' = [l \in AllLabels |-> 0]
  BY DEF LabelImage, Found, LabelAt, AllLabels
<1>4. PixelsOK'
  <2>1. \A i \in Cat!Index \ Found : label_map'[i] = LabelAt(i)
    <3> TAKE i \in Cat!Index \ Found
    <3>1. LabelAt(i) = 0 /\ Cat!SignOf(LabelAt(i)) \in {1, -1}
      BY FinalLabels, <1>2 DEF Found
    <3>2. label_map'[i] = Cat!SignOf(LabelAt(i)) * 0
      BY <1>3
    <3> QED BY <3>1, <3>2
  <2>2. \A i \in Found : P'[label_map'[i]] = LabelAt(i)
    <3> TAKE i \in Found
    <3>1. PICK s \in {1, -1} : s = Cat!SignOf(LabelAt(i))
      BY FinalLabels, <1>2
    <3>2. i \in Nat
      BY <1>2, IndexFinite DEF Found
    <3> DEFINE l == s * (i + 1)
    <3>3. label_map'[i] = l
      BY <1>3, <3>1 DEF Found
    <3>4. P'[l] = LabelAt(l * Cat!SignOf(l) - 1)
      <4> HIDE DEF l
      <4> QED BY <1>3, <3>3
    <3>5. l \in Int /\ (l < 0 <=> s = -1)
      BY <3>2
    <3>6. Cat!SignOf(l) = s
      BY <3>5 DEF Cat!SignOf
    <3>7. l * s - 1 = i
      BY <3>2
    <3> HIDE DEF l
    <3> QED BY <3>3, <3>4, <3>6, <3>7
  <2>3. DOMAIN label_map' = Cat!Index /\ pending' = Found
    BY <1>3
  <2>4. Cat!Index' = Cat!Index /\ Found' = Found /\ \A i : LabelAt(i)' = LabelAt(i)
    BY <1>1, SameView
  <2> QED BY <2>1, <2>2, <2>3, <2>4 DEF PixelsOK
<1>5. ExtremaOK'
  <2>1. \A l \in AllLabels : \A i \in PixelsOf(l) : i \in Found
    BY <1>2, FinalLabels
  <2>2. extrema' \in [Threads -> [AllLabels -> Cat!Index \union {None}]]
    BY <1>3
  <2>3. \A t \in Threads, l \in AllLabels : extrema'[t][l] = None
    BY <1>3
  <2> QED BY <1>1, <1>3, <2>1, <2>2, <2>3, SameView DEF ExtremaOK
<1>6. LabelsOK'
  BY <1>1, <1>3, SameView DEF LabelsOK
<1>7. CombinedOK' /\ MapOK' /\ MeasuresOK' /\ LabelMeasuresOK' /\ IslandsOK'
  BY <1>1 DEF CombinedOK, MapOK, MeasuresOK, LabelMeasuresOK, IslandsOK, HasExtrema
<1>8. FitsOK'
  BY <1>1 DEF FindInv, FitsOK, FitCoversIsland
<1> QED BY <1>2, <1>4, <1>5, <1>6, <1>7, <1>8 DEF FindInv

LEMMA AtLeastTransitive ==
  ASSUME ImageOK, NEW l, NEW i \in Cat!Index, NEW j \in Cat!Index, NEW k \in Cat!Index
  PROVE  /\ AtLeast(l, i, i)
         /\ AtLeast(l, i, j) /\ AtLeast(l, j, k) => AtLeast(l, i, k)
         /\ i # None /\ j # None
         /\ ~ MoreExtreme(Cat!SignOf(l), i, j) => AtLeast(l, j, i)
         /\ MoreExtreme(Cat!SignOf(l), i, j) => AtLeast(l, i, j)
<1>1. PICK s \in {1, -1} : s = Cat!SignOf(l)
  BY FinalLabels
<1>2. PICK x \in Int, y \in Int, z \in Int : x = find.image[i] /\ y = find.image[j] /\ z = find.image[k]
  BY DEF ImageOK
<1>3. i # None /\ j # None
  BY IndexFinite DEF None
<1>4. s * x \in Int /\ s * y \in Int /\ s * z \in Int
  BY SMT
<1> QED BY <1>1, <1>2, <1>3, <1>4 DEF AtLeast, MoreExtreme

LEMMA FindExtremumKeeps ==
  ASSUME FindInv, NEW t \in Threads, NEW i \in pending, FindExtremum(t, i)
  PROVE  FindInv'
<1> DEFINE l == LabelAt(i)
           e == extrema[t][l]
           s == Cat!SignOf(l)
<1>1. /\ spc = "extrema" /\ spc' = "extrema" /\ UNCHANGED <<find, bg_level, rms>> /\ fits' = fits
      /\ P' = P /\ label_extrema_id' = label_extrema_id /\ pending' = pending \ {i}
  BY DEF FindExtremum, statvars
<1>2. CallFits' /\ LevelsOK' /\ ImageOK
  BY <1>1, CallKept, CallHasImage DEF FindInv, HasLabels
<1>3. /\ pending \subseteq Found /\ DOMAIN label_map = Cat!Index
      /\ \A j \in Cat!Index \ pending : label_map[j] = LabelAt(j)
      /\ \A j \in pending : P[label_map[j]] = LabelAt(j)
      /\ Found \subseteq Cat!Index
  BY <1>1 DEF FindInv, PixelsOK, Found
<1>4. /\ label_map' = [label_map EXCEPT ![i] = l]
      /\ extrema' = [extrema EXCEPT ![t][l] = IF MoreExtreme(s, i, e) THEN i ELSE e]
  BY <1>3 DEF FindExtremum
<1>5. i \in Cat!Index /\ i \in PixelsOf(l) /\ l \in AllLabels
  BY <1>2, <1>3, FinalLabels DEF PixelsOf
<1>6. PixelsOK'
  <2>1. DOMAIN label_map' = Cat!Index /\ label_map'[i] = LabelAt(i)
        /\ \A j \in Cat!Index : j # i => label_map'[j] = label_map[j]
    BY <1>3, <1>4, <1>5
  <2>2. \A j \in Cat!Index \ pending' : label_map'[j] = LabelAt(j)
    BY <1>1, <1>3, <2>1
  <2>3. \A j \in pending' : P'[label_map'[j]] = LabelAt(j)
    BY <1>1, <1>3, <2>1
  <2>4. pending' \subseteq Found
    BY <1>1, <1>3
  <2> QED BY <1>1, <2>1, <2>2, <2>3, <2>4, SameView DEF PixelsOK
<1>7. /\ extrema \in [Threads -> [AllLabels -> Cat!Index \union {None}]]
      /\ \A u \in Threads, m \in AllLabels :
           extrema[u][m] # None => extrema[u][m] \in PixelsOf(m) /\ Peaks(m, extrema[u][m])
      /\ \A m \in AllLabels : \A j \in PixelsOf(m) \ pending : Peaks(m, j) =>
           \E u \in Threads : extrema[u][m] # None /\ AtLeast(m, extrema[u][m], j)
  BY <1>1 DEF FindInv, ExtremaOK
<1> DEFINE new == IF MoreExtreme(s, i, e) THEN i ELSE e
<1>8. /\ extrema'[t][l] = new
      /\ \A u \in Threads, m \in AllLabels : u # t \/ m # l => extrema'[u][m] = extrema[u][m]
      /\ extrema' \in [Threads -> [AllLabels -> Cat!Index \union {None}]]
  <2>1. new \in Cat!Index \union {None}
    BY <1>5, <1>7
  <2> HIDE DEF new
  <2>2. extrema' = [extrema EXCEPT ![t] = [extrema[t] EXCEPT ![l] = new]]
    BY <1>4 DEF new
  <2> HIDE DEF l
  <2>3. [extrema[t] EXCEPT ![l] = new] \in [AllLabels -> Cat!Index \union {None}]
    BY <1>7, <2>1
  <2>4. DOMAIN extrema = Threads /\ DOMAIN extrema[t] = AllLabels
    BY <1>7
  <2>5. extrema' \in [Threads -> [AllLabels -> Cat!Index \union {None}]]
    BY <1>7, <2>2, <2>3
  <2>6. extrema'[t] = [extrema[t] EXCEPT ![l] = new] /\ \A u \in Threads : u # t => extrema'[u] = extrema[u]
    BY <2>2, <2>4
  <2> QED BY <1>5, <2>4, <2>5, <2>6
<1>9. e \in Cat!Index \union {None} /\ (e # None => e \in Cat!Index /\ e \in PixelsOf(l) /\ Peaks(l, e))
  BY <1>5, <1>7
<1>10. /\ bg_level.num \in Int /\ bg_level.den \in Nat \ {0} /\ rms.num \in Int /\ rms.den \in Nat
       /\ find.detection_n_sigma \in Nat
  BY <1>1 DEF FindInv, LevelsOK, CallFits, HasLabels
<1>11. e = None => (MoreExtreme(s, i, e) <=> Peaks(l, i))
  BY DEF MoreExtreme, Peaks
<1>12. new # None => new \in PixelsOf(l) /\ Peaks(l, new)
  <2>1. CASE e = None
    BY <1>5, <1>11, <2>1
  <2>2. CASE e # None
    <3>1. MoreExtreme(s, i, e) => AtLeast(l, i, e)
      BY <1>2, <1>5, <1>9, <2>2, AtLeastTransitive
    <3>2. MoreExtreme(s, i, e) => Peaks(l, i)
      BY <1>2, <1>5, <1>9, <1>10, <2>2, <3>1, PeaksMonotone
    <3> QED BY <1>5, <1>9, <2>2, <3>2
  <2> QED BY <2>1, <2>2
<1>13. Peaks(l, i) => new # None /\ AtLeast(l, new, i)
  <2>1. CASE e = None
    BY <1>2, <1>5, <1>11, <2>1, AtLeastTransitive
  <2>2. CASE e # None
    BY <1>2, <1>5, <1>9, <2>2, AtLeastTransitive
  <2> QED BY <2>1, <2>2
<1>14. ASSUME NEW j \in Cat!Index, e # None, AtLeast(l, e, j)
       PROVE  new # None /\ AtLeast(l, new, j)
  BY <1>2, <1>5, <1>9, <1>14, AtLeastTransitive
<1>15. ExtremaOK'
  <2> HIDE DEF new, s
  <2>1. ASSUME NEW u \in Threads, NEW m \in AllLabels, extrema'[u][m] # None
        PROVE  extrema'[u][m] \in PixelsOf(m) /\ Peaks(m, extrema'[u][m])
    BY <1>7, <1>8, <1>12, <2>1
  <2>2. ASSUME NEW m \in AllLabels, NEW j \in PixelsOf(m) \ pending', Peaks(m, j)
        PROVE  \E u \in Threads : extrema'[u][m] # None /\ AtLeast(m, extrema'[u][m], j)
    <3>1. CASE j = i
      <4>1. m = l
        BY <3>1 DEF PixelsOf
      <4> QED BY <1>8, <1>13, <2>2, <3>1, <4>1
    <3>2. CASE j # i
      <4>1. j \in PixelsOf(m) \ pending /\ j \in Cat!Index
        BY <1>1, <3>2 DEF PixelsOf
      <4>2. PICK u \in Threads : extrema[u][m] # None /\ AtLeast(m, extrema[u][m], j)
        BY <1>7, <2>2, <4>1
      <4>3. CASE u = t /\ m = l
        BY <1>8, <1>14, <4>1, <4>2, <4>3
      <4>4. CASE u # t \/ m # l
        BY <1>8, <4>2, <4>4
      <4> QED BY <4>3, <4>4
    <3> QED BY <3>1, <3>2
  <2>3. extrema' \in [Threads -> [AllLabels' -> Cat!Index' \union {None}]]
    BY <1>1, <1>8, SameView
  <2>4. /\ AllLabels' = AllLabels /\ \A m : PixelsOf(m)' = PixelsOf(m)
        /\ \A m, j : /\ Peaks(m, j)' = Peaks(m, j)
                    /\ \A k : AtLeast(m, j, k)' = AtLeast(m, j, k)
    BY <1>1, SameView
  <2> QED BY <1>1, <2>1, <2>2, <2>3, <2>4 DEF ExtremaOK
<1>16. LabelsOK'
  BY <1>1, SameView DEF FindInv, LabelsOK, HasLabels
<1>17. CombinedOK' /\ MapOK' /\ MeasuresOK' /\ LabelMeasuresOK' /\ IslandsOK'
  BY <1>1 DEF CombinedOK, MapOK, MeasuresOK, LabelMeasuresOK, IslandsOK, HasExtrema
<1>18. FitsOK'
  BY <1>1 DEF FindInv, FitsOK, FitCoversIsland
<1> QED BY <1>2, <1>6, <1>15, <1>16, <1>17, <1>18 DEF FindInv

\* The recursive function that combines the extrema of the threads in an order.
IsBest(f, order) ==
  f = [n \in DOMAIN order |->
         IF n = 1 THEN extrema[order[1]]
         ELSE [l \in Labels |-> MoreExtremeOf(Cat!SignOf(l), f[n - 1][l], extrema[order[n]][l])]]

LEMMA BestExists ==
  ASSUME NEW count \in Nat \ {0}, NEW order \in [1 .. count -> Threads]
  PROVE  \E f : IsBest(f, order)
<1> DEFINE e(f, n) == IF n = 1 THEN extrema[order[1]]
                      ELSE [l \in Labels |->
                              MoreExtremeOf(Cat!SignOf(l), f[n - 1][l], extrema[order[n]][l])]
           Has(m) == \E f : f = [n \in 1 .. m |-> e(f, n)]
           Ms == {m \in Nat : Has(m)}
<1>1. Has(0)
  <2> DEFINE f == [n \in 1 .. 0 |-> 0]
  <2>1. f = [n \in 1 .. 0 |-> e(f, n)]
    <3> HIDE DEF e
    <3> QED OBVIOUS
  <2> QED BY <2>1
<1>2. ASSUME NEW m \in Nat, Has(m) PROVE Has(m + 1)
  <2>1. PICK f : f = [n \in 1 .. m |-> e(f, n)]
    BY <1>2
  <2> DEFINE g == [n \in 1 .. m + 1 |-> e(f, n)]
  <2>2. \A n \in 1 .. m : g[n] = f[n]
    <3> HIDE DEF e
    <3> QED BY <2>1
  <2>3. \A n \in 1 .. m + 1 : n # 1 => g[n - 1] = f[n - 1]
    <3> HIDE DEF g
    <3> QED BY <2>2
  <2>4. \A n \in 1 .. m + 1 : e(f, n) = e(g, n)
    <3> HIDE DEF g
    <3> QED BY <2>3
  <2>5. g = [n \in 1 .. m + 1 |-> e(g, n)]
    <3>1. g = [n \in 1 .. m + 1 |-> e(f, n)]
      OBVIOUS
    <3> HIDE DEF g, e
    <3> QED BY <2>4, <3>1
  <2> HIDE DEF g, e
  <2> QED BY <2>5
<1>3. Nat \subseteq Ms
  <2>1. 0 \in Ms
    <3> HIDE DEF Has
    <3> QED BY <1>1
  <2>2. \A k \in Nat : k \in Ms => k + 1 \in Ms
    <3> HIDE DEF Has
    <3> QED BY <1>2
  <2> HIDE DEF Ms
  <2> QED BY <2>1, <2>2, AllNaturals
<1>4. Has(count)
  <2> HIDE DEF Has
  <2> QED BY <1>3
<1>5. PICK f : f = [n \in 1 .. count |-> e(f, n)]
  BY <1>4
<1>6. IsBest(f, order)
  BY <1>5 DEF IsBest
<1> QED BY <1>6

\* The best of the first n threads is at least as extreme as each of theirs, and one of them.
LEMMA BestOfThreads ==
  ASSUME ImageOK, extrema \in [Threads -> [AllLabels -> Cat!Index \union {None}]], LabelsOK, HasLabels,
         NEW count \in Nat \ {0}, NEW order \in [1 .. count -> Threads], NEW f, IsBest(f, order)
  PROVE  \A n \in 1 .. count :
           /\ f[n] \in [AllLabels -> Cat!Index \union {None}]
           /\ \A l \in AllLabels :
                /\ \E k \in 1 .. n : f[n][l] = extrema[order[k]][l]
                /\ \A k \in 1 .. n : extrema[order[k]][l] # None =>
                     f[n][l] # None /\ AtLeast(l, f[n][l], extrema[order[k]][l])
<1> DEFINE Best(n) ==
             n \in 1 .. count =>
               /\ f[n] \in [AllLabels -> Cat!Index \union {None}]
               /\ \A l \in AllLabels :
                    /\ \E k \in 1 .. n : f[n][l] = extrema[order[k]][l]
                    /\ \A k \in 1 .. n : extrema[order[k]][l] # None =>
                         f[n][l] # None /\ AtLeast(l, f[n][l], extrema[order[k]][l])
           Ns == {n \in Nat : Best(n)}
<1>1. Labels = AllLabels
  BY DEF LabelsOK, Labels
<1>2. /\ f[1] = extrema[order[1]]
      /\ \A n \in 1 .. count : n # 1 =>
           f[n] = [l \in AllLabels |->
                     MoreExtremeOf(Cat!SignOf(l), f[n - 1][l], extrema[order[n]][l])]
  BY <1>1 DEF IsBest
<1>3. Best(0)
  OBVIOUS
<1>4. ASSUME NEW m \in Nat, Best(m), m + 1 \in 1 .. count, NEW l \in AllLabels
      PROVE  /\ f[m + 1][l] \in Cat!Index \union {None}
             /\ \E k \in 1 .. m + 1 : f[m + 1][l] = extrema[order[k]][l]
             /\ \A k \in 1 .. m + 1 : extrema[order[k]][l] # None =>
                  f[m + 1][l] # None /\ AtLeast(l, f[m + 1][l], extrema[order[k]][l])
  <2>1. \A k \in 1 .. count : extrema[order[k]][l] \in Cat!Index \union {None}
    OBVIOUS
  <2>2. CASE m = 0
    <3>1. f[m + 1][l] = extrema[order[1]][l] /\ 1 \in 1 .. count /\ 1 .. m + 1 = {1}
      BY <1>2, <2>2
    <3>2. extrema[order[1]][l] # None => AtLeast(l, extrema[order[1]][l], extrema[order[1]][l])
      BY <2>1, <3>1, AtLeastTransitive
    <3> QED BY <2>1, <3>1, <3>2
  <2>3. CASE m # 0
    <3> DEFINE i == f[m][l]
               j == extrema[order[m + 1]][l]
               b == f[m + 1][l]
    <3>1. /\ m \in 1 .. count /\ i \in Cat!Index \union {None}
          /\ \E k \in 1 .. m : i = extrema[order[k]][l]
          /\ \A k \in 1 .. m : extrema[order[k]][l] # None =>
               i # None /\ AtLeast(l, i, extrema[order[k]][l])
      BY <1>4, <2>3
    <3>2. b = MoreExtremeOf(Cat!SignOf(l), i, j)
      <4>1. PICK n \in 1 .. count : n = m + 1
        BY <1>4
      <4>2. n # 1 /\ n - 1 = m
        BY <2>3, <4>1
      <4>3. f[n] = [y \in AllLabels |->
                      MoreExtremeOf(Cat!SignOf(y), f[n - 1][y], extrema[order[n]][y])]
        BY <1>2, <4>2
      <4>4. f[n][l] = MoreExtremeOf(Cat!SignOf(l), f[n - 1][l], extrema[order[n]][l])
        BY <4>3
      <4> QED BY <4>1, <4>2, <4>4
    <3>3. j \in Cat!Index \union {None}
      BY <1>4, <2>1
    <3> HIDE DEF b, i
    <3>4. b \in {i, j}
      BY <3>2 DEF MoreExtremeOf
    <3>5. /\ i # None => b # None /\ AtLeast(l, b, i)
          /\ j # None => b # None /\ AtLeast(l, b, j)
      <4> HIDE DEF j
      <4>1. CASE i = None
        BY <3>2, <3>3, <4>1, AtLeastTransitive DEF MoreExtremeOf
      <4>2. CASE i # None /\ j = None
        BY <3>1, <3>2, <4>2, AtLeastTransitive DEF MoreExtremeOf
      <4>3. CASE i # None /\ j # None
        BY <3>1, <3>2, <3>3, <4>3, AtLeastTransitive DEF MoreExtremeOf
      <4> QED BY <4>1, <4>2, <4>3
    <3>6. \E k \in 1 .. m + 1 : b = extrema[order[k]][l]
      <4>1. m + 1 \in 1 .. m + 1 /\ 1 .. m \subseteq 1 .. m + 1
        OBVIOUS
      <4> QED BY <3>1, <3>4, <4>1
    <3>7. ASSUME NEW k \in 1 .. m + 1, extrema[order[k]][l] # None
          PROVE  b # None /\ AtLeast(l, b, extrema[order[k]][l])
      <4>1. CASE k = m + 1
        BY <3>5, <3>7, <4>1
      <4>2. CASE k # m + 1
        <5>1. k \in 1 .. m /\ k \in 1 .. count
          BY <1>4, <4>2
        <5>2. i # None /\ AtLeast(l, i, extrema[order[k]][l]) /\ extrema[order[k]][l] \in Cat!Index
          BY <2>1, <3>1, <3>7, <5>1
        <5>3. b # None /\ AtLeast(l, b, i)
          BY <3>5, <5>2
        <5>4. b \in Cat!Index /\ i \in Cat!Index
          BY <3>1, <3>3, <3>4, <5>2, <5>3
        <5> QED BY <5>2, <5>3, <5>4, AtLeastTransitive
      <4> QED BY <4>1, <4>2
    <3> QED BY <3>1, <3>3, <3>4, <3>6, <3>7 DEF b
  <2> QED BY <2>2, <2>3
<1>5. ASSUME NEW m \in Nat, Best(m) PROVE Best(m + 1)
  <2> SUFFICES ASSUME m + 1 \in 1 .. count PROVE Best(m + 1)
    OBVIOUS
  <2>1. f[m + 1] \in [AllLabels -> Cat!Index \union {None}]
    <3>1. CASE m = 0
      BY <1>2, <3>1
    <3>2. CASE m # 0
      <4>1. DOMAIN f[m + 1] = AllLabels
            /\ f[m + 1] = [l \in AllLabels |-> f[m + 1][l]]
        <5>1. m + 1 # 1
          BY <3>2
        <5> QED BY <1>2, <5>1
      <4>2. \A l \in AllLabels : f[m + 1][l] \in Cat!Index \union {None}
        <5> HIDE DEF Best
        <5> QED BY <1>4, <1>5
      <4> QED BY <4>1, <4>2
    <3> QED BY <3>1, <3>2
  <2>2. \A l \in AllLabels :
           /\ \E k \in 1 .. m + 1 : f[m + 1][l] = extrema[order[k]][l]
           /\ \A k \in 1 .. m + 1 : extrema[order[k]][l] # None =>
                f[m + 1][l] # None /\ AtLeast(l, f[m + 1][l], extrema[order[k]][l])
    <3> HIDE DEF Best
    <3> QED BY <1>4, <1>5
  <2> QED BY <2>1, <2>2
<1>6. Nat \subseteq Ns
  <2>1. 0 \in Ns
    <3> HIDE DEF Best
    <3> QED BY <1>3
  <2>2. \A k \in Nat : k \in Ns => k + 1 \in Ns
    <3> HIDE DEF Best
    <3> QED BY <1>5
  <2> HIDE DEF Ns
  <2> QED BY <2>1, <2>2, AllNaturals
<1> QED BY <1>6

LEMMA CombineExtremaKeeps ==
  ASSUME FindInv, CombineExtrema
  PROVE  FindInv'
<1>1. /\ spc = "extrema" /\ spc' = "measure" /\ UNCHANGED <<find, bg_level, rms>> /\ fits' = fits
      /\ label_map' = label_map /\ pending = {} /\ pending' = 0 .. find.cols - 1
      /\ measures' = [t \in Threads |-> [l \in Labels |-> NoMeasure]]
      /\ label_extrema_id' = [l \in Labels |-> IF label_extrema'[l] = None THEN 0 ELSE l]
  BY DEF CombineExtrema, statvars
<1>2. CallFits' /\ LevelsOK' /\ ImageOK
  BY <1>1, CallKept, CallHasImage DEF FindInv, HasLabels
<1>3. Labels = AllLabels
  BY <1>1 DEF FindInv, LabelsOK, Labels, HasLabels
<1>4. /\ extrema \in [Threads -> [AllLabels -> Cat!Index \union {None}]]
      /\ \A t \in Threads, l \in AllLabels :
           extrema[t][l] # None => extrema[t][l] \in PixelsOf(l) /\ Peaks(l, extrema[t][l])
      /\ \A l \in AllLabels : \A i \in PixelsOf(l) : Peaks(l, i) =>
           \E t \in Threads : extrema[t][l] # None /\ AtLeast(l, extrema[t][l], i)
  BY <1>1 DEF FindInv, ExtremaOK
<1> DEFINE count == Cardinality(Threads)
<1>5. count \in Nat \ {0} /\ MainThread \in Threads
  <2>1. IsFiniteSet(Threads) /\ MainThread \in Threads
    BY SourceFindAssumption
  <2> QED BY <2>1, FS_CardinalityType, FS_EmptySet
<1>6. PICK order \in [1 .. count -> Threads] :
        /\ \A t \in Threads : \E n \in 1 .. count : order[n] = t
        /\ label_extrema' = (CHOOSE f : IsBest(f, order))[count]
  <2>1. PICK order \in {f \in [1 .. count -> Threads] :
                          f[1] = MainThread /\ \A t \in Threads : \E n \in DOMAIN f : f[n] = t} :
          label_extrema' = (CHOOSE f : IsBest(f, order))[count]
    BY DEF CombineExtrema, IsBest
  <2> HIDE DEF count
  <2> QED BY <2>1
<1> HIDE DEF count
<1> DEFINE f == CHOOSE g : IsBest(g, order)
           x == label_extrema'
<1>7. IsBest(f, order)
  BY <1>5, BestExists
<1> HIDE DEF f
<1>8. /\ x \in [AllLabels -> Cat!Index \union {None}]
      /\ \A l \in AllLabels :
           /\ \E t \in Threads : x[l] = extrema[t][l]
           /\ \A t \in Threads : extrema[t][l] # None => x[l] # None /\ AtLeast(l, x[l], extrema[t][l])
  <2>1. LabelsOK /\ HasLabels
    BY <1>1 DEF FindInv, HasLabels
  <2>2. count \in 1 .. count /\ x = f[count]
    BY <1>5, <1>6 DEF f
  <2>3. /\ x \in [AllLabels -> Cat!Index \union {None}]
        /\ \A l \in AllLabels :
             /\ \E k \in 1 .. count : x[l] = extrema[order[k]][l]
             /\ \A k \in 1 .. count : extrema[order[k]][l] # None =>
                  x[l] # None /\ AtLeast(l, x[l], extrema[order[k]][l])
    <3> HIDE DEF x
    <3>1. extrema \in [Threads -> [AllLabels -> Cat!Index \union {None}]]
      BY <1>4
    <3>2. \A n \in 1 .. count :
            /\ f[n] \in [AllLabels -> Cat!Index \union {None}]
            /\ \A l \in AllLabels :
                 /\ \E k \in 1 .. n : f[n][l] = extrema[order[k]][l]
                 /\ \A k \in 1 .. n : extrema[order[k]][l] # None =>
                      f[n][l] # None /\ AtLeast(l, f[n][l], extrema[order[k]][l])
      BY <1>2, <1>5, <1>7, <2>1, <3>1, BestOfThreads
    <3> QED BY <2>2, <3>2
  <2> HIDE DEF x
  <2> QED BY <1>6, <2>3
<1>9. ASSUME NEW l \in AllLabels
      PROVE  \/ x[l] = None /\ \A i \in PixelsOf(l) : ~ Peaks(l, i)
             \/ x[l] # None /\ ExtremumOf(l, x[l])
  <2> HIDE DEF x
  <2>1. CASE x[l] = None
    BY <1>4, <1>8, <2>1
  <2>2. CASE x[l] # None
    <3>1. PICK t \in Threads : x[l] = extrema[t][l]
      BY <1>8
    <3>2. x[l] \in PixelsOf(l) /\ Peaks(l, x[l]) /\ x[l] \in Cat!Index
      BY <1>4, <2>2, <3>1 DEF PixelsOf
    <3>3. ASSUME NEW j \in PixelsOf(l) PROVE AtLeast(l, x[l], j)
      <4>1. j \in Cat!Index
        BY DEF PixelsOf
      <4>2. CASE Peaks(l, j)
        <5>1. PICK u \in Threads : extrema[u][l] # None /\ AtLeast(l, extrema[u][l], j)
          BY <1>4, <4>2
        <5>2. AtLeast(l, x[l], extrema[u][l]) /\ extrema[u][l] \in Cat!Index
          BY <1>4, <1>8, <5>1 DEF PixelsOf
        <5> QED BY <1>2, <3>2, <4>1, <5>1, <5>2, AtLeastTransitive
      <4>3. CASE ~ Peaks(l, j)
        <5>1. /\ bg_level.num \in Int /\ bg_level.den \in Nat \ {0} /\ rms.num \in Int
              /\ rms.den \in Nat /\ find.detection_n_sigma \in Nat
          BY <1>1 DEF FindInv, LevelsOK, CallFits, HasLabels
        <5>2. ~ AtLeast(l, j, x[l])
          BY <1>2, <3>2, <4>1, <4>3, <5>1, PeaksMonotone
        <5>3. PICK s \in {1, -1} : s = Cat!SignOf(l)
          BY <1>2, FinalLabels
        <5>4. find.image[j] \in Int /\ find.image[x[l]] \in Int
          BY <1>2, <3>2, <4>1 DEF ImageOK
        <5> QED BY <5>2, <5>3, <5>4 DEF AtLeast
      <4> QED BY <4>2, <4>3
    <3> QED BY <2>2, <3>2, <3>3 DEF ExtremumOf
  <2> QED BY <2>1, <2>2
<1>10. CombinedOK'
  <2>1. \A l \in AllLabels : label_extrema_id'[l] = IF x[l] = None THEN 0 ELSE l
    BY <1>1, <1>3
  <2> HIDE DEF x
  <2>2. \A l \in AllLabels :
          \/ x[l] = None /\ label_extrema_id'[l] = 0 /\ \A i \in PixelsOf(l) : ~ Peaks(l, i)
          \/ x[l] # None /\ label_extrema_id'[l] = l /\ ExtremumOf(l, x[l])
    BY <1>9, <2>1
  <2>3. /\ AllLabels' = AllLabels /\ \A l : PixelsOf(l)' = PixelsOf(l)
        /\ \A l, i : Peaks(l, i)' = Peaks(l, i) /\ ExtremumOf(l, i)' = ExtremumOf(l, i)
    BY <1>1, SameView
  <2>4. ExtremumOf(0, 0)' = ExtremumOf(0, 0)
    BY <2>3
  <2> QED BY <2>2, <2>3 DEF CombinedOK, x
<1>11. MapOK'
  <2>1. DOMAIN label_map = Cat!Index /\ \A i \in Cat!Index : label_map[i] = LabelAt(i)
    BY <1>1 DEF FindInv, PixelsOK
  <2>2. \A i \in Cat!Index : Cat!ColOf(i) \in 0 .. find.cols - 1
    BY <1>2, Places DEF ImageOK
  <2>3. /\ Cat!Index' = Cat!Index
        /\ \A i : LabelAt(i)' = LabelAt(i) /\ Cat!ColOf(i)' = Cat!ColOf(i)
    BY <1>1, SameView
  <2> QED BY <1>1, <2>1, <2>2, <2>3 DEF MapOK
<1>12. MeasuresOK'
  <2>1. /\ Cat!Index' = Cat!Index /\ AllLabels' = AllLabels
        /\ \A l : PixelsOf(l)' = PixelsOf(l)
        /\ \A i : Cat!ColOf(i)' = Cat!ColOf(i)
        /\ \A box : BoxOK(box)' = BoxOK(box)
    BY <1>1, SameView
  <2>2. \A t \in Threads, l \in AllLabels : measures'[t][l] = NoMeasure
    BY <1>1, <1>3
  <2>3. NoMeasure \in Measure /\ BoxOK(NoMeasure.box) /\ NoMeasure.num_samples = 0
        /\ \A f1 \in Fields : NoMeasure[f1] = 0
    BY <1>2 DEF NoMeasure, Measure, BoxOK, Fields, ImageOK
  <2>4. measures' \in [Threads -> [AllLabels' -> BoxedMeasure']]
    <3>1. NoMeasure \in BoxedMeasure
      BY <2>3 DEF BoxedMeasure
    <3>2. measures' \in [Threads -> [AllLabels -> BoxedMeasure]]
      BY <1>1, <1>3, <3>1
    <3> QED BY <1>1, <3>2, SameView
  <2>5. ASSUME NEW l \in AllLabels PROVE Measured(l)' = {}
    <3>1. \A i \in PixelsOf(l) : Cat!ColOf(i) \in 0 .. find.cols - 1
      BY <1>2, Places DEF ImageOK, PixelsOf
    <3> QED BY <1>1, <2>1, <3>1 DEF Measured
  <2>6. ASSUME NEW l \in AllLabels, NEW g \in Fields \union {"num_samples"}
        PROVE  Total(g, l)' = 0
    <3> DEFINE w == [t \in Threads |-> measures'[t][l][g]]
    <3>1. Total(g, l)' = SumOf(w, Threads)
      BY DEF Total
    <3>2. \A t \in Threads : w[t] = 0
      BY <2>2, <2>3
    <3> HIDE DEF w
    <3>3. IsFiniteSet(Threads)
      BY SourceFindAssumption
    <3>4. SumOf(w, Threads) = 0 * Cardinality(Threads)
      BY <3>2, <3>3, SumConstant
    <3> QED BY <1>5, <3>1, <3>4 DEF count
  <2>7. Cardinality({}) = 0 /\ \A w : SumOf(w, {}) = 0
    BY FS_EmptySet, SumEmpty
  <2>8. \A l \in AllLabels :
          /\ Total("num_samples", l)' = Cardinality(Measured(l)')
          /\ \A g \in Fields : Total(g, l)' = SumOf(Weights(g)', Measured(l)')
          /\ \A i \in Measured(l)' : FALSE
    BY <2>5, <2>6, <2>7
  <2> QED BY <1>1, <2>1, <2>2, <2>3, <2>4, <2>8 DEF MeasuresOK
<1>13. LabelsOK'
  BY <1>1, <1>3, SameView DEF LabelsOK
<1>14. PixelsOK' /\ ExtremaOK' /\ LabelMeasuresOK' /\ IslandsOK'
  BY <1>1 DEF PixelsOK, ExtremaOK, LabelMeasuresOK, IslandsOK
<1>15. FitsOK'
  BY <1>1 DEF FindInv, FitsOK, FitCoversIsland
<1> QED BY <1>2, <1>10, <1>11, <1>12, <1>13, <1>14, <1>15 DEF FindInv

------------------------------------------------------------------------------
(* Measures of the labels.                                                  *)

\* One term of a sum changes.
LEMMA SumBump ==
  ASSUME NEW S, IsFiniteSet(S), NEW t \in S, NEW d \in Int, NEW f, NEW g,
         \A x \in S : f[x] \in Int /\ g[x] = IF x = t THEN f[x] + d ELSE f[x]
  PROVE  SumOf(g, S) = SumOf(f, S) + d
<1>1. IsFiniteSet(S \ {t})
  BY FS_Subset
<1>2. \A x \in S : f[x] \in Int /\ g[x] \in Int
  OBVIOUS
<1>3. SumOf(f, S) = f[t] + SumOf(f, S \ {t})
  BY <1>2, SumRemove
<1>4. SumOf(g, S) = g[t] + SumOf(g, S \ {t})
  BY <1>2, SumRemove
<1>5. SumOf(g, S \ {t}) = SumOf(f, S \ {t})
  BY <1>1, SumSame
<1>6. SumOf(f, S \ {t}) \in Int
  BY <1>1, <1>2, SumIsInt
<1> QED BY <1>3, <1>4, <1>5, <1>6

LEMMA MeasureColumnKeeps ==
  ASSUME FindInv, NEW t \in Threads, NEW c \in pending, MeasureColumn(t, c)
  PROVE  FindInv'
<1> DEFINE column == {i \in Cat!Index : Cat!ColOf(i) = c}
           fresh(l) == IF Strong(l) THEN PixelsOf(l) \cap column ELSE {}
           old(l) == measures[t][l]
           new(l) == AddAll(old(l), fresh(l))
<1>1. /\ spc = "measure" /\ spc' = "measure" /\ UNCHANGED <<find, bg_level, rms>> /\ fits' = fits
      /\ label_extrema_id' = label_extrema_id /\ label_extrema' = label_extrema
      /\ pending' = pending \ {c}
  BY DEF MeasureColumn, statvars
<1>2. CallFits' /\ LevelsOK' /\ ImageOK
  BY <1>1, CallKept, CallHasImage DEF FindInv, HasLabels
<1>3. Labels = AllLabels /\ \A l : Strong(l)' = Strong(l)
  BY <1>1 DEF FindInv, LabelsOK, Labels, HasLabels, Strong
<1>4. \A i \in Cat!Index :
        label_map[i] = IF /\ Cat!ColOf(i) \notin pending
                          /\ find.generate_labelmap /\ LabelAt(i) # 0 /\ ~ Strong(LabelAt(i))
                       THEN 0 ELSE LabelAt(i)
  BY <1>1 DEF FindInv, MapOK, HasExtrema
<1>5. \A i \in column : label_map[i] = LabelAt(i)
  BY <1>4
<1>6. \A l \in AllLabels :
        {i \in column : label_map[i] = l /\ label_extrema_id[l] # 0} = fresh(l)
  BY <1>5 DEF PixelsOf, Strong
<1>7. label_map' = [i \in Cat!Index |-> IF i \in column /\ Clears(i) THEN 0 ELSE label_map[i]]
  BY DEF MeasureColumn
<1>8. measures' = [measures EXCEPT ![t] = [l \in AllLabels |-> new(l)]]
  <2>1. measures' = [measures EXCEPT ![t] =
                       [l \in AllLabels |->
                          AddAll(old(l), {i \in column : label_map[i] = l /\ label_extrema_id[l] # 0})]]
    BY <1>3 DEF MeasureColumn, AddAll
  <2> HIDE DEF fresh
  <2> QED BY <1>6, <2>1
<1>9. /\ measures \in [Threads -> [AllLabels -> BoxedMeasure]]
      /\ \A l \in AllLabels :
           /\ Total("num_samples", l) = Cardinality(Measured(l))
           /\ \A f \in Fields : Total(f, l) = SumOf(Weights(f), Measured(l))
           /\ find.gaussian_fitting =>
                \A i \in Measured(l) : \E u \in Threads : Holds(measures[u][l].box, Coordinate(i))
  BY <1>1 DEF FindInv, MeasuresOK
<1>10. MapOK'
  <2>1. ASSUME NEW i \in Cat!Index
        PROVE  label_map'[i] = IF /\ Cat!ColOf(i) \notin pending \ {c}
                                  /\ find.generate_labelmap /\ LabelAt(i) # 0 /\ ~ Strong(LabelAt(i))
                               THEN 0 ELSE LabelAt(i)
    <3>1. CASE Cat!ColOf(i) = c
      <4>1. label_map[i] = LabelAt(i) /\ i \in column
        BY <1>5, <3>1
      <4>2. Clears(i) <=> find.generate_labelmap /\ LabelAt(i) # 0 /\ ~ Strong(LabelAt(i))
        BY <4>1 DEF Clears, Strong
      <4> QED BY <1>7, <3>1, <4>1, <4>2
    <3>2. CASE Cat!ColOf(i) # c
      BY <1>4, <1>7, <3>2
    <3> QED BY <3>1, <3>2
  <2>2. DOMAIN label_map' = Cat!Index
    BY <1>7
  <2>3. /\ Cat!Index' = Cat!Index
        /\ \A i : LabelAt(i)' = LabelAt(i) /\ Cat!ColOf(i)' = Cat!ColOf(i)
    BY <1>1, SameView
  <2>4. \A l : Strong(l)' <=> Strong(l)
    BY <1>3
  <2> HIDE DEF column
  <2> QED BY <1>1, <2>1, <2>2, <2>3, <2>4 DEF MapOK
<1>11. ASSUME NEW l \in AllLabels
       PROVE  /\ Measured(l)' = Measured(l) \union fresh(l)
              /\ Measured(l) \cap fresh(l) = {}
              /\ IsFiniteSet(Measured(l)) /\ IsFiniteSet(fresh(l))
              /\ Measured(l) \subseteq Cat!Index /\ fresh(l) \subseteq Cat!Index
              /\ old(l) \in BoxedMeasure /\ Added(new(l), old(l), fresh(l))
  <2>1. PixelsOf(l)' = PixelsOf(l) /\ \A i : Cat!ColOf(i)' = Cat!ColOf(i)
    BY <1>1, SameView
  <2>2. Strong(l)' <=> Strong(l)
    BY <1>3
  <2>3. Measured(l)' = IF Strong(l) THEN {i \in PixelsOf(l) : Cat!ColOf(i) \notin pending \ {c}} ELSE {}
    BY <1>1, <2>1, <2>2 DEF Measured
  <2>4. Measured(l) = IF Strong(l) THEN {i \in PixelsOf(l) : Cat!ColOf(i) \notin pending} ELSE {}
    BY <1>1 DEF Measured
  <2>5. PixelsOf(l) \subseteq Cat!Index
    BY DEF PixelsOf
  <2>6. Measured(l)' = Measured(l) \union fresh(l) /\ Measured(l) \cap fresh(l) = {}
    BY <2>3, <2>4, <2>5
  <2>7. Measured(l) \subseteq Cat!Index /\ fresh(l) \subseteq Cat!Index
    BY <2>4, <2>5
  <2>8. old(l) \in BoxedMeasure
    BY <1>9
  <2> HIDE DEF old, fresh
  <2>9. IsFiniteSet(Measured(l)) /\ IsFiniteSet(fresh(l))
    BY <1>2, <2>7, IndexFinite, FS_Subset
  <2>10. Added(new(l), old(l), fresh(l))
    BY <1>2, <2>7, <2>8, MeasureAdds
  <2> QED BY <2>6, <2>7, <2>8, <2>9, <2>10
<1>12. measures' \in [Threads -> [AllLabels -> BoxedMeasure]]
  <2>1. [l \in AllLabels |-> new(l)] \in [AllLabels -> BoxedMeasure]
    <3> HIDE DEF new
    <3> QED BY <1>11 DEF Added
  <2> HIDE DEF new
  <2> QED BY <1>8, <1>9, <2>1
<1>13. \A u \in Threads, l \in AllLabels :
         measures'[u][l] = IF u = t THEN new(l) ELSE measures[u][l]
  <2> HIDE DEF new
  <2> QED BY <1>8, <1>9
<1> HIDE DEF new
<1>14. ASSUME NEW l \in AllLabels, NEW g, NEW d \in Int, new(l)[g] = old(l)[g] + d,
              \A u \in Threads : measures[u][l][g] \in Int
       PROVE  Total(g, l)' = Total(g, l) + d
  <2> DEFINE v == [u \in Threads |-> measures[u][l][g]]
             w == [u \in Threads |-> measures'[u][l][g]]
  <2>1. Total(g, l) = SumOf(v, Threads) /\ Total(g, l)' = SumOf(w, Threads)
    BY DEF Total
  <2>2. \A u \in Threads : v[u] \in Int /\ w[u] = IF u = t THEN v[u] + d ELSE v[u]
    BY <1>13, <1>14
  <2>3. IsFiniteSet(Threads)
    BY SourceFindAssumption
  <2> HIDE DEF v, w
  <2>4. SumOf(w, Threads) = SumOf(v, Threads) + d
    BY <2>2, <2>3, SumBump
  <2> QED BY <2>1, <2>4
<1>15. ASSUME NEW l \in AllLabels, NEW u \in Threads
       PROVE  /\ measures[u][l].num_samples \in Int /\ \A f \in Fields : measures[u][l][f] \in Int
  <2>1. measures[u][l] \in Measure
    BY <1>9 DEF BoxedMeasure
  <2> QED BY <2>1 DEF Measure, Fields
<1> HIDE DEF fresh
<1>16. ASSUME NEW l \in AllLabels
       PROVE  Total("num_samples", l)' = Cardinality(Measured(l)')
  <2>1. Cardinality(Measured(l)) \in Nat /\ Cardinality(fresh(l)) \in Nat
    BY <1>11, FS_CardinalityType
  <2>2. Cardinality(Measured(l) \union fresh(l)) = Cardinality(Measured(l)) + Cardinality(fresh(l))
    <3>1. PICK A, B : A = Measured(l) /\ B = fresh(l)
      OBVIOUS
    <3>2. IsFiniteSet(A) /\ IsFiniteSet(B) /\ A \cap B = {}
      BY <1>11, <3>1
    <3>3. Cardinality(A \union B) = Cardinality(A) + Cardinality(B) - Cardinality(A \cap B)
      BY <3>2, FS_Union
    <3>4. Cardinality(A \cap B) = 0
      BY <3>2, FS_EmptySet
    <3> QED BY <2>1, <3>1, <3>3, <3>4
  <2>3. new(l)["num_samples"] = old(l)["num_samples"] + Cardinality(fresh(l))
    BY <1>11 DEF Added
  <2>4. Total("num_samples", l)' = Total("num_samples", l) + Cardinality(fresh(l))
    BY <1>14, <1>15, <2>1, <2>3
  <2> QED BY <1>9, <1>11, <2>2, <2>4
<1>17. ASSUME NEW l \in AllLabels, NEW f \in Fields
       PROVE  Total(f, l)' = SumOf(Weights(f), Measured(l)')
  <2>1. \A i \in Measured(l) \union fresh(l) : Weights(f)[i] \in Int
    BY <1>2, <1>11, WeightIsInt
  <2>2. SumOf(Weights(f), Measured(l) \union fresh(l)) =
          SumOf(Weights(f), Measured(l)) + SumOf(Weights(f), fresh(l))
    BY <1>11, <2>1, SumUnion
  <2>3. SumOf(Weights(f), fresh(l)) \in Int
    BY <1>11, <2>1, SumIsInt
  <2>4. new(l)[f] = old(l)[f] + SumOf(Weights(f), fresh(l))
    BY <1>11 DEF Added
  <2>5. Total(f, l)' = Total(f, l) + SumOf(Weights(f), fresh(l))
    BY <1>14, <1>15, <2>3, <2>4
  <2> QED BY <1>9, <1>11, <2>2, <2>5
<1>18. ASSUME NEW l \in AllLabels, find.gaussian_fitting, NEW i \in Measured(l)'
       PROVE  \E u \in Threads : Holds(measures'[u][l].box, Coordinate(i))
  <2>1. i \in Measured(l) \union fresh(l) /\ i \in Cat!Index
    BY <1>11, <1>18
  <2>2. CASE i \in fresh(l)
    <3>1. Holds(new(l).box, Coordinate(i))
      BY <1>11, <1>18, <2>2 DEF Added
    <3> QED BY <1>13, <3>1
  <2>3. CASE i \in Measured(l)
    <3>1. PICK u \in Threads : Holds(measures[u][l].box, Coordinate(i))
      BY <1>9, <1>18, <2>3
    <3>2. Coordinate(i) \in [x : Int, y : Int]
      <4>1. Coordinate(i).x \in Int /\ Coordinate(i).y \in Int
        BY <1>2, <2>1, Coordinates
      <4> QED BY <4>1 DEF Coordinate
    <3>3. CASE u = t
      <4>1. Holds(new(l).box, Coordinate(i))
        BY <1>11, <3>1, <3>2, <3>3 DEF Added
      <4> QED BY <1>13, <4>1
    <3>4. CASE u # t
      BY <1>13, <3>1, <3>4
    <3> QED BY <3>3, <3>4
  <2> QED BY <2>1, <2>2, <2>3
<1>19. MeasuresOK'
  <2>1. /\ AllLabels' = AllLabels /\ BoxedMeasure' = BoxedMeasure
        /\ \A f : Weights(f)' = Weights(f)
        /\ \A i : Coordinate(i)' = Coordinate(i)
    BY <1>1, SameView
  <2>2. \A l \in AllLabels :
          /\ Total("num_samples", l)' = Cardinality(Measured(l)')
          /\ \A f \in Fields : Total(f, l)' = SumOf(Weights(f)', Measured(l)')
    BY <1>16, <1>17, <2>1
  <2>3. \A l \in AllLabels : find.gaussian_fitting' =>
          \A i \in Measured(l)' : \E u \in Threads : Holds(measures'[u][l].box, Coordinate(i)')
    BY <1>1, <1>18, <2>1
  <2> QED BY <1>12, <2>1, <2>2, <2>3 DEF MeasuresOK, Holds
<1>20. CombinedOK'
  <2>1. \A l \in AllLabels :
          \/ label_extrema[l] = None /\ label_extrema_id[l] = 0 /\ \A i \in PixelsOf(l) : ~ Peaks(l, i)
          \/ label_extrema[l] # None /\ label_extrema_id[l] = l /\ ExtremumOf(l, label_extrema[l])
    BY <1>1 DEF FindInv, CombinedOK, HasExtrema
  <2>2. /\ AllLabels' = AllLabels /\ \A l : PixelsOf(l)' = PixelsOf(l)
        /\ \A l, i : Peaks(l, i)' = Peaks(l, i) /\ ExtremumOf(l, i)' = ExtremumOf(l, i)
    BY <1>1, SameView
  <2> QED BY <1>1, <2>1, <2>2 DEF CombinedOK
<1>21. LabelsOK'
  BY <1>1, SameView DEF FindInv, LabelsOK, HasLabels
<1>22. PixelsOK' /\ ExtremaOK' /\ LabelMeasuresOK' /\ IslandsOK'
  BY <1>1 DEF PixelsOK, ExtremaOK, LabelMeasuresOK, IslandsOK
<1>23. FitsOK'
  BY <1>1 DEF FindInv, FitsOK, FitCoversIsland
<1> QED BY <1>2, <1>10, <1>19, <1>20, <1>21, <1>22, <1>23 DEF FindInv

LEMMA CombineMeasuresKeeps ==
  ASSUME FindInv, CombineMeasures
  PROVE  FindInv'
<1>1. /\ spc = "measure" /\ spc' = "islands" /\ UNCHANGED <<find, bg_level, rms>> /\ fits' = fits
      /\ label_extrema_id' = label_extrema_id /\ label_extrema' = label_extrema
      /\ pending = {} /\ label_map' = label_map
      /\ label_measures' =
           [l \in Labels |->
              [num_samples |-> Total("num_samples", l),
               moments |-> [x |-> Total("x", l), y |-> Total("y", l), xx |-> Total("xx", l),
                            yy |-> Total("yy", l), xy |-> Total("xy", l), flux |-> Total("flux", l)],
               box |-> IF find.gaussian_fitting THEN CombinedBox(l) ELSE DefaultBox]]
  BY DEF CombineMeasures, statvars
<1>2. CallFits' /\ LevelsOK' /\ ImageOK
  BY <1>1, CallKept, CallHasImage DEF FindInv, HasLabels
<1>3. Labels = AllLabels /\ \A l : Strong(l)' = Strong(l)
  BY <1>1 DEF FindInv, LabelsOK, Labels, HasLabels, Strong
<1>4. /\ measures \in [Threads -> [AllLabels -> BoxedMeasure]]
      /\ \A l \in AllLabels :
           /\ Total("num_samples", l) = Cardinality(Measured(l))
           /\ \A f \in Fields : Total(f, l) = SumOf(Weights(f), Measured(l))
           /\ find.gaussian_fitting =>
                \A i \in Measured(l) : \E u \in Threads : Holds(measures[u][l].box, Coordinate(i))
  BY <1>1 DEF FindInv, MeasuresOK
<1>5. \A l : Strong(l) => Measured(l) = PixelsOf(l)
  BY <1>1 DEF Measured
<1>6. ASSUME NEW l \in AllLabels
      PROVE  /\ BoxOK(CombinedBox(l))
             /\ \A t \in Threads, p \in [x : Int, y : Int] :
                  Holds(measures[t][l].box, p) => Holds(CombinedBox(l), p)
  <2> DEFINE boxes == {measures[t][l].box : t \in Threads}
             tops == {b.top : b \in boxes}
             bottoms == {b.bottom : b \in boxes}
             lefts == {b.left : b \in boxes}
             rights == {b.right : b \in boxes}
             C == CombinedBox(l)
  <2>1. \A t \in Threads : measures[t][l].box \in [top : Int, bottom : Int, left : Int, right : Int]
                           /\ BoxOK(measures[t][l].box)
    BY <1>4 DEF BoxedMeasure, Measure
  <2>2. \A b \in boxes : /\ b \in [top : Int, bottom : Int, left : Int, right : Int] /\ BoxOK(b)
    BY <2>1
  <2>3. boxes # {}
    BY SourceFindAssumption
  <2>4. C = [top |-> Min(tops), bottom |-> Max(bottoms), left |-> Min(lefts), right |-> Max(rights)]
    BY DEF CombinedBox
  <2>5. \A t \in Threads : measures[t][l].box \in boxes
    OBVIOUS
  <2>6. PICK m \in Nat, n \in Nat : m = find.rows /\ n = find.cols
    BY <1>2 DEF ImageOK
  <2> HIDE DEF boxes
  <2>7. /\ tops \subseteq 0 .. m /\ tops # {} /\ bottoms \subseteq -1 .. m - 1 /\ bottoms # {}
        /\ lefts \subseteq 0 .. n /\ lefts # {} /\ rights \subseteq -1 .. n - 1 /\ rights # {}
    BY <2>2, <2>3, <2>6 DEF BoxOK
  <2>8. \A b \in boxes : b.top \in tops /\ b.bottom \in bottoms /\ b.left \in lefts /\ b.right \in rights
    OBVIOUS
  <2> HIDE DEF tops, bottoms, lefts, rights, C
  <2>9. PICK top \in tops : \A v \in tops : top <= v
    <3>1. PICK z \in Int : z = 0
      OBVIOUS
    <3>2. tops \subseteq Int /\ \A v \in tops : z <= v
      BY <2>6, <2>7, <3>1
    <3> QED BY <2>7, <3>2, Lowest
  <2>10. PICK left \in lefts : \A v \in lefts : left <= v
    <3>1. PICK z \in Int : z = 0
      OBVIOUS
    <3>2. lefts \subseteq Int /\ \A v \in lefts : z <= v
      BY <2>6, <2>7, <3>1
    <3> QED BY <2>7, <3>2, Lowest
  <2>11. PICK bottom \in bottoms : \A v \in bottoms : v <= bottom
    <3>1. bottoms \subseteq Int /\ m \in Int /\ \A v \in bottoms : v <= m
      BY <2>6, <2>7
    <3> QED BY <2>7, <3>1, Greatest
  <2>12. PICK right \in rights : \A v \in rights : v <= right
    <3>1. rights \subseteq Int /\ n \in Int /\ \A v \in rights : v <= n
      BY <2>6, <2>7
    <3> QED BY <2>7, <3>1, Greatest
  <2>13. tops \subseteq Int /\ bottoms \subseteq Int /\ lefts \subseteq Int /\ rights \subseteq Int
    BY <2>6, <2>7
  <2>14. C.top = top /\ C.bottom = bottom /\ C.left = left /\ C.right = right
    <3>1. Min(tops) = top
      BY <2>9, <2>13, MinIs
    <3>2. Max(bottoms) = bottom
      BY <2>11, <2>13, MaxIs
    <3>3. Min(lefts) = left
      BY <2>10, <2>13, MinIs
    <3>4. Max(rights) = right
      BY <2>12, <2>13, MaxIs
    <3> QED BY <2>4, <3>1, <3>2, <3>3, <3>4
  <2>15. BoxOK(C)
    BY <2>6, <2>7, <2>14 DEF BoxOK
  <2>16. ASSUME NEW b \in boxes, NEW p \in [x : Int, y : Int], Holds(b, p)
         PROVE  Holds(C, p)
    <3>1. b.left \in Int /\ b.right \in Int /\ b.top \in Int /\ b.bottom \in Int
      BY <2>8, <2>13
    <3>2. left <= b.left /\ b.right <= right /\ top <= b.top /\ b.bottom <= bottom
      BY <2>8, <2>9, <2>10, <2>11, <2>12
    <3>3. p.x \in Int /\ p.y \in Int /\ left \in Int /\ right \in Int /\ top \in Int /\ bottom \in Int
      BY <2>13
    <3> QED BY <2>14, <2>16, <3>1, <3>2, <3>3 DEF Holds
  <2> QED BY <2>5, <2>15, <2>16 DEF C
<1>7. LabelMeasuresOK'
  <2>1. /\ AllLabels' = AllLabels /\ \A l : PixelsOf(l)' = PixelsOf(l)
        /\ \A f : Weights(f)' = Weights(f)
        /\ \A i : Coordinate(i)' = Coordinate(i)
        /\ \A box : BoxOK(box)' = BoxOK(box)
    BY <1>1, SameView
  <2>2. ASSUME NEW l \in AllLabels, Strong(l)
        PROVE  LET n == label_measures'[l]
               IN  /\ n.num_samples = Cardinality(PixelsOf(l))
                   /\ n.moments =
                        [x |-> SumOf(Weights("x"), PixelsOf(l)), y |-> SumOf(Weights("y"), PixelsOf(l)),
                         xx |-> SumOf(Weights("xx"), PixelsOf(l)), yy |-> SumOf(Weights("yy"), PixelsOf(l)),
                         xy |-> SumOf(Weights("xy"), PixelsOf(l)),
                         flux |-> SumOf(Weights("flux"), PixelsOf(l))]
                   /\ find.gaussian_fitting => n.box = CombinedBox(l)
    <3>1. label_measures'[l] =
            [num_samples |-> Total("num_samples", l),
             moments |-> [x |-> Total("x", l), y |-> Total("y", l), xx |-> Total("xx", l),
                          yy |-> Total("yy", l), xy |-> Total("xy", l), flux |-> Total("flux", l)],
             box |-> IF find.gaussian_fitting THEN CombinedBox(l) ELSE DefaultBox]
      BY <1>1, <1>3
    <3>2. /\ Total("num_samples", l) = Cardinality(PixelsOf(l))
          /\ \A f \in Fields : Total(f, l) = SumOf(Weights(f), PixelsOf(l))
      BY <1>4, <1>5, <2>2
    <3> QED BY <3>1, <3>2 DEF Fields
  <2>3. ASSUME NEW l \in AllLabels, Strong(l), find.gaussian_fitting
        PROVE  \A i \in PixelsOf(l) : Holds(CombinedBox(l), Coordinate(i))
    <3> TAKE i \in PixelsOf(l)
    <3>1. PICK t \in Threads : Holds(measures[t][l].box, Coordinate(i))
      BY <1>4, <1>5, <2>3
    <3>2. Coordinate(i).x \in Int /\ Coordinate(i).y \in Int
      BY <1>2, Coordinates DEF PixelsOf
    <3>3. Coordinate(i) \in [x : Int, y : Int]
      BY <3>2 DEF Coordinate
    <3> QED BY <1>6, <3>1, <3>3
  <2>4. \A l : Strong(l)' <=> Strong(l)
    BY <1>3
  <2>5. ASSUME NEW l \in AllLabels, Strong(l), find.gaussian_fitting
        PROVE  /\ BoxOK(label_measures'[l].box)
               /\ \A i \in PixelsOf(l) : Holds(label_measures'[l].box, Coordinate(i))
    BY <1>6, <2>2, <2>3, <2>5
  <2>6. \A l \in AllLabels : Strong(l) =>
          LET n == label_measures'[l]
          IN  /\ n.num_samples = Cardinality(PixelsOf(l)')
              /\ n.moments =
                   [x |-> SumOf(Weights("x")', PixelsOf(l)'), y |-> SumOf(Weights("y")', PixelsOf(l)'),
                    xx |-> SumOf(Weights("xx")', PixelsOf(l)'), yy |-> SumOf(Weights("yy")', PixelsOf(l)'),
                    xy |-> SumOf(Weights("xy")', PixelsOf(l)'),
                    flux |-> SumOf(Weights("flux")', PixelsOf(l)')]
              /\ find.gaussian_fitting' =>
                   BoxOK(n.box) /\ \A i \in PixelsOf(l)' : Holds(n.box, Coordinate(i)')
    BY <1>1, <2>1, <2>2, <2>5
  <2> QED BY <1>1, <2>1, <2>4, <2>6 DEF LabelMeasuresOK, Holds, BoxOK
<1>8. MapOK'
  <2>1. DOMAIN label_map = Cat!Index
        /\ \A i \in Cat!Index :
             label_map[i] = IF find.generate_labelmap /\ LabelAt(i) # 0 /\ ~ Strong(LabelAt(i))
                            THEN 0 ELSE LabelAt(i)
    BY <1>1 DEF FindInv, MapOK, HasExtrema
  <2>2. Cat!Index' = Cat!Index /\ \A i : LabelAt(i)' = LabelAt(i)
    BY <1>1, SameView
  <2>3. \A l : Strong(l)' <=> Strong(l)
    BY <1>3
  <2> QED BY <1>1, <2>1, <2>2, <2>3 DEF MapOK
<1>9. CombinedOK'
  <2>1. \A l \in AllLabels :
          \/ label_extrema[l] = None /\ label_extrema_id[l] = 0 /\ \A i \in PixelsOf(l) : ~ Peaks(l, i)
          \/ label_extrema[l] # None /\ label_extrema_id[l] = l /\ ExtremumOf(l, label_extrema[l])
    BY <1>1 DEF FindInv, CombinedOK, HasExtrema
  <2>2. /\ AllLabels' = AllLabels /\ \A l : PixelsOf(l)' = PixelsOf(l)
        /\ \A l, i : Peaks(l, i)' = Peaks(l, i) /\ ExtremumOf(l, i)' = ExtremumOf(l, i)
    BY <1>1, SameView
  <2> QED BY <1>1, <2>1, <2>2 DEF CombinedOK
<1>10. LabelsOK'
  BY <1>1, SameView DEF FindInv, LabelsOK, HasLabels
<1>11. PixelsOK' /\ ExtremaOK' /\ MeasuresOK' /\ IslandsOK'
  BY <1>1 DEF PixelsOK, ExtremaOK, MeasuresOK, IslandsOK
<1>12. FitsOK'
  BY <1>1 DEF FindInv, FitsOK, FitCoversIsland
<1> QED BY <1>2, <1>7, <1>8, <1>9, <1>10, <1>11, <1>12 DEF FindInv

------------------------------------------------------------------------------
(* Islands.                                                                 *)

\* The positions of labels in their order.
LEMMA Ranking ==
  ASSUME NEW S, IsFiniteSet(S), S \subseteq Int \ {0}
  PROVE  LET position(l) == Cardinality({m \in S : m = l \/ Cat!Precedes(m, l)})
         IN  /\ \A l \in S : position(l) \in 1 .. Cardinality(S)
             /\ \A l, m \in S : Cat!Precedes(l, m) => position(l) < position(m)
             /\ \A l, m \in S : l = m \/ Cat!Precedes(l, m) \/ Cat!Precedes(m, l)
             /\ \A n \in 1 .. Cardinality(S) : \E l \in S : position(l) = n
<1> DEFINE before(l) == {m \in S : m = l \/ Cat!Precedes(m, l)}
           position(l) == Cardinality(before(l))
           p == [l \in S |-> position(l)]
           count == Cardinality(S)
<1>1. ASSUME NEW l \in S, NEW m \in S, NEW k \in S
      PROVE  /\ l = m \/ Cat!Precedes(l, m) \/ Cat!Precedes(m, l)
             /\ ~ Cat!Precedes(l, l)
             /\ Cat!Precedes(l, m) => ~ Cat!Precedes(m, l)
             /\ Cat!Precedes(l, m) /\ Cat!Precedes(m, k) => Cat!Precedes(l, k)
  BY DEF Cat!Precedes, Cat!SignOf
<1>2. ASSUME NEW l \in S
      PROVE  /\ IsFiniteSet(before(l)) /\ l \in before(l) /\ before(l) \subseteq S
             /\ position(l) \in 1 .. count
  <2>1. before(l) \in SUBSET S /\ l \in before(l)
    OBVIOUS
  <2> HIDE DEF before
  <2>2. /\ IsFiniteSet(before(l)) /\ Cardinality(before(l)) <= count
        /\ Cardinality(before(l)) \in Nat /\ count \in Nat
    BY <2>1, FS_Subset, FS_CardinalityType
  <2>3. Cardinality(before(l)) # 0
    BY <2>1, <2>2, FS_EmptySet
  <2> HIDE DEF count
  <2> QED BY <2>1, <2>2, <2>3
<1>3. ASSUME NEW l \in S, NEW m \in S, Cat!Precedes(l, m)
      PROVE  position(l) < position(m)
  <2>1. before(l) \subseteq before(m)
    BY <1>1, <1>3
  <2>2. m \in before(m) /\ m \notin before(l)
    BY <1>1, <1>3
  <2>3. /\ IsFiniteSet(before(m)) /\ before(l) \in SUBSET before(m) /\ before(l) # before(m)
        /\ position(l) \in Nat /\ position(m) \in Nat
    BY <1>2, <2>1, <2>2
  <2> HIDE DEF before
  <2>4. Cardinality(before(l)) <= Cardinality(before(m)) /\ Cardinality(before(l)) # Cardinality(before(m))
    BY <2>3, FS_Subset
  <2> QED BY <2>3, <2>4
<1> HIDE DEF before
<1>4. p \in Injection(S, 1 .. count)
  <2>1. p \in [S -> 1 .. count]
    BY <1>2
  <2>2. ASSUME NEW l \in S, NEW m \in S, p[l] = p[m] PROVE l = m
    <3>1. position(l) = position(m) /\ position(l) \in Int /\ position(m) \in Int
      BY <1>2, <2>2
    <3>2. l = m \/ Cat!Precedes(l, m) \/ Cat!Precedes(m, l)
      BY <1>1
    <3>3. ~ Cat!Precedes(l, m) /\ ~ Cat!Precedes(m, l)
      <4> HIDE DEF position
      <4> QED BY <1>3, <3>1
    <3> QED BY <3>2, <3>3
  <2> HIDE DEF p
  <2> QED BY <2>1, <2>2 DEF Injection, IsInjective
<1>5. count \in Nat
  BY FS_CardinalityType
<1>6. IsFiniteSet(1 .. count) /\ Cardinality(1 .. count) = count
  BY <1>5, FS_Interval
<1>7. p \in Surjection(S, 1 .. count)
  <2> HIDE DEF p
  <2> QED BY <1>4, <1>6, FS_Injection DEF count
<1>8. \A n \in 1 .. count : \E l \in S : position(l) = n
  <2>1. \A n \in 1 .. count : \E l \in S : p[l] = n
    <3> HIDE DEF p
    <3> QED BY <1>7 DEF Surjection
  <2> QED BY <2>1
<1> HIDE DEF position
<1> QED BY <1>1, <1>2, <1>3, <1>8 DEF position, before, count

LEMMA SameIslands ==
  ASSUME UNCHANGED <<find, bg_level, rms, label_extrema, label_extrema_id, label_measures>>
  PROVE  /\ Listed' = Listed
         /\ \A l : IslandOf(l)' = IslandOf(l)
         /\ \A l, m : Cat!Precedes(l, m)' = Cat!Precedes(l, m)
         /\ {IslandOf(l) : l \in Listed}' = {IslandOf(l) : l \in Listed}
<1>1. Listed' = Listed
  BY DEF Listed, Labels
<1>2. \A l : IslandOf(l)' = IslandOf(l)
  BY SameView DEF IslandOf
<1>3. \A l, m : Cat!Precedes(l, m)' = Cat!Precedes(l, m)
  BY DEF Cat!Precedes, Cat!SignOf
<1> QED BY <1>1, <1>2, <1>3

\* What is known of a label at the end.
LEMMA LabelFacts ==
  ASSUME FindInv, HasExtrema
  PROVE  /\ Labels = AllLabels /\ AllLabels \subseteq Int \ {0} /\ IsFiniteSet(AllLabels)
         /\ \A l \in AllLabels :
              /\ Strong(l) <=> \E i \in PixelsOf(l) : Peaks(l, i)
              /\ Strong(l) => label_extrema_id[l] = l /\ ExtremumOf(l, label_extrema[l])
<1>1. ImageOK /\ HasLabels
  BY CallHasImage DEF FindInv, HasExtrema, HasLabels
<1>2. Labels = AllLabels
  BY <1>1 DEF FindInv, LabelsOK, Labels
<1>3. AllLabels \subseteq Int \ {0}
  BY <1>1, FinalLabels
<1>4. IsFiniteSet(AllLabels)
  <2>1. PICK a \in Int, b \in Int : a = -Cat!Labelled!Labelling.neg /\ b = Cat!Labelled!Labelling.pos
    BY <1>1, LabelRange DEF ImageOK
  <2>2. IsFiniteSet(a .. b)
    BY FS_Interval
  <2>3. AllLabels \in SUBSET (a .. b)
    BY <2>1 DEF AllLabels
  <2> QED BY <2>2, <2>3, FS_Subset
<1>5. \A l \in AllLabels :
        \/ label_extrema[l] = None /\ label_extrema_id[l] = 0 /\ \A i \in PixelsOf(l) : ~ Peaks(l, i)
        \/ label_extrema[l] # None /\ label_extrema_id[l] = l /\ ExtremumOf(l, label_extrema[l])
  BY DEF FindInv, CombinedOK
<1>6. \A l, i : ExtremumOf(l, i) => i \in PixelsOf(l) /\ Peaks(l, i)
  BY DEF ExtremumOf
<1> QED BY <1>2, <1>3, <1>4, <1>5, <1>6 DEF Strong

LEMMA ListedFacts ==
  ASSUME FindInv, HasExtrema
  PROVE  /\ IsFiniteSet(Listed) /\ Listed \subseteq AllLabels /\ Cardinality(Listed) \in Nat
         /\ \A l \in Listed : Strong(l) /\ label_extrema_id[l] = l /\ IslandOf(l).label = l
<1>1. Listed \in SUBSET AllLabels /\ \A l \in Listed : Strong(l)
  BY LabelFacts DEF Listed, Strong
<1>2. IsFiniteSet(Listed)
  BY <1>1, LabelFacts, FS_Subset
<1> QED BY <1>1, <1>2, LabelFacts, FS_CardinalityType DEF IslandOf

LEMMA ListIslandsAnswers ==
  ASSUME FindInv, ListIslands
  PROVE  Answers(islands')
<1> DEFINE position(l) == Cardinality({m \in Listed : m = l \/ Cat!Precedes(m, l)})
           chosen(n) == CHOOSE l \in Listed : position(l) = n
           count == Cardinality(Listed)
<1>1. HasExtrema
  BY DEF ListIslands, HasExtrema
<1>2. /\ IsFiniteSet(Listed) /\ Listed \subseteq Int \ {0} /\ count \in Nat
      /\ \A l \in Listed : IslandOf(l).label = l
  BY <1>1, ListedFacts, LabelFacts
<1>3. islands' = [n \in 1 .. count |-> IslandOf(chosen(n))]
  BY DEF ListIslands
<1>4. /\ \A l \in Listed : position(l) \in 1 .. count
      /\ \A l, m \in Listed : Cat!Precedes(l, m) => position(l) < position(m)
      /\ \A l, m \in Listed : l = m \/ Cat!Precedes(l, m) \/ Cat!Precedes(m, l)
      /\ \A n \in 1 .. count : \E l \in Listed : position(l) = n
  BY <1>2, Ranking
<1> HIDE DEF position
<1>5. \A n \in 1 .. count : chosen(n) \in Listed /\ position(chosen(n)) = n
  BY <1>4
<1> HIDE DEF chosen, count
<1>6. islands' \in [1 .. count -> {IslandOf(l) : l \in Listed}]
  BY <1>3, <1>5
<1>7. \A n \in 1 .. count : islands'[n].label = chosen(n)
  BY <1>2, <1>3, <1>5
<1>8. ASSUME NEW m \in 1 .. count, NEW n \in 1 .. count, m < n
      PROVE  Cat!Precedes(chosen(m), chosen(n))
  <2>1. chosen(m) \in Listed /\ chosen(n) \in Listed
        /\ position(chosen(m)) = m /\ position(chosen(n)) = n
    BY <1>5
  <2>2. ~ n < m /\ m # n
    BY <1>2, <1>8
  <2> QED BY <1>4, <2>1, <2>2
<1> QED BY <1>6, <1>7, <1>8 DEF Answers, count

LEMMA ListIslandsKeeps ==
  ASSUME FindInv, ListIslands
  PROVE  FindInv'
<1>1. /\ spc = "islands" /\ spc' \in {"fit", "done"} /\ UNCHANGED <<find, bg_level, rms>>
      /\ fits' = fits /\ label_map' = label_map
      /\ label_extrema_id' = label_extrema_id /\ label_extrema' = label_extrema
      /\ label_measures' = label_measures
      /\ spc' = "fit" => find.gaussian_fitting /\ pending' = DOMAIN islands'
  BY DEF ListIslands, statvars
<1>2. CallFits' /\ LevelsOK' /\ ImageOK
  BY <1>1, CallKept, CallHasImage DEF FindInv, HasLabels
<1>3. \A l : Strong(l)' = Strong(l)
  BY <1>1 DEF Strong
<1>4. LabelMeasuresOK'
  <2>1. /\ AllLabels' = AllLabels /\ \A l : PixelsOf(l)' = PixelsOf(l)
        /\ \A f : Weights(f)' = Weights(f)
        /\ \A i : Coordinate(i)' = Coordinate(i)
    BY <1>1, SameView
  <2>2. \A l : Strong(l)' <=> Strong(l)
    BY <1>3
  <2>3. \A l \in AllLabels : Strong(l) =>
          LET n == label_measures[l]
          IN  /\ n.num_samples = Cardinality(PixelsOf(l))
              /\ n.moments =
                   [x |-> SumOf(Weights("x"), PixelsOf(l)), y |-> SumOf(Weights("y"), PixelsOf(l)),
                    xx |-> SumOf(Weights("xx"), PixelsOf(l)), yy |-> SumOf(Weights("yy"), PixelsOf(l)),
                    xy |-> SumOf(Weights("xy"), PixelsOf(l)),
                    flux |-> SumOf(Weights("flux"), PixelsOf(l))]
              /\ find.gaussian_fitting =>
                   BoxOK(n.box) /\ \A i \in PixelsOf(l) : Holds(n.box, Coordinate(i))
    BY <1>1 DEF FindInv, LabelMeasuresOK
  <2> QED BY <1>1, <2>1, <2>2, <2>3 DEF LabelMeasuresOK, Holds, BoxOK
<1>5. MapOK'
  <2>1. DOMAIN label_map = Cat!Index
        /\ \A i \in Cat!Index :
             label_map[i] = IF find.generate_labelmap /\ LabelAt(i) # 0 /\ ~ Strong(LabelAt(i))
                            THEN 0 ELSE LabelAt(i)
    BY <1>1 DEF FindInv, MapOK, HasExtrema
  <2>2. Cat!Index' = Cat!Index /\ \A i : LabelAt(i)' = LabelAt(i)
    BY <1>1, SameView
  <2>3. \A l : Strong(l)' <=> Strong(l)
    BY <1>3
  <2> QED BY <1>1, <2>1, <2>2, <2>3 DEF MapOK
<1>6. CombinedOK'
  <2>1. \A l \in AllLabels :
          \/ label_extrema[l] = None /\ label_extrema_id[l] = 0 /\ \A i \in PixelsOf(l) : ~ Peaks(l, i)
          \/ label_extrema[l] # None /\ label_extrema_id[l] = l /\ ExtremumOf(l, label_extrema[l])
    BY <1>1 DEF FindInv, CombinedOK, HasExtrema
  <2>2. /\ AllLabels' = AllLabels /\ \A l : PixelsOf(l)' = PixelsOf(l)
        /\ \A l, i : Peaks(l, i)' = Peaks(l, i) /\ ExtremumOf(l, i)' = ExtremumOf(l, i)
    BY <1>1, SameView
  <2> QED BY <1>1, <2>1, <2>2 DEF CombinedOK
<1>7. LabelsOK'
  BY <1>1, SameView DEF FindInv, LabelsOK, HasLabels
<1>8. PixelsOK' /\ ExtremaOK' /\ MeasuresOK'
  BY <1>1 DEF PixelsOK, ExtremaOK, MeasuresOK
<1>9. IslandsOK'
  <2>1. Answers(islands')
    BY ListIslandsAnswers
  <2>2. /\ Listed' = Listed /\ \A l, m : Cat!Precedes(l, m)' = Cat!Precedes(l, m)
        /\ {IslandOf(l) : l \in Listed}' = {IslandOf(l) : l \in Listed}
    BY <1>1, SameIslands
  <2> QED BY <2>1, <2>2 DEF IslandsOK, Answers
<1>10. FitsOK'
  <2>1. fits = <<>>
    BY <1>1 DEF FindInv, FitsOK
  <2> QED BY <1>1, <2>1 DEF FitsOK, FitCoversIsland
<1> QED BY <1>2, <1>4, <1>5, <1>6, <1>7, <1>8, <1>9, <1>10 DEF FindInv

\* The moments of a region in the catalogue.
LEMMA MomentsAreSums ==
  ASSUME ImageOK, NEW S \in SUBSET Cat!Index
  PROVE  /\ Cat!MomentOf(S, LAMBDA x, y : x) = SumOf(Weights("x"), S)
         /\ Cat!MomentOf(S, LAMBDA x, y : y) = SumOf(Weights("y"), S)
         /\ Cat!MomentOf(S, LAMBDA x, y : x * x) = SumOf(Weights("xx"), S)
         /\ Cat!MomentOf(S, LAMBDA x, y : y * y) = SumOf(Weights("yy"), S)
         /\ Cat!MomentOf(S, LAMBDA x, y : x * y) = SumOf(Weights("xy"), S)
         /\ Cat!MomentOf(S, LAMBDA x, y : 1) = SumOf(Weights("flux"), S)
<1> DEFINE X(i) == Cat!SkyCol(Cat!ColOf(i))
           Y(i) == Cat!SkyRow(Cat!RowOf(i))
           value(i) == find.image[i]
           wx == [i \in S |-> X(i) * value(i)]
           wy == [i \in S |-> Y(i) * value(i)]
           wxx == [i \in S |-> (X(i) * X(i)) * value(i)]
           wyy == [i \in S |-> (Y(i) * Y(i)) * value(i)]
           wxy == [i \in S |-> (X(i) * Y(i)) * value(i)]
           w1 == [i \in S |-> 1 * value(i)]
<1>1. \A w : Cat!SumOf(w, S) = SumOf(w, S)
  BY DEF Cat!SumOf, Cat!MapThenSumSet, Cat!MapThenFoldSet, SumOf, MapThenSumSet, MapThenFoldSet
<1>2. /\ Cat!MomentOf(S, LAMBDA x, y : x) = Cat!SumOf(wx, S)
      /\ Cat!MomentOf(S, LAMBDA x, y : y) = Cat!SumOf(wy, S)
      /\ Cat!MomentOf(S, LAMBDA x, y : x * x) = Cat!SumOf(wxx, S)
      /\ Cat!MomentOf(S, LAMBDA x, y : y * y) = Cat!SumOf(wyy, S)
      /\ Cat!MomentOf(S, LAMBDA x, y : x * y) = Cat!SumOf(wxy, S)
      /\ Cat!MomentOf(S, LAMBDA x, y : 1) = Cat!SumOf(w1, S)
  BY DEF Cat!MomentOf
<1>3. ASSUME NEW i \in S
      PROVE  /\ wx[i] = Weight("x", i) /\ wy[i] = Weight("y", i)
             /\ wxx[i] = Weight("xx", i) /\ wyy[i] = Weight("yy", i)
             /\ wxy[i] = Weight("xy", i) /\ w1[i] = Weight("flux", i)
  <2>1. Coordinate(i).x = X(i) /\ Coordinate(i).y = Y(i) /\ value(i) \in Int
    BY DEF Coordinate, ImageOK
  <2> HIDE DEF X, Y
  <2> QED BY <2>1 DEF Weight
<1>4. \A i \in S, f \in Fields : Weights(f)[i] = Weight(f, i) /\ Weight(f, i) \in Int
  BY WeightIsInt
<1>5. IsFiniteSet(S)
  BY IndexFinite, FS_Subset
<1>6. ASSUME NEW f \in Fields, NEW w, \A i \in S : w[i] = Weight(f, i)
      PROVE  SumOf(w, S) = SumOf(Weights(f), S)
  BY <1>4, <1>5, <1>6, SumSame
<1> HIDE DEF wx, wy, wxx, wyy, wxy, w1
<1>7. /\ SumOf(wx, S) = SumOf(Weights("x"), S) /\ SumOf(wy, S) = SumOf(Weights("y"), S)
      /\ SumOf(wxx, S) = SumOf(Weights("xx"), S) /\ SumOf(wyy, S) = SumOf(Weights("yy"), S)
      /\ SumOf(wxy, S) = SumOf(Weights("xy"), S) /\ SumOf(w1, S) = SumOf(Weights("flux"), S)
  BY <1>3, <1>6 DEF Fields
<1> QED BY <1>1, <1>2, <1>7

\* The region of a label.
Region(l) == [label |-> l, pixels |-> PixelsOf(l)]

LEMMA RegionsAre == Cat!Regions = {Region(l) : l \in AllLabels}
BY DEF Cat!Regions, Region, PixelsOf, LabelAt, AllLabels

LEMMA IslandIsEntry ==
  ASSUME FindInv, HasExtrema, spc # "measure", NEW l \in Listed
  PROVE  /\ Cat!Detected(Region(l))
         /\ label_extrema[l] \in Cat!Extrema(Region(l))
         /\ IslandOf(l) = Cat!Entry(Region(l), label_extrema[l])
<1>1. ImageOK
  BY CallHasImage DEF FindInv, HasExtrema
<1>2. l \in AllLabels /\ Strong(l) /\ label_extrema_id[l] = l
  BY ListedFacts
<1>3. ExtremumOf(l, label_extrema[l]) /\ \E i \in PixelsOf(l) : Peaks(l, i)
  BY <1>2, LabelFacts
<1>4. Cat!Detected(Region(l))
  BY <1>3 DEF Cat!Detected, Region, Peaks
<1>5. label_extrema[l] \in Cat!Extrema(Region(l))
  BY <1>3 DEF Cat!Extrema, Region, ExtremumOf, AtLeast
<1>6. /\ label_measures[l].num_samples = Cardinality(PixelsOf(l))
      /\ label_measures[l].moments =
           [x |-> SumOf(Weights("x"), PixelsOf(l)), y |-> SumOf(Weights("y"), PixelsOf(l)),
            xx |-> SumOf(Weights("xx"), PixelsOf(l)), yy |-> SumOf(Weights("yy"), PixelsOf(l)),
            xy |-> SumOf(Weights("xy"), PixelsOf(l)),
            flux |-> SumOf(Weights("flux"), PixelsOf(l))]
  BY <1>2 DEF FindInv, LabelMeasuresOK, HasExtrema
<1> DEFINE S == PixelsOf(l)
           i == label_extrema[l]
<1>7. S \in SUBSET Cat!Index
  BY DEF PixelsOf
<1>8. Cat!Entry(Region(l), i) =
        [label |-> l, extremum_val |-> find.image[i], at |-> i,
         y |-> Cat!SkyRow(Cat!RowOf(i)), x |-> Cat!SkyCol(Cat!ColOf(i)),
         num_samples |-> Cat!Cardinality(S),
         moments |-> [x |-> Cat!MomentOf(S, LAMBDA x, y : x), y |-> Cat!MomentOf(S, LAMBDA x, y : y),
                      xx |-> Cat!MomentOf(S, LAMBDA x, y : x * x),
                      yy |-> Cat!MomentOf(S, LAMBDA x, y : y * y),
                      xy |-> Cat!MomentOf(S, LAMBDA x, y : x * y),
                      flux |-> Cat!MomentOf(S, LAMBDA x, y : 1)]]
  BY DEF Cat!Entry, Region
<1>9. IslandOf(l) =
        [label |-> l, extremum_val |-> find.image[i], at |-> i,
         y |-> Cat!SkyRow(Cat!RowOf(i)), x |-> Cat!SkyCol(Cat!ColOf(i)),
         num_samples |-> Cardinality(S),
         moments |-> [x |-> SumOf(Weights("x"), S), y |-> SumOf(Weights("y"), S),
                      xx |-> SumOf(Weights("xx"), S), yy |-> SumOf(Weights("yy"), S),
                      xy |-> SumOf(Weights("xy"), S), flux |-> SumOf(Weights("flux"), S)]]
  BY <1>2, <1>6 DEF IslandOf, Coordinate
<1> HIDE DEF S, i
<1>10. Cat!Entry(Region(l), i) =
        [label |-> l, extremum_val |-> find.image[i], at |-> i,
         y |-> Cat!SkyRow(Cat!RowOf(i)), x |-> Cat!SkyCol(Cat!ColOf(i)),
         num_samples |-> Cardinality(S),
         moments |-> [x |-> SumOf(Weights("x"), S), y |-> SumOf(Weights("y"), S),
                      xx |-> SumOf(Weights("xx"), S), yy |-> SumOf(Weights("yy"), S),
                      xy |-> SumOf(Weights("xy"), S), flux |-> SumOf(Weights("flux"), S)]]
  BY <1>1, <1>7, <1>8, MomentsAreSums, SameCount
<1> QED BY <1>4, <1>5, <1>9, <1>10 DEF i

\* The list is a catalogue of the image.
LEMMA AnswersIsCatalogue ==
  ASSUME FindInv, HasExtrema, spc # "measure", NEW list, Answers(list)
  PROVE  Cat!IsCatalogue(list)
<1> DEFINE listed == {R \in Cat!Regions :
                        Cat!Detected(R) /\ Cat!Cardinality(R.pixels) >= find.source_min_area}
           count == Cardinality(Listed)
           regions == [l \in Listed |-> Region(l)]
<1>1. IsFiniteSet(Listed) /\ Listed \subseteq AllLabels /\ count \in Nat
  BY ListedFacts
<1>2. ASSUME NEW l \in AllLabels
      PROVE  Region(l) \in listed <=> l \in Listed
  <2>1. Region(l) \in Cat!Regions
    BY RegionsAre
  <2>2. Cat!Detected(Region(l)) <=> Strong(l)
    BY LabelFacts DEF Cat!Detected, Region, Peaks
  <2>3. Cat!Cardinality(Region(l).pixels) = Cardinality(PixelsOf(l))
    BY SameCount DEF Region
  <2>4. Strong(l) => label_measures[l].num_samples = Cardinality(PixelsOf(l))
    BY DEF FindInv, LabelMeasuresOK, HasExtrema
  <2>5. l \in Listed <=> Strong(l) /\ label_measures[l].num_samples >= find.source_min_area
    BY LabelFacts DEF Listed, Strong
  <2> QED BY <2>1, <2>2, <2>3, <2>4, <2>5
<1>3. listed = {regions[l] : l \in Listed}
  <2>1. \A R \in listed : \E l \in AllLabels : R = Region(l)
    BY RegionsAre
  <2>2. \A l \in Listed : regions[l] = Region(l)
    OBVIOUS
  <2> HIDE DEF listed, regions
  <2> QED BY <1>1, <1>2, <2>1, <2>2
<1>4. \A l, m \in Listed : regions[l] = regions[m] => l = m
  BY DEF Region
<1>5. Cardinality(listed) = count
  <2> HIDE DEF listed, regions
  <2> QED BY <1>1, <1>3, <1>4, ImageOneToOne
<1>6. list \in [1 .. count -> {IslandOf(l) : l \in Listed}]
  BY DEF Answers
<1>7. Len(list) = count /\ DOMAIN list = 1 .. count
  <2>1. PICK found : found = {IslandOf(l) : l \in Listed}
    OBVIOUS
  <2> HIDE DEF count
  <2>2. list \in Seq(found)
    BY <1>1, <1>6, <2>1
  <2> QED BY <1>1, <1>6, <2>2, LenProperties
<1>8. \A n \in DOMAIN list : \E R \in listed : \E i \in Cat!Extrema(R) : list[n] = Cat!Entry(R, i)
  <2> TAKE n \in DOMAIN list
  <2>1. PICK l \in Listed : list[n] = IslandOf(l)
    BY <1>6, <1>7
  <2>2. Region(l) \in listed
    <3> HIDE DEF listed
    <3> QED BY <1>1, <1>2
  <2> HIDE DEF listed
  <2> QED BY <2>1, <2>2, IslandIsEntry
<1>9. \A m, n \in DOMAIN list : m < n => Cat!Precedes(list[m].label, list[n].label)
  BY DEF Answers
<1>10. Cat!Len(list) = Len(list) /\ Cat!Cardinality(listed) = Cardinality(listed)
  BY SameCount
<1> QED BY <1>5, <1>7, <1>8, <1>9, <1>10 DEF Cat!IsCatalogue

------------------------------------------------------------------------------
(* Fits.                                                                    *)

\* Half an image there and back again.
LEMMA ShiftedBack ==
  ASSUME NEW size \in Nat \ {0}, size % 2 = 0, NEW k \in 0 .. size - 1
  PROVE  /\ Cat!HalfShift(k, size) \in 0 .. size - 1
         /\ Cat!HalfShift(Cat!HalfShift(k, size), size) = k
<1>1. PICK h \in Nat : size = 2 * h /\ size \div 2 = h
  OBVIOUS
<1>2. \A j : Cat!HalfShift(j, size) = IF j < h THEN j + h ELSE j - h
  BY <1>1 DEF Cat!HalfShift
<1> QED BY <1>1, <1>2

EvenImage == ImageOK /\ find.rows % 2 = 0 /\ find.cols % 2 = 0

LEMMA SkyAndBack ==
  ASSUME EvenImage
  PROVE  /\ \A r \in 0 .. find.rows - 1 : /\ Cat!SkyRow(r) \in 0 .. find.rows - 1
                                          /\ Cat!SkyRow(Cat!SkyRow(r)) = r
         /\ \A c \in 0 .. find.cols - 1 : /\ Cat!SkyCol(c) \in 0 .. find.cols - 1
                                          /\ Cat!SkyCol(Cat!SkyCol(c)) = c
BY ShiftedBack DEF EvenImage, ImageOK, Cat!SkyRow, Cat!SkyCol

\* The pixel of a row and a column.
LEMMA PixelAt ==
  ASSUME ImageOK, NEW r \in 0 .. find.rows - 1, NEW c \in 0 .. find.cols - 1
  PROVE  LET i == c * find.rows + r
         IN  i \in Cat!Index /\ Cat!RowOf(i) = r /\ Cat!ColOf(i) = c
<1>1. PICK m \in Nat \ {0}, n \in Nat \ {0} : m = find.rows /\ n = find.cols
  BY DEF ImageOK
<1> DEFINE i == c * m + r
<1>2. r \in 0 .. m - 1 /\ c \in 0 .. n - 1
  BY <1>1
<1>3. c * m \in Int /\ 0 <= c * m /\ c * m <= (n - 1) * m
  BY <1>2, SMT
<1>4. (n - 1) * m = m * n - m /\ m * n \in Int
  BY SMT
<1>5. i \in 0 .. m * n - 1
  BY <1>2, <1>3, <1>4
<1>6. i \in Cat!Index
  BY <1>1, <1>5 DEF Cat!Index
<1> HIDE DEF i
<1>7. PICK q, s : q = Cat!ColOf(i) /\ s = Cat!RowOf(i)
  OBVIOUS
<1>8. s \in 0 .. m - 1 /\ q \in 0 .. n - 1 /\ i = q * m + s
  BY <1>1, <1>6, <1>7, Places DEF ImageOK
<1>9. c * m = m * c /\ q * m = m * q
  BY <1>2, <1>8, SMT
<1>10. s + m * q = r + m * c
  <2>1. m * c \in Int /\ m * q \in Int
    BY <1>2, <1>8, SMT
  <2> QED BY <1>2, <1>8, <1>9, <2>1 DEF i
<1>11. s = r
  BY <1>2, <1>8, <1>10, ResidueUnique
<1>12. q = c
  <2>1. m * (q - c) = m * q - m * c
    BY <1>2, <1>8, SMT
  <2>2. m * q \in Int /\ m * c \in Int
    BY <1>2, <1>8, SMT
  <2>3. m * (q - c) = 0
    BY <1>2, <1>8, <1>10, <1>11, <2>1, <2>2
  <2>4. q - c = 0
    BY <1>2, <1>8, <2>3, SmallMultiple
  <2> QED BY <1>2, <1>8, <2>4
<1> QED BY <1>1, <1>6, <1>7, <1>11, <1>12 DEF i

\* There is a residual for every pixel of the label, and no other.
LEMMA ResidualsAreOwn ==
  ASSUME FindInv, spc = "fit", NEW l \in AllLabels, Strong(l)
  PROVE  Cardinality(Residuals(l)) = Cardinality(PixelsOf(l))
<1>1. /\ ImageOK /\ EvenImage /\ find.gaussian_fitting
  BY CallHasImage DEF FindInv, CallFits, EvenImage, FitsOK
<1>2. PICK box : box = label_measures[l].box
  OBVIOUS
<1>3. BoxOK(box) /\ \A i \in PixelsOf(l) : Holds(box, Coordinate(i))
  BY <1>1, <1>2 DEF FindInv, LabelMeasuresOK
<1>4. \A i \in Cat!Index :
        label_map[i] = IF find.generate_labelmap /\ LabelAt(i) # 0 /\ ~ Strong(LabelAt(i))
                       THEN 0 ELSE LabelAt(i)
  BY DEF FindInv, MapOK, HasExtrema
<1>5. PICK m \in Nat \ {0}, n \in Nat \ {0} : m = find.rows /\ n = find.cols
  BY <1>1 DEF ImageOK
<1>6. l # 0
  BY <1>1, FinalLabels
<1>7. \A i \in Cat!Index : label_map[i] = l <=> i \in PixelsOf(l)
  BY <1>4, <1>6 DEF PixelsOf
<1>8. \A x, y : /\ x \in box.left .. box.right => x \in 0 .. n - 1
                /\ y \in box.top .. box.bottom => y \in 0 .. m - 1
  BY <1>3, <1>5 DEF BoxOK
<1> DEFINE place == [i \in PixelsOf(l) |-> <<Coordinate(i).x, Coordinate(i).y>>]
           At(x, y) == Cat!SkyCol(x) * find.rows + Cat!SkyRow(y)
<1>9. ASSUME NEW i \in PixelsOf(l)
      PROVE  /\ Coordinate(i).x \in box.left .. box.right
             /\ Coordinate(i).y \in box.top .. box.bottom
             /\ At(Coordinate(i).x, Coordinate(i).y) = i
  <2>1. i \in Cat!Index
    BY DEF PixelsOf
  <2>2. Coordinate(i).x \in 0 .. n - 1 /\ Coordinate(i).y \in 0 .. m - 1
    BY <1>1, <1>5, <2>1, Coordinates
  <2>3. /\ box.left \in Int /\ box.right \in Int /\ box.top \in Int /\ box.bottom \in Int
    BY <1>3, <1>5 DEF BoxOK
  <2>4. Holds(box, Coordinate(i))
    BY <1>3
  <2>5. /\ Cat!RowOf(i) \in 0 .. find.rows - 1 /\ Cat!ColOf(i) \in 0 .. find.cols - 1
        /\ i = Cat!ColOf(i) * find.rows + Cat!RowOf(i)
    BY <1>1, <2>1, Places DEF ImageOK
  <2>6. /\ Cat!SkyCol(Coordinate(i).x) = Cat!ColOf(i) /\ Cat!SkyRow(Coordinate(i).y) = Cat!RowOf(i)
    BY <1>1, <2>5, SkyAndBack DEF Coordinate
  <2>7. Coordinate(i).x \in box.left .. box.right /\ Coordinate(i).y \in box.top .. box.bottom
    BY <2>2, <2>3, <2>4 DEF Holds
  <2> QED BY <2>5, <2>6, <2>7
<1>10. ASSUME NEW x \in box.left .. box.right, NEW y \in box.top .. box.bottom,
              label_map[At(x, y)] = l
       PROVE  /\ At(x, y) \in PixelsOf(l)
              /\ Coordinate(At(x, y)).x = x /\ Coordinate(At(x, y)).y = y
  <2>1. x \in 0 .. find.cols - 1 /\ y \in 0 .. find.rows - 1
    BY <1>5, <1>8
  <2>2. /\ Cat!SkyCol(x) \in 0 .. find.cols - 1 /\ Cat!SkyRow(y) \in 0 .. find.rows - 1
        /\ Cat!SkyCol(Cat!SkyCol(x)) = x /\ Cat!SkyRow(Cat!SkyRow(y)) = y
    BY <1>1, <2>1, SkyAndBack
  <2>3. At(x, y) \in Cat!Index /\ Cat!RowOf(At(x, y)) = Cat!SkyRow(y) /\ Cat!ColOf(At(x, y)) = Cat!SkyCol(x)
    BY <1>1, <2>2, PixelAt
  <2> HIDE DEF At
  <2> QED BY <1>7, <1>10, <2>2, <2>3 DEF Coordinate
<1>11. Residuals(l) = {xy \in (box.left .. box.right) \X (box.top .. box.bottom) :
                         label_map[At(xy[1], xy[2])] = l}
  BY <1>2 DEF Residuals
<1> HIDE DEF At
<1>12. Residuals(l) = {place[i] : i \in PixelsOf(l)}
  <2>1. ASSUME NEW i \in PixelsOf(l) PROVE place[i] \in Residuals(l)
    <3>1. i \in Cat!Index /\ label_map[i] = l
      BY <1>7 DEF PixelsOf
    <3> QED BY <1>9, <1>11, <3>1
  <2>2. ASSUME NEW xy \in Residuals(l) PROVE \E i \in PixelsOf(l) : xy = place[i]
    <3>1. PICK x \in box.left .. box.right, y \in box.top .. box.bottom :
            xy = <<x, y>> /\ label_map[At(x, y)] = l
      BY <1>11
    <3>2. At(x, y) \in PixelsOf(l) /\ Coordinate(At(x, y)).x = x /\ Coordinate(At(x, y)).y = y
      BY <1>10, <3>1
    <3> QED BY <3>1, <3>2
  <2> HIDE DEF place
  <2> QED BY <2>1, <2>2
<1>13. \A i, j \in PixelsOf(l) : place[i] = place[j] => i = j
  <2> TAKE i, j \in PixelsOf(l)
  <2>1. place[i] = place[j] => Coordinate(i).x = Coordinate(j).x /\ Coordinate(i).y = Coordinate(j).y
    OBVIOUS
  <2>2. /\ At(Coordinate(i).x, Coordinate(i).y) = i /\ At(Coordinate(j).x, Coordinate(j).y) = j
    BY <1>9
  <2> HIDE DEF place
  <2> QED BY <2>1, <2>2
<1>14. IsFiniteSet(PixelsOf(l))
  <2>1. PixelsOf(l) \in SUBSET Cat!Index
    BY DEF PixelsOf
  <2> QED BY <1>1, <2>1, IndexFinite, FS_Subset
<1> HIDE DEF place
<1> QED BY <1>12, <1>13, <1>14, ImageOneToOne

\* The labels, their measures and the islands stay what they are.
LEMMA FoundKept ==
  ASSUME FindInv, spc \in {"fit", "done"}, spc' \in {"fit", "done"},
         UNCHANGED <<find, bg_level, rms, label_map, label_extrema, label_extrema_id, label_measures,
                     islands>>,
         FitsOK'
  PROVE  FindInv'
<1>1. HasLabels /\ HasLabels' /\ HasExtrema /\ HasExtrema'
  BY DEF HasLabels, HasExtrema
<1>2. CallFits' /\ LevelsOK' /\ ImageOK
  BY <1>1, CallKept, CallHasImage DEF FindInv
<1>3. \A l : Strong(l)' <=> Strong(l)
  BY DEF Strong
<1>4. LabelMeasuresOK'
  <2>1. /\ AllLabels' = AllLabels /\ \A l : PixelsOf(l)' = PixelsOf(l)
        /\ \A f : Weights(f)' = Weights(f)
        /\ \A i : Coordinate(i)' = Coordinate(i)
    BY SameView
  <2>2. \A l \in AllLabels : Strong(l) =>
          LET n == label_measures[l]
          IN  /\ n.num_samples = Cardinality(PixelsOf(l))
              /\ n.moments =
                   [x |-> SumOf(Weights("x"), PixelsOf(l)), y |-> SumOf(Weights("y"), PixelsOf(l)),
                    xx |-> SumOf(Weights("xx"), PixelsOf(l)), yy |-> SumOf(Weights("yy"), PixelsOf(l)),
                    xy |-> SumOf(Weights("xy"), PixelsOf(l)),
                    flux |-> SumOf(Weights("flux"), PixelsOf(l))]
              /\ find.gaussian_fitting =>
                   BoxOK(n.box) /\ \A i \in PixelsOf(l) : Holds(n.box, Coordinate(i))
    BY DEF FindInv, LabelMeasuresOK
  <2> QED BY <1>3, <2>1, <2>2 DEF LabelMeasuresOK, Holds, BoxOK
<1>5. MapOK'
  <2>1. DOMAIN label_map = Cat!Index
        /\ \A i \in Cat!Index :
             label_map[i] = IF find.generate_labelmap /\ LabelAt(i) # 0 /\ ~ Strong(LabelAt(i))
                            THEN 0 ELSE LabelAt(i)
    BY <1>1 DEF FindInv, MapOK
  <2>2. Cat!Index' = Cat!Index /\ \A i : LabelAt(i)' = LabelAt(i)
    BY SameView
  <2> QED BY <1>3, <2>1, <2>2 DEF MapOK
<1>6. CombinedOK'
  <2>1. \A l \in AllLabels :
          \/ label_extrema[l] = None /\ label_extrema_id[l] = 0 /\ \A i \in PixelsOf(l) : ~ Peaks(l, i)
          \/ label_extrema[l] # None /\ label_extrema_id[l] = l /\ ExtremumOf(l, label_extrema[l])
    BY <1>1 DEF FindInv, CombinedOK
  <2>2. /\ AllLabels' = AllLabels /\ \A l : PixelsOf(l)' = PixelsOf(l)
        /\ \A l, i : Peaks(l, i)' = Peaks(l, i) /\ ExtremumOf(l, i)' = ExtremumOf(l, i)
    BY SameView
  <2> QED BY <2>1, <2>2 DEF CombinedOK
<1>7. LabelsOK'
  BY <1>1, SameView DEF FindInv, LabelsOK
<1>8. PixelsOK' /\ ExtremaOK' /\ MeasuresOK'
  BY DEF PixelsOK, ExtremaOK, MeasuresOK
<1>9. IslandsOK'
  <2>1. Answers(islands)
    BY DEF FindInv, IslandsOK
  <2>2. /\ Listed' = Listed /\ \A l, m : Cat!Precedes(l, m)' = Cat!Precedes(l, m)
        /\ {IslandOf(l) : l \in Listed}' = {IslandOf(l) : l \in Listed}
    BY SameIslands
  <2> QED BY <2>1, <2>2 DEF IslandsOK, Answers
<1> QED BY <1>2, <1>4, <1>5, <1>6, <1>7, <1>8, <1>9 DEF FindInv

LEMMA FitIslandKeeps ==
  ASSUME FindInv, NEW n \in pending, FitIsland(n)
  PROVE  FindInv'
<1>1. /\ spc = "fit" /\ spc' = "fit"
      /\ UNCHANGED <<find, bg_level, rms, label_map, label_extrema, label_extrema_id, label_measures,
                     islands>>
      /\ pending' = pending \ {n}
      /\ fits' = [m \in DOMAIN fits \union {n} |->
                    IF m # n THEN fits[m]
                    ELSE IF islands[n].num_samples < 3 THEN None
                    ELSE Cardinality(Residuals(islands[n].label))]
  BY DEF FitIsland, statvars
<1>2. /\ DOMAIN fits \subseteq DOMAIN islands /\ pending \subseteq DOMAIN islands
      /\ find.gaussian_fitting
      /\ \A m \in DOMAIN fits : fits[m] # None => fits[m] = islands[m].num_samples
  BY <1>1 DEF FindInv, FitsOK, FitCoversIsland
<1>3. Cardinality(Residuals(islands[n].label)) = islands[n].num_samples
  <2>1. HasExtrema /\ Answers(islands)
    BY <1>1 DEF HasExtrema, FindInv, IslandsOK
  <2>2. PICK l \in Listed : islands[n] = IslandOf(l)
    BY <1>2, <2>1 DEF Answers
  <2>3. l \in AllLabels /\ Strong(l) /\ IslandOf(l).label = l
    BY <2>1, ListedFacts
  <2>4. islands[n].num_samples = Cardinality(PixelsOf(l))
    <3>1. label_measures[l].num_samples = Cardinality(PixelsOf(l))
      BY <1>1, <2>3 DEF FindInv, LabelMeasuresOK
    <3>2. IslandOf(l).num_samples = label_measures[l].num_samples
      BY DEF IslandOf
    <3> QED BY <2>2, <3>1, <3>2
  <2> QED BY <1>1, <2>2, <2>3, <2>4, ResidualsAreOwn
<1>4. FitsOK'
  <2>1. DOMAIN fits' \subseteq DOMAIN islands /\ pending' \subseteq DOMAIN islands
    BY <1>1, <1>2
  <2>2. \A m \in DOMAIN fits' : fits'[m] # None => fits'[m] = islands[m].num_samples
    BY <1>1, <1>2, <1>3
  <2> QED BY <1>1, <1>2, <2>1, <2>2 DEF FitsOK, FitCoversIsland
<1> QED BY <1>1, <1>4, FoundKept

LEMMA FitsOverKeeps ==
  ASSUME FindInv, FitsOver
  PROVE  FindInv'
<1>1. /\ spc = "fit" /\ spc' = "done" /\ fits' = fits
      /\ UNCHANGED <<find, bg_level, rms, label_map, label_extrema, label_extrema_id, label_measures,
                     islands>>
  BY DEF FitsOver, statvars
<1>2. FitsOK'
  BY <1>1 DEF FindInv, FitsOK, FitCoversIsland
<1> QED BY <1>1, <1>2, FoundKept

------------------------------------------------------------------------------
(* The steps before the labelling.                                          *)

LEMMA FindSame ==
  ASSUME FindInv, UNCHANGED <<find, bg_level, rms>>,
         spc' = spc, pending' = pending, extrema' = extrema, label_extrema' = label_extrema,
         label_extrema_id' = label_extrema_id, label_map' = label_map, P' = P, fits' = fits,
         measures' = measures, label_measures' = label_measures, islands' = islands
  PROVE  FindInv'
<1>3. /\ Cat!Index' = Cat!Index /\ AllLabels' = AllLabels /\ Found' = Found
      /\ \A i : /\ LabelAt(i)' = LabelAt(i) /\ Cat!ColOf(i)' = Cat!ColOf(i)
                /\ Coordinate(i)' = Coordinate(i)
      /\ \A l : PixelsOf(l)' = PixelsOf(l) /\ Cat!SignOf(l)' = Cat!SignOf(l)
      /\ \A l, i : Peaks(l, i)' = Peaks(l, i) /\ ExtremumOf(l, i)' = ExtremumOf(l, i)
      /\ \A l, i, j : AtLeast(l, i, j)' = AtLeast(l, i, j)
      /\ \A f : Weights(f)' = Weights(f)
      /\ BoxedMeasure' = BoxedMeasure
  BY SameView
<1>4. \A l : Strong(l)' <=> Strong(l)
  BY DEF Strong
<1>5. \A f, l : Total(f, l)' = Total(f, l)
  BY DEF Total
<1>6. (HasLabels' <=> HasLabels) /\ (HasExtrema' <=> HasExtrema)
  BY DEF HasLabels, HasExtrema
<1>7. \A l : Measured(l)' = Measured(l)
  BY <1>3, <1>4 DEF Measured
<1>8. CallFits' /\ LevelsOK'
  <2>1. CallFits /\ LevelsOK
    BY DEF FindInv
  <2>2. CallFits'
    BY <1>3, <2>1 DEF CallFits
  <2>3. LevelsOK'
    BY <1>6, <2>1 DEF LevelsOK
  <2> QED BY <2>2, <2>3
<1>9. PixelsOK'
  BY <1>3 DEF FindInv, PixelsOK
<1>10. ExtremaOK'
  <2>1. ASSUME spc = "extrema"
        PROVE  /\ extrema \in [Threads -> [AllLabels -> Cat!Index \union {None}]]
               /\ \A t \in Threads, l \in AllLabels :
                    extrema[t][l] # None => extrema[t][l] \in PixelsOf(l) /\ Peaks(l, extrema[t][l])
               /\ \A l \in AllLabels : \A i \in PixelsOf(l) \ pending : Peaks(l, i) =>
                    \E t \in Threads : extrema[t][l] # None /\ AtLeast(l, extrema[t][l], i)
    BY <2>1 DEF FindInv, ExtremaOK
  <2>2. /\ Cat!Index' = Cat!Index /\ AllLabels' = AllLabels /\ \A l : PixelsOf(l)' = PixelsOf(l)
        /\ \A l, i : Peaks(l, i)' = Peaks(l, i)
        /\ \A l, i, j : AtLeast(l, i, j)' = AtLeast(l, i, j)
    BY <1>3
  <2> QED BY <2>1, <2>2 DEF ExtremaOK
<1>11. LabelsOK'
  BY <1>3, <1>6 DEF FindInv, LabelsOK
<1>12. CombinedOK'
  <2>1. ASSUME HasExtrema
        PROVE  \A l \in AllLabels :
          \/ label_extrema[l] = None /\ label_extrema_id[l] = 0 /\ \A i \in PixelsOf(l) : ~ Peaks(l, i)
          \/ label_extrema[l] # None /\ label_extrema_id[l] = l /\ ExtremumOf(l, label_extrema[l])
    BY <2>1 DEF FindInv, CombinedOK
  <2>2. /\ AllLabels' = AllLabels /\ \A l : PixelsOf(l)' = PixelsOf(l)
        /\ \A l, i : Peaks(l, i)' = Peaks(l, i) /\ ExtremumOf(l, i)' = ExtremumOf(l, i)
    BY <1>3
  <2> QED BY <1>6, <2>1, <2>2 DEF CombinedOK
<1>13. MapOK'
  <2>1. ASSUME HasExtrema
        PROVE  /\ DOMAIN label_map = Cat!Index
               /\ \A i \in Cat!Index :
                    label_map[i] = IF /\ spc = "measure" => Cat!ColOf(i) \notin pending
                                      /\ find.generate_labelmap /\ LabelAt(i) # 0 /\ ~ Strong(LabelAt(i))
                                   THEN 0 ELSE LabelAt(i)
    BY <2>1 DEF FindInv, MapOK
  <2>2. /\ Cat!Index' = Cat!Index /\ find' = find
        /\ \A i : LabelAt(i)' = LabelAt(i) /\ Cat!ColOf(i)' = Cat!ColOf(i)
    BY <1>3
  <2> QED BY <1>4, <1>6, <2>1, <2>2 DEF MapOK
<1>14. MeasuresOK'
  <2>1. ASSUME spc = "measure"
        PROVE  /\ measures \in [Threads -> [AllLabels -> BoxedMeasure]]
               /\ \A l \in AllLabels :
                    /\ Total("num_samples", l) = Cardinality(Measured(l))
                    /\ \A f \in Fields : Total(f, l) = SumOf(Weights(f), Measured(l))
                    /\ find.gaussian_fitting =>
                         \A i \in Measured(l) :
                           \E t \in Threads : Holds(measures[t][l].box, Coordinate(i))
    BY <2>1 DEF FindInv, MeasuresOK
  <2>2. /\ AllLabels' = AllLabels /\ BoxedMeasure' = BoxedMeasure /\ find' = find
        /\ \A f : Weights(f)' = Weights(f)
        /\ \A i : Coordinate(i)' = Coordinate(i)
    BY <1>3
  <2> QED BY <1>5, <1>7, <2>1, <2>2 DEF MeasuresOK, Holds
<1>15. LabelMeasuresOK'
  <2>1. /\ AllLabels' = AllLabels /\ \A l : PixelsOf(l)' = PixelsOf(l) /\ find' = find
        /\ \A f : Weights(f)' = Weights(f)
        /\ \A i : Coordinate(i)' = Coordinate(i)
    BY <1>3
  <2>2. ASSUME spc \in {"islands", "fit", "done"}
        PROVE  \A l \in AllLabels : Strong(l) =>
          LET n == label_measures[l]
          IN  /\ n.num_samples = Cardinality(PixelsOf(l))
              /\ n.moments =
                   [x |-> SumOf(Weights("x"), PixelsOf(l)), y |-> SumOf(Weights("y"), PixelsOf(l)),
                    xx |-> SumOf(Weights("xx"), PixelsOf(l)), yy |-> SumOf(Weights("yy"), PixelsOf(l)),
                    xy |-> SumOf(Weights("xy"), PixelsOf(l)),
                    flux |-> SumOf(Weights("flux"), PixelsOf(l))]
              /\ find.gaussian_fitting =>
                   BoxOK(n.box) /\ \A i \in PixelsOf(l) : Holds(n.box, Coordinate(i))
    BY <2>2 DEF FindInv, LabelMeasuresOK
  <2> QED BY <1>4, <2>1, <2>2 DEF LabelMeasuresOK, Holds, BoxOK
<1>16. IslandsOK'
  <2>1. IslandsOK
    BY DEF FindInv
  <2>2. /\ Listed' = Listed /\ \A l, m : Cat!Precedes(l, m)' = Cat!Precedes(l, m)
        /\ {IslandOf(l) : l \in Listed}' = {IslandOf(l) : l \in Listed}
    BY SameIslands
  <2> QED BY <2>1, <2>2 DEF IslandsOK, Answers
<1>17. FitsOK'
  BY DEF FindInv, FitsOK, FitCoversIsland
<1> QED BY <1>8, <1>9, <1>10, <1>11, <1>12, <1>13, <1>14, <1>15, <1>16, <1>17 DEF FindInv

\* Before the labelling there are no labels, extrema or islands.
LEMMA NothingFound ==
  ASSUME FindInv, spc \in {"idle", "median", "await", "rms"},
         spc' \in {"median", "await", "rms", "label"}, fits' = fits, CallFits', LevelsOK'
  PROVE  FindInv'
<1>1. FitsOK'
  BY DEF FindInv, FitsOK, FitCoversIsland
<1> QED BY <1>1 DEF FindInv, PixelsOK, ExtremaOK, LabelsOK, CombinedOK, MapOK, MeasuresOK,
                    LabelMeasuresOK, IslandsOK, HasLabels, HasExtrema

LEMMA CallKeepsFind ==
  ASSUME FindInv, NEW c \in SourceFindCalls, CallSourceFind(c) \/ CallSourceFind(Swapped(c))
  PROVE  FindInv'
<1>1. /\ spc = "idle" /\ spc' = "median" /\ fits' = fits
      /\ find' = c \/ find' = Swapped(c)
  BY DEF CallSourceFind
<1>2. /\ c.rows \in Nat \ {0} /\ c.rows % 2 = 0 /\ c.cols \in Nat \ {0} /\ c.cols % 2 = 0
      /\ c.image \in [0 .. c.rows * c.cols - 1 -> Int]
      /\ c.detection_n_sigma \in Nat
      /\ c.rms_est.num \in Nat /\ c.rms_est.den \in Nat \ {0}
  BY SourceFindAssumption
<1>3. /\ Swapped(c).rows = c.rows /\ Swapped(c).cols = c.cols /\ Swapped(c).image = c.image
      /\ Swapped(c).detection_n_sigma = c.detection_n_sigma /\ Swapped(c).rms_est = c.rms_est
  BY DEF Swapped
<1>4. /\ find'.rows = c.rows /\ find'.cols = c.cols /\ find'.image = c.image
      /\ find'.detection_n_sigma = c.detection_n_sigma /\ find'.rms_est = c.rms_est
  BY <1>1, <1>3
<1>5. CallFits'
  BY <1>2, <1>4 DEF CallFits, Cat!Index
<1>6. LevelsOK'
  BY <1>1 DEF LevelsOK, HasLabels
<1> QED BY <1>1, <1>5, <1>6, NothingFound

\* The level of the background is set, and rms_est taken from the call or estimated.
LEMMA RmsAsked ==
  ASSUME FindInv, spc \in {"median", "await"}, find' = find, fits' = fits,
         bg_level'.num \in Int, bg_level'.den \in Nat \ {0}, NEW st, Rms(st)
  PROVE  FindInv'
<1>1. CallFits'
  BY DEF FindInv, CallFits, Cat!Index, Rms
<1>2. /\ spc' \in {"rms", "label"}
      /\ spc' = "label" => rms'.num \in Int /\ rms'.den \in Nat
  <2>1. find.rms_est.num \in Nat /\ find.rms_est.den \in Nat \ {0}
    BY DEF FindInv, CallFits
  <2> QED BY <2>1 DEF Rms
<1>3. LevelsOK'
  BY <1>2 DEF LevelsOK, HasLabels
<1> QED BY <1>1, <1>2, <1>3, NothingFound

LEMMA BackgroundKeepsFind ==
  ASSUME StatisticsInv, FindInv, BackgroundDirect \/ BackgroundByBinning \/ BackgroundBinned
  PROVE  FindInv'
<1>1. CASE BackgroundDirect
  <2>1. spc = "median" /\ DataOK
    BY <1>1 DEF BackgroundDirect, StatisticsInv, OneMedianCall
  <2>2. /\ find' = find /\ fits' = fits
        /\ bg_level'.num \in Int /\ bg_level'.den \in Nat \ {0}
    BY <1>1, <2>1, MedianIs DEF BackgroundDirect, labelvars
  <2>3. PICK st : Rms(st)
    BY <1>1 DEF BackgroundDirect
  <2> QED BY <2>1, <2>2, <2>3, RmsAsked
<1>2. CASE BackgroundByBinning
  <2>1. spc = "median" /\ spc' = "await" /\ find' = find /\ fits' = fits
    BY <1>2 DEF BackgroundByBinning, labelvars
  <2>2. CallFits' /\ LevelsOK'
    BY <2>1 DEF FindInv, CallFits, LevelsOK, HasLabels, Cat!Index
  <2> QED BY <2>1, <2>2, NothingFound
<1>3. CASE BackgroundBinned
  <2>1. spc = "await" /\ find' = find /\ fits' = fits /\ bg_level' = median
    BY <1>3 DEF BackgroundBinned, labelvars
  <2>2. median.num \in Int /\ median.den \in Nat \ {0}
    BY <1>3 DEF BackgroundBinned, StatisticsInv, MedianInv, MedianOK
  <2>3. PICK st : Rms(st)
    BY <1>3 DEF BackgroundBinned
  <2> QED BY <2>1, <2>2, <2>3, RmsAsked
<1> QED BY <1>1, <1>2, <1>3

LEMMA RmsKeepsFind ==
  ASSUME StatisticsInv, FindInv, RmsEstimated
  PROVE  FindInv'
<1>1. /\ spc = "rms" /\ spc' = "label" /\ find' = find /\ fits' = fits /\ bg_level' = bg_level
      /\ rms' = [num |-> sigma.num, den |-> sigma.den * bg_level.den * bg_level.den]
      /\ cpc = "done"
  BY DEF RmsEstimated, labelvars
<1>2. PICK n \in Nat, d \in Nat : sigma.num = n /\ sigma.den = d
  <2>1. SumsOK /\ DataOK /\ CentreOK
    BY <1>1 DEF StatisticsInv, ClipInv
  <2>2. Clipped[iter] \in SUBSET Samples /\ sigma = SigmaOf(Clipped[iter])
    BY <2>1, ClippedType DEF SumsOK
  <2>3. PICK m \in Nat, V \in Nat :
          SigmaOf(Clipped[iter]) = IF Clipped[iter] = {} THEN NaN ELSE [num |-> V, den |-> m * m]
    BY <2>1, <2>2, SpreadIs
  <2>4. m * m \in Nat
    BY SMT
  <2> QED BY <2>2, <2>3, <2>4 DEF NaN
<1>3. PICK b \in Nat : bg_level.den = b
  BY <1>1 DEF FindInv, LevelsOK
<1>4. d * b * b \in Nat
  BY SMT
<1>5. LevelsOK'
  BY <1>1, <1>2, <1>3, <1>4 DEF FindInv, LevelsOK, HasLabels
<1>6. CallFits'
  BY <1>1 DEF FindInv, CallFits, Cat!Index
<1> QED BY <1>1, <1>5, <1>6, NothingFound

LEMMA SourceStepKeepsFind ==
  ASSUME StatisticsInv, FindInv, SourceStep
  PROVE  FindInv'
<1>1. CASE BackgroundDirect \/ BackgroundByBinning \/ BackgroundBinned
  BY <1>1, BackgroundKeepsFind
<1>2. CASE RmsEstimated
  BY <1>2, RmsKeepsFind
<1>3. CASE LabelImage
  BY <1>3, LabelImageKeeps
<1>4. CASE \E t \in Threads, i \in pending : FindExtremum(t, i) \/ MeasureColumn(t, i)
  BY <1>4, FindExtremumKeeps, MeasureColumnKeeps
<1>5. CASE CombineExtrema
  BY <1>5, CombineExtremaKeeps
<1>6. CASE CombineMeasures
  BY <1>6, CombineMeasuresKeeps
<1>7. CASE ListIslands
  BY <1>7, ListIslandsKeeps
<1>8. CASE \E n \in pending : FitIsland(n)
  BY <1>8, FitIslandKeeps
<1>9. CASE FitsOver
  BY <1>9, FitsOverKeeps
<1> QED BY <1>1, <1>2, <1>3, <1>4, <1>5, <1>6, <1>7, <1>8, <1>9 DEF SourceStep

LEMMA FindStep == StatisticsInv /\ FindInv /\ [ReduceNext]_reducevars => FindInv'
<1> SUFFICES ASSUME StatisticsInv, FindInv, [ReduceNext]_reducevars
             PROVE  FindInv'
  OBVIOUS
<1>1. CASE UNCHANGED findvars
  BY <1>1, FindSame DEF findvars
<1>2. CASE FindInImage \/ StartSourceFind
  BY <1>2, CallKeepsFind DEF FindInImage, StartSourceFind
<1>3. CASE CallLibrary
  BY <1>1, <1>3, CallKeepsFind DEF CallLibrary, SourceCall
<1>4. CASE Finding
  BY <1>1, <1>4, SourceStepKeepsFind DEF Finding, SourceRun
<1>5. CASE StartImager \/ Imaging \/ ImagerReturned \/ ImagerFailed \/ SaveImage \/ Ended
           \/ UNCHANGED reducevars
  <2>1. UNCHANGED sourcevars
    BY <1>5 DEF StartImager, Imaging, ImagerReturned, ImagerFailed, SaveImage, Ended, reducevars
  <2> QED BY <1>1, <2>1 DEF sourcevars
<1> QED BY <1>2, <1>3, <1>4, <1>5 DEF ReduceNext

LEMMA InitFind == ReduceInit => FindInv
<1> SUFFICES ASSUME ReduceInit PROVE FindInv
  OBVIOUS
<1>1. spc = "idle" /\ fits = <<>>
  BY DEF ReduceInit, SourceInit, SourceIdle
<1> QED BY <1>1 DEF FindInv, CallFits, LevelsOK, PixelsOK, ExtremaOK, LabelsOK, CombinedOK, MapOK,
                    MeasuresOK, LabelMeasuresOK, IslandsOK, FitsOK, FitCoversIsland, HasLabels,
                    HasExtrema

LEMMA ProgramFinds ==
  ASSUME NarrowCalls
  PROVE  ReduceSpec => []FindInv
<1>1. StatisticsInv /\ FindInv /\ [ReduceNext]_reducevars => FindInv'
  BY FindStep
<1> QED BY <1>1, InitFind, ProgramStatistics, PTL DEF ReduceSpec

------------------------------------------------------------------------------
(* The catalogue.                                                           *)

\* After the constructor has returned nothing changes any more.
LEMMA ReturnedStays ==
  ASSUME [ReduceNext]_reducevars, spc = "done"
  PROVE  spc' = "done" /\ islands' = islands
<1>1. CASE UNCHANGED findvars
  BY <1>1 DEF findvars
<1>2. CASE FindInImage \/ StartSourceFind \/ CallLibrary
  BY <1>1, <1>2 DEF FindInImage, StartSourceFind, CallLibrary, SourceCall, CallSourceFind
<1>3. CASE Finding
  <2>1. ~ SourceStep
    BY DEF SourceStep, BackgroundDirect, BackgroundByBinning, BackgroundBinned, RmsEstimated,
           LabelImage, FindExtremum, MeasureColumn, CombineExtrema, CombineMeasures, ListIslands,
           FitIsland, FitsOver
  <2> QED BY <1>1, <1>3, <2>1 DEF Finding, SourceRun
<1>4. CASE StartImager \/ Imaging \/ ImagerReturned \/ ImagerFailed \/ SaveImage \/ Ended
           \/ UNCHANGED reducevars
  <2>1. UNCHANGED sourcevars
    BY <1>4 DEF StartImager, Imaging, ImagerReturned, ImagerFailed, SaveImage, Ended, reducevars
  <2> QED BY <1>1, <2>1 DEF sourcevars
<1> QED BY <1>2, <1>3, <1>4 DEF ReduceNext

\* The constructor returns when it has listed or fitted the islands.
LEMMA ReturnsCatalogue ==
  ASSUME FindInv, [ReduceNext]_reducevars, spc # "done", spc' = "done"
  PROVE  Cat!IsCatalogue(islands')
<1>1. CASE UNCHANGED findvars
  BY <1>1 DEF findvars
<1>2. CASE FindInImage \/ StartSourceFind \/ CallLibrary
  BY <1>1, <1>2 DEF FindInImage, StartSourceFind, CallLibrary, SourceCall, CallSourceFind
<1>3. CASE StartImager \/ Imaging \/ ImagerReturned \/ ImagerFailed \/ SaveImage \/ Ended
           \/ UNCHANGED reducevars
  <2>1. UNCHANGED sourcevars
    BY <1>3 DEF StartImager, Imaging, ImagerReturned, ImagerFailed, SaveImage, Ended, reducevars
  <2> QED BY <1>1, <2>1 DEF sourcevars
<1>4. CASE ListIslands
  <2>1. Answers(islands')
    BY <1>4, ListIslandsAnswers
  <2>2. HasExtrema /\ spc # "measure"
    BY <1>4 DEF ListIslands, HasExtrema
  <2> QED BY <2>1, <2>2, AnswersIsCatalogue
<1>5. CASE FitsOver
  <2>1. spc = "fit" /\ islands' = islands
    BY <1>5 DEF FitsOver
  <2>2. Answers(islands)
    BY <2>1 DEF FindInv, IslandsOK
  <2>3. HasExtrema /\ spc # "measure"
    BY <2>1 DEF HasExtrema
  <2> QED BY <2>1, <2>2, <2>3, AnswersIsCatalogue
<1>6. CASE Finding
  <2>1. SourceStep => ListIslands \/ FitsOver
    BY DEF SourceStep, BackgroundDirect, BackgroundByBinning, BackgroundBinned, RmsEstimated, Rms,
           LabelImage, FindExtremum, MeasureColumn, CombineExtrema, CombineMeasures, FitIsland
  <2> QED BY <1>1, <1>4, <1>5, <1>6, <2>1 DEF Finding, SourceRun
<1> QED BY <1>2, <1>3, <1>6 DEF ReduceNext

LEMMA CatalogueStep ==
  FindInv /\ [ReduceNext]_reducevars
    => [Cat!Answer]_(IF spc = "done" THEN {islands} ELSE {})
<1> SUFFICES ASSUME FindInv, [ReduceNext]_reducevars
             PROVE  [Cat!Answer]_(IF spc = "done" THEN {islands} ELSE {})
  OBVIOUS
<1>1. CASE spc = "done"
  BY <1>1, ReturnedStays
<1>2. CASE spc # "done" /\ spc' # "done"
  BY <1>2
<1>3. CASE spc # "done" /\ spc' = "done"
  BY <1>3, ReturnsCatalogue DEF Cat!Answer
<1> QED BY <1>1, <1>2, <1>3

(***************************************************************************)
(* Whatever the image, the thresholds, the threads and the order in which  *)
(* they work, the islands of the constructor are a catalogue of the image  *)
(* (ImplementsCatalogue): those of the regions of the labelling with a     *)
(* pixel beyond the detection threshold and enough pixels, each with its   *)
(* extremum, its samples and its moments, in the order of the labels.      *)
(***************************************************************************)
THEOREM IslandsAreCatalogue ==
  ASSUME NarrowCalls
  PROVE  ReduceSpec => ImplementsCatalogue
<1>1. ReduceInit => Cat!CatalogueInit
  BY DEF ReduceInit, SourceInit, SourceIdle, Cat!CatalogueInit
<1> QED BY <1>1, CatalogueStep, ProgramFinds, PTL DEF ReduceSpec, ImplementsCatalogue, Cat!CatalogueSpec

\* The labels that the pixels have at the end.
LEMMA MapIsFinal == FindInv => LabelMapFinal
<1> SUFFICES ASSUME FindInv, spc = "done", NEW i \in Cat!Index
             PROVE  LET own == {R \in Cat!Regions : i \in R.pixels}
                    IN  label_map[i] =
                          IF \E R \in own : find.generate_labelmap => Cat!Detected(R)
                          THEN (CHOOSE R \in own : TRUE).label ELSE 0
  BY DEF LabelMapFinal
<1> DEFINE own == {R \in Cat!Regions : i \in R.pixels}
           l == LabelAt(i)
<1>1. HasExtrema /\ ImageOK
  BY CallHasImage DEF FindInv, HasExtrema
<1>2. label_map[i] = IF find.generate_labelmap /\ l # 0 /\ ~ Strong(l) THEN 0 ELSE l
  BY <1>1 DEF FindInv, MapOK
<1>3. \A R : R \in own <=> \E m \in AllLabels : R = Region(m) /\ i \in PixelsOf(m)
  BY RegionsAre DEF Region
<1>4. \A m : i \in PixelsOf(m) <=> m = l
  BY DEF PixelsOf
<1>5. CASE l = 0
  <2>1. own = {}
    BY <1>3, <1>4, <1>5 DEF AllLabels
  <2> QED BY <1>2, <1>5, <2>1
<1>6. CASE l # 0
  <2>1. l \in AllLabels
    BY <1>1, <1>6, LabelRange DEF ImageOK
  <2>2. own = {Region(l)}
    BY <1>3, <1>4, <2>1
  <2>3. (CHOOSE R \in own : TRUE).label = l
    <3> HIDE DEF own
    <3>1. (CHOOSE R \in own : TRUE) \in own
      BY <2>2
    <3> QED BY <2>2, <3>1 DEF Region
  <2>4. Cat!Detected(Region(l)) <=> Strong(l)
    BY <1>1, <2>1, LabelFacts DEF Cat!Detected, Region, Peaks
  <2> QED BY <1>2, <1>6, <2>2, <2>3, <2>4
<1> QED BY <1>5, <1>6

(***************************************************************************)
(* At the end the label map has the label of every region, without the     *)
(* weak ones if it was asked for (LabelMapFinal).                          *)
(***************************************************************************)
THEOREM LabelMapEndsFinal ==
  ASSUME NarrowCalls
  PROVE  ReduceSpec => []LabelMapFinal
BY MapIsFinal, ProgramFinds, PTL

(***************************************************************************)
(* A fit evaluates as many residuals as its island has samples             *)
(* (FitCoversIsland), for any size of the island and of its box.           *)
(***************************************************************************)
THEOREM FitsCoverIslands ==
  ASSUME NarrowCalls
  PROVE  ReduceSpec => []FitCoversIsland
<1>1. FindInv => FitCoversIsland
  BY DEF FindInv, FitsOK
<1> QED BY <1>1, ProgramFinds, PTL
==============================================================================
