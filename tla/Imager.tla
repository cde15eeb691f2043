-------------------------------- MODULE Imager --------------------------------
(***************************************************************************)
(* image_visibilities of src/stp/imager/imager.h: from visibilities, by    *)
(* gridding and a transform, to the image and the beam, of which the       *)
(* padding is cut away and which are normalised and corrected for the      *)
(* gridding kernel.  set_image_sizes, which the programs of src/reduce     *)
(* call for it, is a step of its own.                                      *)
(*                                                                         *)
(* A pixel of a result is abstracted to where it comes from: the element   *)
(* of the transform and the elements of the image-domain kernel, which     *)
(* have the offset from the centre of the sky that they belong to.         *)
(* Modelled is the build without USE_FFTSHIFT.                             *)
(***************************************************************************)
EXTENDS AWProjection

CONSTANT
  ImageCalls       \* the calls considered: records of image_size, padding_factor ([num, den]),
                   \* generate_beam, gridding_correction, analytic_gcf, r_fft, of the other
                   \* arguments of convolve_to_grid (gridder) and of the build

ASSUME ImagerAssumption ==
  \A c \in ImageCalls :
    /\ c.image_size \in Nat \ {0}
    /\ c.padding_factor.num \in Nat /\ c.padding_factor.den \in Nat \ {0}
    /\ c.padding_factor.num >= c.padding_factor.den
    /\ c.r_fft \in FFTRoutine
    /\ c.r_fft \in Slow => c.build.asserts   \* these planners overwrite the grid
    /\ "gridder" \in DOMAIN c
    /\ GridderArguments(c.gridder)

VARIABLES
  ipc,
  img,             \* ImagerPars
  grids,           \* the memory of vis_grid and sampling_grid: "none", "grid", "sky" or "reset"
  sample_grid_total,  \* it is positive
  fft_result,      \* fft_result_image and _beam: [memory, n_rows, plan_rows], or NoMatrix
  norm_result,     \* norm_result_image and _beam: pixel -> [at, gcf], or Empty
  fftw_threads     \* threads were started and not cleaned up

imgvars == <<ipc, img, grids, sample_grid_total, fft_result, norm_result, fftw_threads>>
imagervars == <<awvars, imgvars>>

Results == {"image", "beam"}

NoMatrix == [memory |-> "none", n_rows |-> 0, plan_rows |-> 0]

Empty == <<>>

Both(x) == [m \in Results |-> x]

ImgIdle ==
  /\ ipc = "idle"
  /\ img = [image_size |-> 0]
  /\ grids = Both("none")
  /\ sample_grid_total = FALSE
  /\ fft_result = Both(NoMatrix)
  /\ norm_result = Both(Empty)
  /\ fftw_threads = FALSE

\* The function returns and its variables are gone.
ReturnFromImager ==
  /\ ipc' = "idle"
  /\ img' = [image_size |-> 0]
  /\ grids' = Both("none")
  /\ sample_grid_total' = FALSE
  /\ fft_result' = Both(NoMatrix)
  /\ norm_result' = Both(Empty)
  /\ fftw_threads' = FALSE

ImagerIdle == FFTIdle /\ WideIdle /\ GridIdle /\ ImgIdle

ResetImager == ResetFFT /\ DestroyKernels /\ ReturnFromGridder /\ ReturnFromImager

CallImager(c) ==
  /\ ipc = "idle"
  /\ ipc' = "sizes"
  /\ img' = c
  /\ build' = c.build
  /\ UNCHANGED <<fpc, transform, aw, widevars, gridvars, grids, sample_grid_total, fft_result,
                 norm_result, fftw_threads>>

\* The record r, and the fields of s that it does not have.
With(r, s) == [f \in DOMAIN r \union DOMAIN s |-> IF f \in DOMAIN r THEN r[f] ELSE s[f]]

\* Mutant of Rounded: to an even number.
RoundedEven(size) == Least(size .. size + 1, LAMBDA s : s % 2 = 0)

\* To a multiple of four.
Rounded(size) == Least(size .. size + 3, LAMBDA s : s % 4 = 0)

SetImageSizes ==
  /\ ipc = "sizes"
  /\ LET size   == Rounded(img.image_size)
         larger == (size * img.padding_factor.num) \div img.padding_factor.den
     IN  img' = With([image_size |-> size, padded_image_size |-> Rounded(larger)], img)
  /\ ipc' = "check"
  /\ UNCHANGED <<awvars, grids, sample_grid_total, fft_result, norm_result, fftw_threads>>

padded_size == img.padded_image_size

\* Assertions, and the combinations with A-projection that are refused.
CheckParameters ==
  /\ ipc = "check"
  /\ LET wproj   == img.gridder.num_wplanes > 0
         aproj   == img.gridder.num_timesteps > 0
         refused == aproj /\ (~ wproj \/ img.gridder.hankel_opt)
     IN  ipc' = IF build.asserts /\ (padded_size \notin PowersOfTwo(padded_size) \/ refused) THEN "aborted"
                ELSE IF refused THEN "threw" ELSE "init_fftw"
  /\ UNCHANGED <<awvars, img, grids, sample_grid_total, fft_result, norm_result, fftw_threads>>

\* init_fftw: threads, and the wisdom file.
InitFFTW ==
  /\ ipc = "init_fftw"
  /\ \E threads, wisdom \in BOOLEAN :
       /\ fftw_threads' = threads
       /\ ipc' = IF ~ threads \/ (img.r_fft \in Wisdom /\ ~ wisdom) THEN "threw" ELSE "grid"
  /\ UNCHANGED <<awvars, img, grids, sample_grid_total, fft_result, norm_result>>

\* convolve_to_grid, to half of the plane.
Grid ==
  /\ ipc = "grid"
  /\ CallGridder(With([image_size |-> padded_size, analytic_gcf |-> img.analytic_gcf,
                       r_fft |-> img.r_fft], img.gridder))
  /\ ipc' = "gridding"
  /\ UNCHANGED <<img, grids, sample_grid_total, fft_result, norm_result, fftw_threads>>

half_rows == padded_size \div 2 + 1

InPlace == img.r_fft = "FFTW_WISDOM_INPLACE_FFT"

\* The grids are returned.  For the transform in place the results share their memory,
\* with two real rows for each of complex numbers.
GridsReturned ==
  /\ ipc = "gridding"
  /\ \E total \in BOOLEAN :
       /\ total => \E v \in Visibilities : gridded[v] # <<>>
       /\ sample_grid_total' = total
  /\ ReturnGridder
  /\ grids' = [image |-> "grid", beam |-> IF img.generate_beam THEN "grid" ELSE "none"]
  /\ fft_result' = [m \in Results |->
                      IF InPlace /\ grids'[m] = "grid"
                      THEN [memory |-> "grids", n_rows |-> 2 * half_rows, plan_rows |-> 0]
                      ELSE NoMatrix]
  /\ ipc' = "transform_image"
  /\ UNCHANGED <<img, norm_result, fftw_threads>>

TransformGrid ==
  /\ CallC2R(half_rows, padded_size, img.r_fft)
  /\ UNCHANGED <<aw, widevars, gridvars, img, grids, sample_grid_total, fft_result, norm_result,
                 fftw_threads>>

\* Mutant of Kept: the grid is deleted after the transform in any case.
KeptNever == FALSE

\* The memory of the grid is not deleted.
Kept == InPlace

\* fft_fftw_c2r returns.
Transformed2D(m) ==
  /\ ReturnFFT
  /\ fft_result' =
       [fft_result EXCEPT
          ![m].memory    = IF InPlace THEN @ ELSE "own",
          ![m].n_rows    = IF InPlace THEN @ ELSE transform.n_rows,
          ![m].plan_rows = transform.n_rows]
  /\ grids' = [grids EXCEPT ![m] = IF Kept THEN "sky" ELSE "reset"]
  /\ UNCHANGED <<aw, widevars, gridvars, img, sample_grid_total, norm_result, fftw_threads>>

TransformImage == ipc = "transform_image" /\ ipc' = "fft_image" /\ TransformGrid

ImageTransformed ==
  /\ ipc = "fft_image"
  /\ ipc' = IF img.generate_beam THEN "transform_beam" ELSE "gcf"
  /\ Transformed2D("image")

TransformBeam == ipc = "transform_beam" /\ ipc' = "fft_beam" /\ TransformGrid

BeamTransformed == ipc = "fft_beam" /\ ipc' = "gcf" /\ Transformed2D("beam")

------------------------------------------------------------------------------
\* normalise_image_beam_result_1D, unless nothing was gridded.

\* The image-domain kernel is known, from a transform if there is no expression for it.
ComputeGCF ==
  /\ ipc = "gcf"
  /\ IF sample_grid_total /\ img.gridding_correction /\ ~ img.analytic_gcf
     THEN /\ CallR2R1D(padded_size, IF padded_size < 4 THEN "FFTW_ESTIMATE_FFT" ELSE img.r_fft)
          /\ ipc' = "fft_gcf"
     ELSE /\ ipc' = IF sample_grid_total THEN "normalise_image" ELSE "clean_up"
          /\ UNCHANGED fftvars
  /\ UNCHANGED <<aw, widevars, gridvars, img, grids, sample_grid_total, fft_result, norm_result,
                 fftw_threads>>

GCFTransformed ==
  /\ ipc = "fft_gcf"
  /\ ReturnFFT
  /\ ipc' = "normalise_image"
  /\ UNCHANGED <<aw, widevars, gridvars, img, grids, sample_grid_total, fft_result, norm_result,
                 fftw_threads>>

half_size == img.image_size \div 2

\* The row of the transform, and the element of the kernel, for row i of the image.
OrigRow(i) == IF i < half_size THEN i ELSE padded_size - half_size + (i - half_size)

GCFRow(i) == IF i < half_size THEN padded_size \div 2 + i ELSE padded_size \div 2 - half_size + (i - half_size)

\* Mutant of OrigColumn: orig_j starts at the same column for every range of the right side.
OrigColumnUnsplit(j, r) ==
  IF r[1] < half_size THEN j ELSE padded_size - half_size + (j - r[1])

\* The same for column j, in a range of the left or the right side.
OrigColumn(j, r) == IF r[1] < half_size THEN j ELSE padded_size + r[1] - img.image_size + (j - r[1])

GCFColumn(j, r) ==
  IF r[1] < half_size THEN j + padded_size \div 2 ELSE padded_size \div 2 + j - img.image_size

Pixels == (0 .. img.image_size - 1) \X (0 .. img.image_size - 1)

\* The transform is given up when the image is complete.
Normalise(m) ==
  /\ \E left \in Split(0, half_size), right \in Split(half_size, img.image_size) :
       LET range(j) == CHOOSE r \in left \union right : r[1] <= j /\ j < r[2]
       IN  norm_result' = [norm_result EXCEPT ![m] =
             [p \in Pixels |->
                [at  |-> <<OrigRow(p[1]), OrigColumn(p[2], range(p[2]))>>,
                 gcf |-> IF img.gridding_correction
                         THEN <<GCFRow(p[1]), GCFColumn(p[2], range(p[2]))>> ELSE <<>>]]]
  /\ UNCHANGED <<awvars, img, grids, sample_grid_total, fft_result, fftw_threads>>

NormaliseImage ==
  /\ ipc = "normalise_image"
  /\ ipc' = IF img.generate_beam THEN "normalise_beam" ELSE "clean_up"
  /\ Normalise("image")

NormaliseBeam == ipc = "normalise_beam" /\ ipc' = "clean_up" /\ Normalise("beam")

CleanUpThreads ==
  /\ ipc = "clean_up"
  /\ fftw_threads' = FALSE
  /\ ipc' = "done"
  /\ UNCHANGED <<awvars, img, grids, sample_grid_total, fft_result, norm_result>>

\* A transform or the gridder fails.
ImagerFails ==
  /\ \/ ipc \in {"fft_image", "fft_beam", "fft_gcf"} /\ fpc \in {"threw", "aborted"} /\ ipc' = fpc
     \/ ipc = "gridding" /\ gpc \in {"threw", "aborted"} /\ ipc' = gpc
  /\ UNCHANGED <<awvars, img, grids, sample_grid_total, fft_result, norm_result, fftw_threads>>

\* One step, of image_visibilities or of a function that it has called.
ImagerStep ==
  \/ SetImageSizes
  \/ CheckParameters
  \/ InitFFTW
  \/ Grid
  \/ GridsReturned
  \/ TransformImage
  \/ ImageTransformed
  \/ TransformBeam
  \/ BeamTransformed
  \/ ComputeGCF
  \/ GCFTransformed
  \/ NormaliseImage
  \/ NormaliseBeam
  \/ CleanUpThreads
  \/ ImagerFails
  \/ GridderStep /\ UNCHANGED imgvars
  \/ WideStep /\ UNCHANGED <<gridvars, imgvars>>
  \/ FFTStep /\ UNCHANGED <<aw, widevars, gridvars, imgvars>>

ImagerNext == (\E c \in ImageCalls : CallImager(c)) \/ ImagerStep

ImagerSpec == ImagerIdle /\ [][ImagerNext]_imagervars

\* With W-projection the kernels fit in the image.
KernelsFit ==
  \A c \in ImageCalls : c.gridder.num_wplanes > 0 => KernelArguments(c.gridder, c.image_size)

------------------------------------------------------------------------------
(***************************************************************************)
(* Every pixel of the image and of the beam is taken from the element of   *)
(* the transform that has the pixel's own offset from the centre of the    *)
(* sky, and corrected by the elements of the image-domain kernel with the  *)
(* same offsets; the transform is as large as the grid, is laid out as     *)
(* FFTW left it and its memory has not been given up.                      *)
(***************************************************************************)
NormalisationAligned ==
  \A m \in Results : norm_result[m] # Empty =>
    LET result    == fft_result[m]
        Offset(i) == IF i < half_size THEN i ELSE i - img.image_size
    IN  /\ result.plan_rows = padded_size
        /\ result.n_rows = IF InPlace THEN 2 * (padded_size \div 2 + 1) ELSE padded_size
        /\ result.memory = "grids" => grids[m] = "sky"
        /\ \A p \in Pixels :
             LET pixel == norm_result[m][p]
             IN  /\ pixel.at = <<Offset(p[1]) % padded_size, Offset(p[2]) % padded_size>>
                 /\ img.gridding_correction =>
                      pixel.gcf = <<padded_size \div 2 + Offset(p[1]), padded_size \div 2 + Offset(p[2])>>
==============================================================================
