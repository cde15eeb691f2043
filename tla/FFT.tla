--------------------------------- MODULE FFT ----------------------------------
(***************************************************************************)
(* The transforms of src/stp/common/fft.cpp, one at a time: FFTW is asked  *)
(* for a plan, once more with FFTW_ESTIMATE if there is none, and the plan *)
(* is executed and destroyed; or an exception is thrown.                   *)
(*                                                                         *)
(* Every function has an instance of the code for float and one for double; *)
(* they differ in an assertion.  Whether FFTW starts its threads, reads    *)
(* the wisdom file and finds a plan is its own affair.                     *)
(***************************************************************************)
EXTENDS Integers

Wisdom == {"FFTW_WISDOM_FFT", "FFTW_WISDOM_INPLACE_FFT"}
Slow   == {"FFTW_MEASURE_FFT", "FFTW_PATIENT_FFT"}

\* The members of FFTRoutine.
FFTRoutine == {"FFTW_ESTIMATE_FFT"} \union Wisdom \union Slow

\* The options of the build that matter: assertions (not NDEBUG), USE_FLOAT and
\* USE_SERIAL_GRIDDER.  (USE_FFTSHIFT is off.)
DefaultBuild == [asserts |-> FALSE, float |-> FALSE, serial_gridder |-> FALSE]

VARIABLES
  build,           \* how the program was compiled
  fpc,             \* "idle", "plan", "retry", "execute", "done", "threw" or "aborted"
  transform        \* the function called, the size planned for, and the routine

fftvars == <<build, fpc, transform>>

NoTransform == [kind |-> "none", n_rows |-> 0, n_cols |-> 0, r_fft |-> "FFTW_ESTIMATE_FFT"]

FFTIdle ==
  /\ build = DefaultBuild
  /\ fpc = "idle"
  /\ transform = NoTransform

\* The program has ended.
ResetFFT ==
  /\ build' = DefaultBuild
  /\ fpc' = "idle"
  /\ transform' = NoTransform

\* The functions in which a build for float with assertions requires the first plan.
AssertsPlan(kind) == kind \in {"c2r", "c2c"} /\ build.float /\ build.asserts

\* fft_fftw_c2r: the number of rows of the output, from that of the half-plane.
RealRows(n_rows) == IF n_rows % 2 = 0 THEN n_rows * 2 ELSE (n_rows - 1) * 2

Call(kind, n_rows, n_cols, r_fft) ==
  /\ fpc = "idle"
  /\ fpc' = "plan"
  /\ transform' = [kind |-> kind, n_rows |-> n_rows, n_cols |-> n_cols, r_fft |-> r_fft]
  /\ UNCHANGED build

\* fft_fftw_c2r, from the half-plane grid to an image.
CallC2R(n_rows, n_cols, r_fft) == Call("c2r", RealRows(n_rows), n_cols, r_fft)

\* fft_fftw_c2c: a square kernel.
CallC2C(size, r_fft) == Call("c2c", size, size, r_fft)

\* fft_fftw_dft_c2c_1d
CallC2C1D(size, r_fft) == Call("c2c_1d", size, 1, r_fft)

\* fft_fftw_dft_r2r_1d
CallR2R1D(size, r_fft) == Call("r2r_1d", size, 1, r_fft)

\* The first plan.  Slow planners are ruled out by an assertion.
Plan ==
  /\ fpc = "plan"
  /\ \E found \in BOOLEAN :
       fpc' = IF build.asserts /\ transform.r_fft \in Slow THEN "aborted"
              ELSE IF found THEN "execute"
              ELSE IF AssertsPlan(transform.kind) THEN "aborted" ELSE "retry"
  /\ UNCHANGED <<build, transform>>

\* Trying again with FFTW_ESTIMATE.
RetryWithEstimate ==
  /\ fpc = "retry"
  /\ \E found \in BOOLEAN : fpc' = IF found THEN "execute" ELSE "threw"
  /\ UNCHANGED <<build, transform>>

\* The plan is executed and destroyed.
Execute ==
  /\ fpc = "execute"
  /\ fpc' = "done"
  /\ UNCHANGED <<build, transform>>

FFTStep == Plan \/ RetryWithEstimate \/ Execute

\* The caller goes on.
ReturnFFT ==
  /\ fpc = "done"
  /\ fpc' = "idle"
  /\ transform' = NoTransform
  /\ UNCHANGED build
==============================================================================
