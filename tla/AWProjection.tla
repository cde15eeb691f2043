----------------------------- MODULE AWProjection -----------------------------
(***************************************************************************)
(* convolve_to_grid of src/stp/gridder/gridder.h with W-projection and     *)
(* A-projection: the loop over planes and time steps, which kernel each    *)
(* visibility is gridded with.  (How a visibility is added to the grid is  *)
(* the subject of ConvolveToGrid and ParallelGridder, the division into    *)
(* planes that of WPlanes.)                                                *)
(*                                                                         *)
(* The serial build and the multi-threaded one differ: only the latter has *)
(* aproj_opt, which rotates the kernel instead of the A-kernel.            *)
(***************************************************************************)
EXTENDS WideFieldImaging, Sums

VARIABLES
  gpc,             \* "idle", "start", "kernel_img", "planes", "wplane", "step_kernel", "steps",
                   \* "step", "grid", "done", "threw" or "aborted"
  vis_timesteps,   \* of each visibility
  lha_planes,      \* the hour angle of each time step, [num, den]
  pi, ts,
  kernel_cache,    \* the kernel that was cached: [plane, rotations, support]
  gridded          \* for each visibility the kernels it was gridded with

gridvars == <<gpc, vis_timesteps, lha_planes, pi, ts, kernel_cache, gridded>>
awvars == <<kernelvars, gridvars>>

use_wproj == aw.num_wplanes > 0
use_aproj == aw.num_timesteps > 0

Visibilities == DOMAIN aw.vis

Unrotated == <<>>

NoCache == [plane |-> -1, rotations |-> <<>>, support |-> 0]

GridIdle ==
  /\ gpc = "idle"
  /\ vis_timesteps = <<>> /\ lha_planes = <<>>
  /\ pi = 0 /\ ts = 0
  /\ kernel_cache = NoCache
  /\ gridded = <<>>

\* The function returns and its variables are gone.
ReturnFromGridder ==
  /\ gpc' = "idle"
  /\ vis_timesteps' = <<>> /\ lha_planes' = <<>>
  /\ pi' = 0 /\ ts' = 0
  /\ kernel_cache' = NoCache
  /\ gridded' = <<>>

\* The arguments: visibilities with indices from 0 on, and the first visibility of each
\* plane, as average_w_planes returns it.
GridderArguments(a) ==
  /\ {"vis", "num_wplanes", "w_planes_firstidx", "num_timesteps", "aproj_opt", "hankel_opt"}
       \subseteq DOMAIN a
  /\ a.num_wplanes \in Nat /\ a.num_timesteps \in Nat
  /\ LET n == Cardinality(DOMAIN a.vis)
     IN  /\ n \in Nat
         /\ DOMAIN a.vis = 0 .. n - 1
         /\ a.num_wplanes > 0 =>
              /\ a.w_planes_firstidx \in [0 .. a.num_wplanes - 1 -> 0 .. n]
              /\ a.w_planes_firstidx[0] = 0
              /\ \A p \in 1 .. a.num_wplanes - 1 :
                   a.w_planes_firstidx[p - 1] <= a.w_planes_firstidx[p]
  /\ \A v \in DOMAIN a.vis : a.vis[v].lha \in Int

\* A call.  Without W-projection there is one plane, with the anti-aliasing kernel.
CallGridder(arguments) ==
  /\ gpc = "idle"
  /\ gpc' = "start"
  /\ aw' = arguments
  /\ gridded' = [v \in DOMAIN arguments.vis |-> <<>>]
  /\ UNCHANGED <<fftvars, widevars, vis_timesteps, lha_planes, pi, ts, kernel_cache>>

\* ImgDomKernel, from an expression or with fft_fftw_dft_r2r_1d, and the constructor.
StartGridder ==
  /\ gpc = "start"
  /\ IF ~ use_wproj
     THEN /\ kernel_cache' = [plane |-> 0, rotations |-> Unrotated, support |-> aw.support]
          /\ gpc' = "planes"
          /\ UNCHANGED <<fftvars, widevars>>
     ELSE /\ Construct
          /\ UNCHANGED kernel_cache
          /\ IF aw.analytic_gcf
             THEN gpc' = "planes" /\ UNCHANGED fftvars
             ELSE /\ CallR2R1D(workarea_size,
                               IF workarea_size < 4 THEN "FFTW_ESTIMATE_FFT" ELSE aw.r_fft)
                  /\ gpc' = "kernel_img"
  /\ UNCHANGED <<aw, vis_timesteps, lha_planes, pi, ts, gridded>>

KernelImageTransformed ==
  /\ gpc = "kernel_img"
  /\ ReturnFFT
  /\ gpc' = "planes"
  /\ UNCHANGED <<aw, widevars, vis_timesteps, lha_planes, pi, ts, kernel_cache, gridded>>

------------------------------------------------------------------------------
\* average_lha_planes.  Times are multiplied by 2 * T * T, for T time steps.

T == aw.num_timesteps

Scaled(time) == 2 * T * T * time

lha_of == [v \in Visibilities |-> aw.vis[v].lha]

min_time == Min({aw.vis[v].lha : v \in Visibilities})
max_time == Max({aw.vis[v].lha : v \in Visibilities})

\* linspace from half a step before the first time to half a step after the last.
TimeInterval(k) ==
  Scaled(min_time) - T * (max_time - min_time) + 2 * k * (T + 1) * (max_time - min_time)

\* Mutant of StepOf: the search starts after the first limit.
StepOfNext(time) ==
  LET later == {k \in 2 .. T : Scaled(time) <= TimeInterval(k)}
  IN  (IF later = {} THEN T + 1 ELSE Min(later)) - 1

\* The first interval whose upper limit is not passed, counting from 0.
StepOf(time) ==
  LET later == {k \in 1 .. T : Scaled(time) <= TimeInterval(k)}
  IN  (IF later = {} THEN T + 1 ELSE Min(later)) - 1

\* Mutant of InStep: visibilities that are out of bounds count.
InStepAll(step) == {v \in Visibilities : vis_timesteps'[v] = step}

InStep(step) == {v \in Visibilities : aw.vis[v].good # 0 /\ vis_timesteps'[v] = step}

\* The time step of a visibility that is out of bounds is not initialised.
AverageLha ==
  /\ gpc = "planes"
  /\ use_aproj
  /\ vis_timesteps = <<>>
  /\ \E garbage \in 0 .. T :
       vis_timesteps' = [v \in Visibilities |->
                           IF aw.vis[v].good # 0 THEN StepOf(aw.vis[v].lha) ELSE garbage]
  /\ lha_planes' = [k \in 0 .. T - 1 |->
                      IF InStep(k) = {} THEN [num |-> 0, den |-> 1]
                      ELSE [num |-> SumOf(lha_of, InStep(k)),
                            den |-> Cardinality(InStep(k))]]
  /\ UNCHANGED <<kernelvars, gpc, pi, ts, kernel_cache, gridded>>

------------------------------------------------------------------------------
\* Planes and time steps.

Planes == IF use_wproj THEN aw.num_wplanes ELSE 1

vi_begin(p) == IF use_wproj THEN aw.w_planes_firstidx[p] ELSE 0

vi_end(p) == IF p = Planes - 1 THEN Cardinality(Visibilities) ELSE aw.w_planes_firstidx[p + 1]

\* aproj_opt, where there is one.
RotatesKernel == aw.aproj_opt /\ ~ build.serial_gridder

\* The kernel of a plane: of W-projection, or the image-domain kernel for A-projection,
\* to be multiplied at every time step, or only once.
StartPlane ==
  /\ gpc = "planes"
  /\ pi < Planes
  /\ use_aproj => vis_timesteps # <<>>
  /\ ts' = 0
  /\ IF ~ use_wproj
     THEN gpc' = "grid" /\ UNCHANGED <<fftvars, widevars>>
     ELSE IF use_aproj
     THEN /\ GenerateImageDomain(pi)
          /\ gpc' = IF RotatesKernel THEN "wplane" ELSE "steps"
     ELSE GenerateWProj(pi) /\ gpc' = "step"
  /\ UNCHANGED <<aw, vis_timesteps, lha_planes, pi, kernel_cache, gridded>>

\* aproj_opt: the kernel that is going to be rotated.
MultiplyPlaneKernel ==
  /\ gpc = "wplane"
  /\ kpc = "idle"
  /\ MultiplyAKernel(Unrotated)
  /\ gpc' = "step_kernel"
  /\ UNCHANGED <<vis_timesteps, lha_planes, pi, ts, kernel_cache, gridded>>

PlaneKernelMultiplied ==
  /\ gpc = "step_kernel"
  /\ kpc = "kernel"
  /\ gpc' = "steps"
  /\ UNCHANGED <<kernelvars, vis_timesteps, lha_planes, pi, ts, kernel_cache, gridded>>

\* Mutant of RotatedTo: the kernel of the first time step serves all.
RotatedToFirst(step) == <<lha_planes[0]>>

\* The A-kernel is generated for the parallactic angle of the step.
RotatedTo(step) == <<lha_planes[step]>>

\* A-projection: the kernel of a time step.
StartStep ==
  /\ gpc = "steps"
  /\ ts < T
  /\ IF RotatesKernel
     THEN /\ conv_kernel' = [conv_kernel EXCEPT !.rotations = Append(@, lha_planes[ts])]
          /\ UNCHANGED <<fftvars, aw, kpc, w_plane, comb_kernel, product, trunc_idx,
                         truncated_wpconv_support, current_hankel_kernel_size,
                         kernel_half_quandrant>>
     ELSE MultiplyAKernel(RotatedTo(ts))
  /\ gpc' = "step"
  /\ UNCHANGED <<vis_timesteps, lha_planes, pi, ts, kernel_cache, gridded>>

\* generate_kernel_cache, and the support of the gridding kernel.
CacheKernel ==
  /\ gpc = "step"
  /\ kpc = "kernel"
  /\ kernel_cache' = [plane |-> conv_kernel.plane, rotations |-> conv_kernel.rotations,
                      support |-> truncated_wpconv_support]
  /\ gpc' = IF build.asserts /\ truncated_wpconv_support = 0 THEN "aborted" ELSE "grid"
  /\ UNCHANGED <<kernelvars, vis_timesteps, lha_planes, pi, ts, gridded>>

\* Mutant of Gridded: visibilities of other time steps are not skipped.
GriddedAny(v) == vi_begin(pi) <= v /\ v < vi_end(pi) /\ aw.vis[v].good # 0

\* The visibilities of the plane and the time step that are in bounds.
Gridded(v) ==
  /\ vi_begin(pi) <= v /\ v < vi_end(pi)
  /\ use_aproj => vis_timesteps[v] = ts
  /\ aw.vis[v].good # 0

\* The visibilities of a plane and a time step, and the next time step or plane.
GridVisibilities ==
  /\ gpc = "grid"
  /\ gridded' = [v \in Visibilities |->
                   IF Gridded(v) THEN Append(gridded[v], kernel_cache) ELSE gridded[v]]
  /\ IF use_aproj /\ ts + 1 < T
     THEN ts' = ts + 1 /\ gpc' = "steps" /\ UNCHANGED pi
     ELSE pi' = pi + 1 /\ gpc' = "planes" /\ UNCHANGED ts
  /\ UNCHANGED <<kernelvars, vis_timesteps, lha_planes, kernel_cache>>

GridderDone ==
  /\ gpc = "planes"
  /\ pi = Planes
  /\ gpc' = "done"
  /\ UNCHANGED <<kernelvars, vis_timesteps, lha_planes, pi, ts, kernel_cache, gridded>>

\* A transform throws, or an assertion in it fails.
TransformFails ==
  /\ gpc \in {"kernel_img", "step_kernel", "step"}
  /\ fpc \in {"threw", "aborted"}
  /\ gpc' = fpc
  /\ UNCHANGED <<kernelvars, vis_timesteps, lha_planes, pi, ts, kernel_cache, gridded>>

\* The caller has the grid and the objects are destroyed.
ReturnGridder ==
  /\ gpc = "done"
  /\ ReturnFromGridder
  /\ DestroyKernels
  /\ UNCHANGED fftvars

GridderStep ==
  \/ StartGridder
  \/ KernelImageTransformed
  \/ AverageLha
  \/ StartPlane
  \/ MultiplyPlaneKernel
  \/ PlaneKernelMultiplied
  \/ StartStep
  \/ CacheKernel
  \/ GridVisibilities
  \/ GridderDone
  \/ TransformFails

------------------------------------------------------------------------------
(***************************************************************************)
(* average_lha_planes: every visibility in bounds is in one of the time    *)
(* steps, at a time between its limits, and so is the mean time that the   *)
(* beam is rotated for ("calculate average of LHA planes"; the code        *)
(* asserts seltimestep_idx < num_timesteps).                               *)
(***************************************************************************)
StepsSpanTimes ==
  vis_timesteps # <<>> =>
    \A v \in Visibilities : aw.vis[v].good # 0 =>
      LET k    == vis_timesteps[v]
          mean == lha_planes[k]
      IN  /\ k \in 0 .. T - 1
          /\ TimeInterval(k) <= Scaled(aw.vis[v].lha)
          /\ Scaled(aw.vis[v].lha) <= TimeInterval(k + 1)
          /\ mean.den * TimeInterval(k) <= Scaled(mean.num)
          /\ Scaled(mean.num) <= mean.den * TimeInterval(k + 1)

(***************************************************************************)
(* Every visibility in bounds is gridded once, with the kernel of its own  *)
(* plane, rotated once, to its own time step.  (With aproj_opt only the    *)
(* first time step's kernel is: gridder.h rotates it again for each of the *)
(* others.)                                                                *)
(***************************************************************************)
OwnPlaneAndStep ==
  gpc = "done" =>
    \A v \in Visibilities :
      /\ Len(gridded[v]) = IF aw.vis[v].good # 0 THEN 1 ELSE 0
      /\ aw.vis[v].good # 0 =>
           LET kernel == gridded[v][1]
           IN  /\ vi_begin(kernel.plane) <= v /\ v < vi_end(kernel.plane)
               /\ use_aproj /\ (RotatesKernel => vis_timesteps[v] = 0)
                    => kernel.rotations = <<lha_planes[vis_timesteps[v]]>>
==============================================================================
