------------------------------- MODULE MCReduce -------------------------------
\* Small images, sets of visibilities and samples for Reduce.
EXTENDS Reduce

\* Sequences of at most four different values, in ascending order.
Ascending(size, a, b, c, d) ==
  {[i \in 0 .. size - 1 |-> IF i < t[1] THEN a ELSE IF i < t[2] THEN b ELSE IF i < t[3] THEN c ELSE d] :
     t \in {u \in (0 .. size) \X (0 .. size) \X (0 .. size) : u[1] <= u[2] /\ u[2] <= u[3]}}

MCMedianCalls ==
  [data : Ascending(6, -3, 0, 1, 9) \union Ascending(9, -3, 0, 1, 2) \union [0 .. 3 -> 0 .. 2],
   approx : BOOLEAN]

MCRmsCalls ==
  [data : Ascending(8, -9, 0, 1, 9) \union Ascending(16, -9, 0, 1, 3), num_sigma : {3}, iters : {0, 2, 3}]

------------------------------------------------------------------------------
AsImage(s) == [i \in 0 .. Len(s) - 1 |-> s[i + 1]]

Find(s) ==
  [image |-> AsImage(s), rows |-> 2, cols |-> 4, detection_n_sigma |-> 2, analysis_n_sigma |-> 1,
   rms_est |-> [num |-> 4, den |-> 1], find_negative_sources |-> TRUE, sigma_clip_iters |-> 2,
   median_method |-> "ZEROMEDIAN", gaussian_fitting |-> TRUE, ccl_4connectivity |-> TRUE,
   generate_labelmap |-> TRUE, source_min_area |-> 1, fftshift |-> FALSE]

MCSourceFindCalls ==
  {[Find(<<5, 4, 0, 4, 3, 0, 0, 6>>) EXCEPT !.generate_labelmap = b, !.source_min_area = a,
                                            !.gaussian_fitting = g] :
     a \in {1, 4}, b, g \in BOOLEAN}
  \union
  {[Find(<<5, 0, 0, -3, -5, 0, 9, 0>>) EXCEPT !.median_method = m, !.rms_est = r] :
     m \in {"ZEROMEDIAN", "BINAPPROX", "BINMEDIAN", "NTHELEMENT"},
     r \in {[num |-> 0, den |-> 1], [num |-> 4, den |-> 1]}}
  \union
  {[Find(<<-3, -10, -10, -2, -10, -10, -10, -3>>) EXCEPT !.median_method = m,
                                                        !.ccl_4connectivity = FALSE] :
     m \in {"BINMEDIAN", "ZEROMEDIAN"}}

------------------------------------------------------------------------------
Build(asserts, float, serial) == [asserts |-> asserts, float |-> float, serial_gridder |-> serial]

Vis(good, lha) == [v \in 0 .. Len(good) - 1 |-> [good |-> good[v + 1], lha |-> lha[v + 1]]]

NoProjection ==
  [max_wpconv_support |-> 0, support |-> 3, oversampling |-> 1, undersampling_opt |-> 0,
   hankel_opt |-> FALSE, hankel_proj_slice |-> FALSE, truncates |-> FALSE,
   significant |-> [p \in {0} |-> {}], num_wplanes |-> 0, num_timesteps |-> 0, aproj_opt |-> FALSE,
   w_planes_firstidx |-> [p \in {0} |-> 0], vis |-> Vis(<<1, 0>>, <<0, 0>>)]

Image ==
  [image_size |-> 8, padding_factor |-> [num |-> 1, den |-> 1], generate_beam |-> FALSE,
   gridding_correction |-> TRUE, analytic_gcf |-> TRUE, r_fft |-> "FFTW_ESTIMATE_FFT",
   gridder |-> NoProjection, build |-> Build(FALSE, FALSE, FALSE)]

\* Sizes, padding and transforms.
PlainCalls ==
  {[Image EXCEPT !.image_size = s, !.padding_factor = f, !.generate_beam = b, !.gridding_correction = c,
                 !.analytic_gcf = a, !.r_fft = r, !.build = Build(d, d, FALSE)] :
     s \in {3, 7}, f \in {[num |-> 1, den |-> 1], [num |-> 3, den |-> 2], [num |-> 2, den |-> 1]},
     r \in {"FFTW_ESTIMATE_FFT", "FFTW_WISDOM_INPLACE_FFT"}, a, b, c, d \in BOOLEAN}
  \union
  {[Image EXCEPT !.gridder.vis = Vis(<<0, 0>>, <<0, 0>>), !.r_fft = r,
                 !.build = Build(r = "FFTW_MEASURE_FFT", FALSE, TRUE)] :
     r \in {"FFTW_WISDOM_FFT", "FFTW_MEASURE_FFT"}}

\* W-projection: kernels from two planes, with every way to compute and to truncate them.
WProjectionCalls ==
  {[Image EXCEPT !.analytic_gcf = a,
                 !.gridder = [NoProjection EXCEPT
                   !.max_wpconv_support = m, !.oversampling = o, !.undersampling_opt = u,
                   !.hankel_opt = h # "fft", !.hankel_proj_slice = h = "slice", !.truncates = t,
                   !.significant = s, !.num_wplanes = 2, !.w_planes_firstidx = [p \in 0 .. 1 |-> 2 * p],
                   !.vis = Vis(<<1, 0, 1, 1>>, <<0, 0, 0, 0>>)]] :
     m \in {1, 3}, o \in {1, 2}, u \in {0, 1}, h \in {"fft", "hankel", "slice"}, a, t \in BOOLEAN,
     s \in {[p \in 0 .. 1 |-> S[p + 1]] :
              S \in {<<{0}, {0, 2}>>, <<{0, 1, 2, 3, 4}, {0, 1}>>, <<{0, 6}, {}>>}}}

\* A-projection: the beam is rotated, or (aproj_opt) the kernel is.
AProjectionCalls ==
  {[Image EXCEPT !.build = Build(d, FALSE, serial),
                 !.gridder = [NoProjection EXCEPT
                   !.max_wpconv_support = 3, !.oversampling = 2, !.truncates = TRUE,
                   !.significant = [p \in 0 .. 1 |-> s], !.num_wplanes = 2, !.num_timesteps = times,
                   !.aproj_opt = o, !.w_planes_firstidx = [p \in 0 .. 1 |-> 2 * p],
                   !.vis = Vis(good, <<0, 3, 1, 4>>)]] :
     d, serial, o \in BOOLEAN, s \in {{0, 1, 2}, {0}}, times \in {1, 3},
     good \in {<<1, 1, 1, 1>>, <<1, 0, 1, 1>>}}
  \union
  {[Image EXCEPT !.build = Build(d, d, FALSE), !.gridder.num_timesteps = 2,
                 !.gridder.num_wplanes = w, !.gridder.hankel_opt = TRUE,
                 !.gridder.w_planes_firstidx = [p \in 0 .. 1 |-> p]] :
     d \in BOOLEAN, w \in {0, 2}}

MCImageCalls == PlainCalls \union WProjectionCalls \union AProjectionCalls

------------------------------------------------------------------------------
\* What the theorems about the statistics and about the kernels suppose.
ASSUME CallsAssumption == NarrowCalls /\ KernelsFit
==============================================================================
