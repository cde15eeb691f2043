--------------------------- MODULE WideFieldImaging ---------------------------
(***************************************************************************)
(* The class WideFieldImaging of src/stp/gridder/aw_projection.cpp: the    *)
(* convolution kernels of W-projection and A-projection, one plane or time *)
(* step at a time, their truncation and the cache of sub-pixel kernels.    *)
(*                                                                         *)
(* The value of a kernel is abstracted to where it is taken: an image-domain *)
(* sample is the set of its distances (pixel_x and pixel_y of              *)
(* combine_2d_kernel_value, which is symmetric), and of the transformed    *)
(* kernel only the plane, the rotations and the distances at which it is   *)
(* above the truncation threshold are known.                               *)
(***************************************************************************)
EXTENDS FFT, Sequences, FiniteSets, FiniteSetsExt, Sums

CONSTANT
  UIntMod          \* 2^32, the number of values of a uint

ASSUME UIntAssumption == UIntMod \in Nat \ {0}

VARIABLES
  kpc,             \* "idle", "fft", "multiply", "truncate", "interpolate", "kernel"
  aw,              \* the arguments of convolve_to_grid (see GridderCalls)
  w_plane,         \* the plane whose w_value was used last
  comb_kernel,     \* image-domain kernel: position -> set of samples written there
  product,         \* tmp_kernel, or the projected image-domain kernel
  conv_kernel,     \* [plane, rotations]
  trunc_idx,
  truncated_wpconv_support, current_hankel_kernel_size,
  kernel_half_quandrant  \* index -> the two distances of the sample

widevars == <<kpc, w_plane, comb_kernel, product, conv_kernel, trunc_idx, truncated_wpconv_support,
              current_hankel_kernel_size, kernel_half_quandrant>>
kernelvars == <<fftvars, aw, widevars>>

NoKernel == [plane |-> -1, rotations |-> <<>>]

\* The members of S with the property: the least of them.
Least(S, P(_)) == Min({x \in S : P(x)})

\* 2, 4, ...; one of them is not less than n.
PowersOfTwo(n) == {2^k : k \in 1..n}

\* Size of the kernel working area, which is kernel_size of the object.
workarea_size ==
  IF aw.undersampling_opt > 0
  THEN LET size     == 2 * aw.max_wpconv_support + 1
           quotient == 2^(aw.undersampling_opt - 1)
       IN  Least(PowersOfTwo(size * quotient), LAMBDA s : s \div quotient >= size)
  ELSE Least(PowersOfTwo(aw.image_size), LAMBDA s : s >= aw.image_size)

half_kernel_size == workarea_size \div 2

array_size == workarea_size * aw.oversampling

\* Small kernels are transformed without wisdom.
KernelRoutine == IF array_size < 4 THEN "FFTW_ESTIMATE_FFT" ELSE aw.r_fft

WideIdle ==
  /\ kpc = "idle"
  /\ aw = [image_size |-> 0]
  /\ w_plane = -1
  /\ comb_kernel = <<>> /\ product = <<>> /\ kernel_half_quandrant = <<>>
  /\ conv_kernel = NoKernel
  /\ trunc_idx = 0
  /\ truncated_wpconv_support = 0 /\ current_hankel_kernel_size = 0

\* The object is destroyed.
DestroyKernels ==
  /\ kpc' = "idle"
  /\ aw' = [image_size |-> 0]
  /\ w_plane' = -1
  /\ comb_kernel' = <<>> /\ product' = <<>> /\ kernel_half_quandrant' = <<>>
  /\ conv_kernel' = NoKernel
  /\ trunc_idx' = 0
  /\ truncated_wpconv_support' = 0 /\ current_hankel_kernel_size' = 0

\* The constructor.  (workarea_size is even, so that it does not throw.)
Construct ==
  /\ truncated_wpconv_support' = aw.max_wpconv_support
  /\ current_hankel_kernel_size' = aw.max_wpconv_support
  /\ UNCHANGED <<kpc, w_plane, comb_kernel, product, conv_kernel, trunc_idx, kernel_half_quandrant>>

------------------------------------------------------------------------------
\* Image-domain kernels.

Positions == (0 .. array_size - 1) \X (0 .. array_size - 1)

\* Mutant of Mirrored: the negative distances start at the last row.
MirroredLate(i) == {i, array_size - 1 - i}

\* The rows (columns) that hold the samples at distance i from the centre.
Mirrored(i) == {i, array_size - i}

\* generate_image_domain_convolution_kernel: lines, point and squares.
ImageDomainKernel ==
  LET inner == 1 .. half_kernel_size - 1
      line(i)   == (Mirrored(i) \X {0}) \union ({0} \X Mirrored(i))
      square(i, j) == Mirrored(i) \X Mirrored(j)
  IN  [p \in Positions |->
         {{i, 0} : i \in {k \in inner : p \in line(k)}}
           \union (IF p = <<0, 0>> THEN {{0}} ELSE {})
           \union {{ij[1], ij[2]} : ij \in {k \in inner \X inner : p \in square(k[1], k[2])}}]

\* How often projected_image_domain_kernel's element j has a sample: a record of
\* pixel_x, pixel_y and weight.
ProjectedKernel ==
  LET inner == 1 .. half_kernel_size - 1
      near(j) == IF j = 0
                 THEN {<<i, 0, 2>> : i \in inner} \union {<<0, 0, 1>>}
                 ELSE {<<j, 0, 1>>} \union {<<i, j, 2>> : i \in inner}
  IN  [j \in 0 .. array_size - 1 |->
         IF j < half_kernel_size THEN near(j)
         ELSE IF array_size - j \in inner THEN near(array_size - j) ELSE {}]

GenerateImageDomain(plane) ==
  /\ kpc \in {"idle", "kernel"}
  /\ w_plane' = plane
  /\ comb_kernel' = ImageDomainKernel
  /\ kpc' = "idle"
  /\ UNCHANGED <<fftvars, aw, product, conv_kernel, trunc_idx, truncated_wpconv_support,
                 current_hankel_kernel_size, kernel_half_quandrant>>

\* generate_convolution_kernel_wproj, up to the transform.
GenerateWProj(plane) ==
  /\ kpc \in {"idle", "kernel"}
  /\ w_plane' = plane
  /\ IF ~ aw.hankel_opt
     THEN /\ comb_kernel' = ImageDomainKernel
          /\ product' = product
          /\ CallC2C(array_size, KernelRoutine)
          /\ kpc' = "fft"
          /\ UNCHANGED trunc_idx
     ELSE IF aw.hankel_proj_slice
     THEN /\ product' = ProjectedKernel
          /\ CallC2C1D(array_size, KernelRoutine)
          /\ kpc' = "fft"
          /\ UNCHANGED <<comb_kernel, trunc_idx>>
     ELSE \* the Hankel transform is a matrix product
          /\ trunc_idx' = aw.max_wpconv_support * aw.oversampling
          /\ kpc' = "truncate"
          /\ UNCHANGED <<fftvars, comb_kernel, product>>
  /\ UNCHANGED <<aw, conv_kernel, truncated_wpconv_support, current_hankel_kernel_size,
                 kernel_half_quandrant>>

\* The ranges that TBB may make of b .. e - 1.
Split(b, e) == {{<<b, e>>}} \union {{<<b, m>>, <<m, e>>} : m \in b + 1 .. e - 1}

\* generate_convolution_kernel_aproj multiplies the image-domain kernel by an A-kernel
\* rotated by an angle: the row and column of a_kernel_img that each sample meets.
ARow(i) == IF i < half_kernel_size THEN {half_kernel_size + i}
           ELSE IF i >= array_size - half_kernel_size
                THEN {i - (array_size - half_kernel_size)} ELSE {}

\* Mutant of ACol: jj starts at the same column for every range.
AColUnsplit(j, r) ==
  half_kernel_size + (j - r[1])

\* Column j, in a range of the left or the right side.
ACol(j, r) ==
  (IF r[1] < half_kernel_size THEN half_kernel_size + r[1]
   ELSE r[1] + half_kernel_size - array_size) + (j - r[1])

\* The samples of the A-kernel that are met, with these ranges of columns.
Multiplied(left, right) ==
  [p \in Positions |->
     {<<row, ACol(p[2], r)>> :
        row \in ARow(p[1]),
        r \in {s \in left \union right : s[1] <= p[2] /\ p[2] < s[2]}}]

MultiplyAKernel(rotations) ==
  /\ kpc \in {"idle", "kernel"}
  /\ \E left \in Split(0, half_kernel_size),
       right \in Split(array_size - half_kernel_size, array_size) :
       product' = Multiplied(left, right)
  /\ conv_kernel' = [plane |-> w_plane, rotations |-> rotations]
  /\ kpc' = "multiply"
  /\ UNCHANGED <<fftvars, aw, w_plane, comb_kernel, trunc_idx, truncated_wpconv_support,
                 current_hankel_kernel_size, kernel_half_quandrant>>

TransformProduct ==
  /\ kpc = "multiply"
  /\ CallC2C(array_size, KernelRoutine)
  /\ product' = <<>>
  /\ kpc' = "fft"
  /\ UNCHANGED <<aw, w_plane, comb_kernel, conv_kernel, trunc_idx, truncated_wpconv_support,
                 current_hankel_kernel_size, kernel_half_quandrant>>

\* Mutant of TruncStart: the last sample before the limit.
TruncStartBefore == Min({aw.max_wpconv_support * aw.oversampling, array_size \div 2}) - 1

TruncStart == Min({aw.max_wpconv_support * aw.oversampling, array_size \div 2})

\* The transform returns.  A kernel of W-projection alone is not kept for A-projection.
Transformed ==
  /\ kpc = "fft"
  /\ ReturnFFT
  /\ conv_kernel' = IF transform.kind # "c2c" THEN conv_kernel
                    ELSE IF aw.num_timesteps > 0 THEN conv_kernel
                    ELSE [plane |-> w_plane, rotations |-> <<>>]
  /\ comb_kernel' = IF aw.num_timesteps > 0 THEN comb_kernel ELSE <<>>
  /\ product' = <<>>
  /\ trunc_idx' = IF aw.hankel_opt THEN aw.max_wpconv_support * aw.oversampling ELSE TruncStart
  /\ kpc' = "truncate"
  /\ UNCHANGED <<aw, w_plane, truncated_wpconv_support, current_hankel_kernel_size,
                 kernel_half_quandrant>>

------------------------------------------------------------------------------
\* Truncation.

\* The sample at trunc_idx is above kernel_trunc_perc of the central one.
Significant(i) == i \in aw.significant[w_plane]

\* The loop ends at the smallest index that may not be left: for a radial kernel one
\* pixel, otherwise the centre.
AtCentre == IF aw.hankel_opt THEN trunc_idx <= aw.oversampling ELSE trunc_idx = 0

Truncate ==
  /\ kpc = "truncate"
  /\ IF aw.truncates /\ ~ AtCentre /\ ~ Significant(trunc_idx)
     THEN /\ trunc_idx' = (trunc_idx - aw.oversampling) % UIntMod
          /\ UNCHANGED <<kpc, truncated_wpconv_support>>
     ELSE /\ truncated_wpconv_support' =
               IF ~ aw.truncates THEN truncated_wpconv_support
               ELSE LET pixels == IF aw.hankel_opt
                                  THEN (trunc_idx + aw.oversampling - 1) \div aw.oversampling
                                  ELSE trunc_idx \div aw.oversampling
                    IN  Min({pixels, aw.max_wpconv_support})
          /\ kpc' = IF aw.hankel_opt THEN "interpolate" ELSE "kernel"
          /\ UNCHANGED trunc_idx
  /\ UNCHANGED <<fftvars, aw, w_plane, comb_kernel, product, conv_kernel,
                 current_hankel_kernel_size, kernel_half_quandrant>>

\* Half a quadrant of samples, row by row from the diagonal: their two distances.
HalfQuadrant(kernel_offset) ==
  LET final_kernel_size == kernel_offset + (kernel_offset * (kernel_offset - 1)) \div 2
      at[i \in 0 .. final_kernel_size - 1] ==
        IF i = 0 THEN <<0, 0>>
        ELSE LET prev == at[i - 1]
                 ii   == prev[1]
                 j    == prev[2] + 1
             IN  IF j = kernel_offset THEN <<ii + 1, ii + 1>> ELSE <<ii, j>>
  IN  [i \in 0 .. final_kernel_size - 1 |-> {at[i][1], at[i][2]}]

\* RadialInterpolate
Interpolate ==
  /\ kpc = "interpolate"
  /\ current_hankel_kernel_size' = (truncated_wpconv_support * 2 + 1 + 1) * aw.oversampling
  /\ kernel_half_quandrant' = HalfQuadrant(current_hankel_kernel_size' \div 2)
  /\ conv_kernel' = [plane |-> w_plane, rotations |-> <<>>]
  /\ kpc' = "kernel"
  /\ UNCHANGED <<fftvars, aw, w_plane, comb_kernel, product, trunc_idx, truncated_wpconv_support>>

WideStep ==
  \/ TransformProduct
  \/ Transformed
  \/ Truncate
  \/ Interpolate

------------------------------------------------------------------------------
\* generate_kernel_cache: the sample that element (tx, ty) of the kernel for the
\* sub-pixel offset (y, x) is copied from.

oversampled_pixel == aw.oversampling \div 2

Offsets == 0 .. 2 * oversampled_pixel

Elements == 0 .. 2 * truncated_wpconv_support

\* The row of conv_kernel, from where it wraps around.
CachedIndex(x, ty) ==
  ((array_size \div 2 - truncated_wpconv_support * aw.oversampling + oversampled_pixel - x
      + ty * aw.oversampling) + array_size \div 2) % array_size

Abs(n) == IF n < 0 THEN -n ELSE n

RadialDistance(x, ty) ==
  Abs((ty - truncated_wpconv_support) * aw.oversampling + oversampled_pixel - x)

\* Mutant of CachedRadius: the rows of half a quadrant taken to be as long as for the maximum support.
CachedRadiusFull(dx, dy) ==
  Min({dx, dy}) * ((aw.max_wpconv_support + 1) * aw.oversampling)
    - (Min({dx, dy}) * (Min({dx, dy}) + 1)) \div 2 + Max({dx, dy})

\* The index into half a quadrant.
CachedRadius(dx, dy) ==
  Min({dx, dy}) * (current_hankel_kernel_size \div 2)
    - (Min({dx, dy}) * (Min({dx, dy}) + 1)) \div 2 + Max({dx, dy})

\* What the class takes for granted: the kernel, before it is truncated, fits in the image, if
\* its working area is not made for it, and its sub-pixels are counted by a uint.
KernelArguments(a, image_size) ==
  /\ {"max_wpconv_support", "oversampling", "undersampling_opt"} \subseteq DOMAIN a
  /\ a.max_wpconv_support \in Nat /\ a.oversampling \in Nat \ {0} /\ a.undersampling_opt \in Nat
  /\ a.max_wpconv_support * a.oversampling < UIntMod
  /\ a.undersampling_opt = 0 => 2 * a.max_wpconv_support < image_size

------------------------------------------------------------------------------
(***************************************************************************)
(* The image-domain kernel has the sample of every distance below half the *)
(* working area at the rows and columns where the FFT expects it, 0 in     *)
(* between, and meets the sample of the A-kernel in the same direction,    *)
(* whose centre is at half the working area; the projection has the sums   *)
(* of its columns.                                                         *)
(***************************************************************************)
KernelsCentred ==
  LET Signed(i) == IF i <= array_size \div 2 THEN i ELSE i - array_size
      Within(i) == Abs(Signed(i)) < half_kernel_size
  IN  /\ kpc = "multiply" =>
           \A p \in Positions :
             IF Within(p[1]) /\ Within(p[2])
             THEN /\ comb_kernel[p] = {{Abs(Signed(p[1])), Abs(Signed(p[2]))}}
                  /\ product[p] = {<<half_kernel_size + Signed(p[1]), half_kernel_size + Signed(p[2])>>}
             ELSE comb_kernel[p] = {}
      /\ kpc = "fft" /\ transform.kind = "c2c_1d" =>
           \A j \in 0 .. array_size - 1 :
             SumOf([s \in product[j] |-> s[3]], product[j]) =
               (IF Within(j) THEN 2 * half_kernel_size - 1 ELSE 0)
             /\ \A s \in product[j] :
                  /\ Abs(Signed(j)) \in {s[1], s[2]}
                  /\ s[3] = IF s[1] + s[2] = Abs(Signed(j)) /\ 0 \in {s[1], s[2]} THEN 1 ELSE 2

(***************************************************************************)
(* Truncation never looks outside the kernel, and the kernel it leaves has *)
(* every sample at a whole pixel that is above kernel_trunc_perc of the    *)
(* centre ("Kernel truncation percentage"), without a margin of others: it *)
(* ends at such a sample, or at the centre, or for radial kernels at one   *)
(* pixel.  A support of 0 is left only if there is no such sample.         *)
(***************************************************************************)
TruncationKeepsSignificant ==
  /\ kpc = "truncate" =>
       trunc_idx \in 0 .. array_size \div 2
                       - (IF aw.hankel_opt /\ ~ aw.hankel_proj_slice THEN 1 ELSE 0)
  /\ kpc \in {"interpolate", "kernel"} /\ aw.truncates =>
       LET s == truncated_wpconv_support
       IN  /\ s \in 0 .. aw.max_wpconv_support
           /\ \A d \in s + 1 .. aw.max_wpconv_support : ~ Significant(d * aw.oversampling)
           /\ s > (IF aw.hankel_opt THEN 1 ELSE 0) => Significant(s * aw.oversampling)

(***************************************************************************)
(* Every element of every cached kernel is the sample at its distance, in  *)
(* sub-pixels, from the visibility: the kernel of a visibility that lies o *)
(* sub-pixels right of its pixel (index o + oversampling / 2) has at       *)
(* element t the sample (t - support) * oversampling - o, be the kernel    *)
(* stored as the FFT leaves it or by radius, whatever it was truncated to. *)
(***************************************************************************)
CacheReadsRightSample ==
  kpc = "kernel" =>
    \A x, y \in Offsets : \A tx, ty \in Elements :
      LET Distance(o, t) ==
            (t - truncated_wpconv_support) * aw.oversampling - (o - oversampled_pixel)
          dx == RadialDistance(x, ty)
          dy == RadialDistance(y, tx)
          i  == CachedRadius(dx, dy)
      IN  IF aw.hankel_opt
          THEN /\ i \in DOMAIN kernel_half_quandrant
               /\ kernel_half_quandrant[i] = {Abs(Distance(x, ty)), Abs(Distance(y, tx))}
          ELSE /\ CachedIndex(x, ty) = Distance(x, ty) % array_size
               /\ Abs(Distance(x, ty)) <= array_size \div 2
==============================================================================
