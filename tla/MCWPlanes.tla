------------------------------ MODULE MCWPlanes ------------------------------
EXTENDS WPlanes

\* Every number of good visibilities from one per plane to 40, in bounds before
\* out of bounds; some are gridded twice.
BadAtEnd ==
  {[good_vis    |-> [k \in 0..39 |-> IF k < g THEN (IF k % 3 = 0 THEN 2 ELSE 1) ELSE 0],
    num_wplanes |-> planes,
    median      |-> med] :
     g \in 4..40, planes \in 3..4, med \in BOOLEAN}

\* Out-of-bounds visibilities anywhere among enough others.
BadAnywhere ==
  {[good_vis |-> g, num_wplanes |-> 3, median |-> FALSE] :
     g \in {f \in [0..5 -> {0, 1}] : Cardinality({k \in 0..5 : f[k] # 0}) >= 3}}

\* The same, for the median.
BadMedian == {[a EXCEPT !.num_wplanes = 2, !.median = TRUE] : a \in BadAnywhere}
==============================================================================
