-------------------------- MODULE MCParallelGridder --------------------------
EXTENDS ParallelGridder

\* The columns of the kernel centres that the bounds check lets through, after
\* the shift of the grid.
ShiftedCentre == {Shifted(c) : c \in max_support + 1 .. image_size - max_support - 1}

GoodVisibility == [x : ShiftedCentre, copies : 1..2]

\* One plane of two visibilities.
OnePlane == {<<[support |-> 1, vis |-> <<v, w>>]>> : v, w \in GoodVisibility}

\* Two planes, whose kernels may be of different sizes, of one visibility each.
TwoPlanes ==
  {<<[support |-> s, vis |-> <<v>>], [support |-> t, vis |-> <<w>>]>> :
     s, t \in 1..max_support, v, w \in [x : ShiftedCentre, copies : {1}]}

OneOrTwoPlanes == OnePlane \union TwoPlanes
==============================================================================
