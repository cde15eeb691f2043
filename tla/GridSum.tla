------------------------------- MODULE GridSum -------------------------------
(***************************************************************************)
(* What the gridding of src/stp/gridder/gridder.h promises of a grid       *)
(* column: it receives the kernel columns of all visibilities in the order *)
(* of the single-threaded gridder, each once.  Floating-point sums depend  *)
(* on that order.                                                          *)
(***************************************************************************)
EXTENDS GridGeometry, Sequences

CONSTANT
  Inputs    \* values of planes: sequences of planes [support, vis], where vis is
            \* the sequence of the plane's good visibilities [x, copies]:
            \* column of the kernel centre, and value of good_vis

VARIABLES
  planes,
  vis_grid  \* per column, the sequence of what was added to it

Column == 0 .. image_size - 1

SumInit ==
  /\ planes \in Inputs
  /\ vis_grid = [c \in Column |-> <<>>]

\* A copy of a visibility.
Copies ==
  UNION {UNION {{[plane |-> p, vi |-> k, gv |-> gv] : gv \in 0 .. planes[p].vis[k].copies - 1} :
                 k \in DOMAIN planes[p].vis} : p \in DOMAIN planes}

Before(a, b) ==
  \/ a.plane < b.plane
  \/ a.plane = b.plane /\ a.vi < b.vi
  \/ a.plane = b.plane /\ a.vi = b.vi /\ a.gv < b.gv

\* The column of the kernel centre of copy gv of a visibility at x.
CopyCentre(x, gv) == IF gv = 1 THEN ConjCentre(<<x, 0>>)[1] ELSE x

\* Every kernel column that covers column c.
Covering(c) ==
  UNION {LET s == planes[a.plane].support
             x == CopyCentre(planes[a.plane].vis[a.vi].x, a.gv)
         IN  {[copy |-> a, col |-> j] : j \in {i \in 0 .. 2 * s : GridCols(x, s)[i] = c}} :
           a \in Copies}

Added(c) == {vis_grid[c][i] : i \in DOMAIN vis_grid[c]}

\* The next of the kernel columns that cover column c is added to it.
AddTo(c) ==
  /\ \E t \in Covering(c) \ Added(c) :
       /\ \A u \in Covering(c) \ (Added(c) \union {t}) : Before(t.copy, u.copy)
       /\ vis_grid' = [vis_grid EXCEPT ![c] = Append(@, t)]
  /\ UNCHANGED planes

SumNext == \E c \in Column : AddTo(c)

SumSafe == SumInit /\ [][SumNext]_<<planes, vis_grid>>

SumSpec == SumSafe /\ WF_<<planes, vis_grid>>(SumNext)
==============================================================================
