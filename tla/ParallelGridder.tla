--------------------------- MODULE ParallelGridder ---------------------------
(***************************************************************************)
(* The multi-threaded gridder of src/stp/gridder/gridder.h: for each       *)
(* w-plane a tbb::parallel_for whose task r grids every visibility, but    *)
(* only the columns that are r modulo the kernel size, without locks.      *)
(*                                                                         *)
(* A task's += on a column is two steps, a load and a store: the columns   *)
(* that tasks have loaded and not stored yet show whether they interfere.  *)
(***************************************************************************)
EXTENDS GridGeometry, Sequences

CONSTANT Inputs     \* as in GridSum

ASSUME InputsAssumption ==
  \A p \in Inputs :
    /\ p \in Seq([support : 1..max_support,
                 vis : Seq([x : 0 .. image_size - 1, copies : 1..2])])
    /\ Len(p) > 0

VARIABLES
  planes,
  vis_grid,
  pi,               \* the plane being gridded
  at,               \* per task, the visibility, copy and part of the kernel
  loaded,           \* per task, whether it has loaded a column
  buffer            \* per task, what it has loaded

vars == <<planes, vis_grid, pi, at, loaded, buffer>>

Column == 0 .. image_size - 1

TaskId == 0 .. 2 * max_support

conv_support == planes[pi].support

kernel_size == 2 * conv_support + 1

\* Mutant of Task: a partitioner that hands out two indices at a time, of which
\* a task only reads the first.
TaskPairs == {r \in 0 .. kernel_size - 1 : r % 2 = 0}

\* The tasks of the plane: ranges of one index (grain size 1, simple_partitioner).
Task == 0 .. kernel_size - 1

Start == [vi |-> 1, gv |-> 0, part |-> 1]

Init ==
  /\ planes \in Inputs
  /\ vis_grid = [c \in Column |-> <<>>]
  /\ pi = 1
  /\ at = [r \in TaskId |-> Start]
  /\ loaded = [r \in TaskId |-> FALSE]
  /\ buffer = [r \in TaskId |-> <<>>]

------------------------------------------------------------------------------
Finished(r) == at[r].vi > Len(planes[pi].vis)

centre(r) ==
  LET x == planes[pi].vis[at[r].vi].x
  IN  IF at[r].gv = 1 THEN image_size - x ELSE x

AtRight(r) == centre(r) >= image_size - conv_support

AtLeft(r) == centre(r) < conv_support

\* gc_x: moved by the width of the image for the part beyond the margin.
gc_x(r) ==
  IF at[r].part = 1 THEN centre(r)
  ELSE IF AtRight(r) THEN centre(r) - image_size
  ELSE centre(r) + image_size

\* What is added to the dividend to keep it from being negative.
Offset(r) == IF at[r].part = 2 /\ AtRight(r) THEN 2 * kernel_size ELSE kernel_size

\* Mutant of conv_col: the remainder is not centred.
conv_col_uncentred(r) == (gc_x(r) - r + Offset(r)) % kernel_size

conv_col(r) ==
  LET m == (gc_x(r) - r + Offset(r)) % kernel_size
  IN  IF m > conv_support THEN m - kernel_size ELSE m

\* Mutant of grid_col: the task follows the kernel's columns, as in the
\* single-threaded loop.
grid_col_by_kernel(r) == gc_x(r) - conv_support + r

grid_col(r) == gc_x(r) - conv_col(r)

\* Mutant of AtMargin: the right margin only.
AtRightMargin(r) == AtRight(r)

AtMargin(r) == AtRight(r) \/ AtLeft(r)

\* The step of the loops after a part of the kernel.
After(r) ==
  IF at[r].part = 1 /\ AtMargin(r) THEN [at[r] EXCEPT !.part = 2]
  ELSE IF at[r].gv + 1 < planes[pi].vis[at[r].vi].copies
  THEN [vi |-> at[r].vi, gv |-> at[r].gv + 1, part |-> 1]
  ELSE [vi |-> at[r].vi + 1, gv |-> 0, part |-> 1]

Skip(r) ==
  /\ ~ Finished(r) /\ ~ loaded[r]
  /\ grid_col(r) \notin Column
  /\ at' = [at EXCEPT ![r] = After(r)]
  /\ UNCHANGED <<planes, vis_grid, pi, loaded, buffer>>

Load(r) ==
  /\ ~ Finished(r) /\ ~ loaded[r]
  /\ grid_col(r) \in Column
  /\ loaded' = [loaded EXCEPT ![r] = TRUE]
  /\ buffer' = [buffer EXCEPT ![r] = vis_grid[grid_col(r)]]
  /\ UNCHANGED <<planes, vis_grid, pi, at>>

\* The column of the kernel that is added.
KernelColumn(r) ==
  [copy |-> [plane |-> pi, vi |-> at[r].vi, gv |-> at[r].gv],
   col  |-> conv_support - conv_col(r)]

Store(r) ==
  /\ loaded[r]
  /\ vis_grid' = [vis_grid EXCEPT ![grid_col(r)] = Append(buffer[r], KernelColumn(r))]
  /\ loaded' = [loaded EXCEPT ![r] = FALSE]
  /\ at' = [at EXCEPT ![r] = After(r)]
  /\ UNCHANGED <<planes, pi, buffer>>

\* Mutant of PlaneDone: the next plane does not wait for the tasks of this one.
PlaneDoneAny == \E r \in Task : Finished(r)

PlaneDone == \A r \in Task : Finished(r)

\* parallel_for returns; the next plane has a kernel of another size.
NextPlane ==
  /\ pi < Len(planes)
  /\ PlaneDone
  /\ pi' = pi + 1
  /\ at' = [r \in TaskId |-> Start]
  /\ loaded' = [r \in TaskId |-> FALSE]
  /\ UNCHANGED <<planes, vis_grid, buffer>>

Step(r) == r \in Task /\ (Skip(r) \/ Load(r) \/ Store(r))

Next == (\E r \in TaskId : Step(r)) \/ NextPlane

Fairness == (\A r \in TaskId : WF_vars(Step(r))) /\ WF_vars(NextPlane)

Spec == Init /\ [][Next]_vars /\ Fairness

------------------------------------------------------------------------------
KernelColumns == [copy : [plane : Nat, vi : Nat, gv : 0..1], col : 0 .. 2 * max_support]

TypeOK ==
  /\ planes \in Inputs
  /\ vis_grid \in [Column -> Seq(KernelColumns)]
  /\ pi \in 1 .. Len(planes)
  /\ at \in [TaskId -> [vi : Nat \ {0}, gv : 0..1, part : 1..2]]
  /\ loaded \in [TaskId -> BOOLEAN]
  /\ buffer \in [TaskId -> Seq(KernelColumns)]

(***************************************************************************)
(* The assertions of the loop: the kernel column is within the support and *)
(* the grid column is the task's modulo the kernel size.  The dividend of  *)
(* the remainder is not negative, as C++ needs for it.                     *)
(***************************************************************************)
AssertionsHold ==
  \A r \in Task : ~ Finished(r) =>
    /\ gc_x(r) - r + Offset(r) >= 0
    /\ conv_col(r) \in -conv_support .. conv_support
    /\ (grid_col(r) \in Column => grid_col(r) % kernel_size = r)

(***************************************************************************)
(* No update is lost: between a task's load of a column and its store, no  *)
(* other task changes the column.                                          *)
(***************************************************************************)
NoLostUpdate ==
  \A r \in Task : loaded[r] => grid_col(r) \in Column /\ buffer[r] = vis_grid[grid_col(r)]

(***************************************************************************)
(* The grid is the single-threaded one, bit by bit: whatever the tasks'    *)
(* interleaving, every column receives the same additions in the same      *)
(* order, none missing and none twice, and the gridding ends.              *)
(***************************************************************************)
Serial == INSTANCE GridSum

SerialGrid == Serial!SumSpec
==============================================================================
