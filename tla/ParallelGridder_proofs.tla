------------------------ MODULE ParallelGridder_proofs -----------------------
(***************************************************************************)
(* The tasks of the multi-threaded gridder never interfere, and together   *)
(* they add to every column what the single-threaded gridder adds, in its  *)
(* order, for every image size, kernel support and list of visibilities.   *)
(***************************************************************************)
EXTENDS ParallelGridder, NumberLemmas

(***************************************************************************)
(* An element of a sequence over S is in S.                                *)
(***************************************************************************)
LEMMA SeqElement ==
  ASSUME NEW S, NEW s \in Seq(S), NEW i \in 1 .. Len(s)
  PROVE  s[i] \in S
OBVIOUS

------------------------------------------------------------------------------
(* A task always works on the columns that are its own modulo the size of   *)
(* the kernel.                                                              *)

(***************************************************************************)
(* The parameters of the plane and the visibility a task is at.            *)
(***************************************************************************)
LEMMA PlaneTyped ==
  ASSUME TypeOK
  PROVE  /\ conv_support \in 1..max_support
         /\ kernel_size \in Nat \ {0}
         /\ planes[pi].vis \in Seq([x : 0 .. image_size - 1, copies : 1..2])
<1>1. planes \in Seq([support : 1..max_support,
                      vis : Seq([x : 0 .. image_size - 1, copies : 1..2])])
  BY InputsAssumption DEF TypeOK
<1>2. pi \in 1 .. Len(planes)
  BY DEF TypeOK
<1>3. planes[pi] \in [support : 1..max_support,
                      vis : Seq([x : 0 .. image_size - 1, copies : 1..2])]
  BY <1>1, <1>2, SeqElement
<1> QED BY <1>3, GridAssumption DEF GridAssumption, conv_support, kernel_size

\* The visibility a task has come to, and the kernel centre of its copy.
LEMMA VisibilityTyped ==
  ASSUME TypeOK, NEW r \in TaskId, ~ Finished(r)
  PROVE  planes[pi].vis[at[r].vi] \in [x : 0 .. image_size - 1, copies : 1..2]
<1>1. at[r].vi \in Nat \ {0}
  BY DEF TypeOK
<1>2. Len(planes[pi].vis) \in Nat /\ ~ (at[r].vi > Len(planes[pi].vis))
  BY PlaneTyped DEF Finished
<1>3. at[r].vi \in 1 .. Len(planes[pi].vis)
  BY <1>1, <1>2
<1> QED BY <1>3, PlaneTyped, SeqElement


\* Every task of a plane is one of the task identifiers.
LEMMA TaskTyped ==
  ASSUME TypeOK, NEW r \in Task
  PROVE  r \in TaskId /\ r \in 0 .. kernel_size - 1
<1>1. conv_support \in 1..max_support
  BY PlaneTyped
<1> QED BY <1>1, GridAssumption DEF GridAssumption, Task, TaskId, kernel_size

(***************************************************************************)
(* The column of the kernel is within its support, and the column of the   *)
(* grid is that of the task modulo the size of the kernel.                 *)
(***************************************************************************)
LEMMA Columns ==
  ASSUME TypeOK, NEW r \in Task, ~ Finished(r)
  PROVE  /\ conv_col(r) \in -conv_support .. conv_support
         /\ \E t \in Int : grid_col(r) = r + kernel_size * t
<1> DEFINE d == gc_x(r) - r + Offset(r)
           m == d % kernel_size
           q == d \div kernel_size
<1>1. /\ r \in TaskId /\ r \in 0 .. kernel_size - 1
      /\ conv_support \in Nat
      /\ kernel_size \in Nat \ {0} /\ kernel_size = 2 * conv_support + 1
  BY TaskTyped, PlaneTyped, GridAssumption DEF GridAssumption, kernel_size
<1>2. centre(r) \in Int
  BY <1>1, VisibilityTyped, GridAssumption DEF GridAssumption, centre
<1>3. gc_x(r) \in Int
  BY <1>2, GridAssumption DEF GridAssumption, gc_x
<1>4. PICK k \in 1..2 : Offset(r) = kernel_size * k
  BY <1>1 DEF Offset
<1>5. d \in Int
  BY <1>1, <1>3, <1>4
<1>6. q \in Int /\ m \in 0 .. kernel_size - 1 /\ d = kernel_size * q + m
  BY <1>1, <1>5, Division
<1>7. conv_col(r) = IF m > conv_support THEN m - kernel_size ELSE m
  BY DEF conv_col
<1>8. conv_col(r) \in -conv_support .. conv_support
  <2> HIDE DEF m
  <2> QED BY <1>1, <1>6, <1>7
<1>9. PICK e \in 0..1 : conv_col(r) = m - kernel_size * e
  <2> HIDE DEF m
  <2> QED BY <1>1, <1>6, <1>7
<1>10. grid_col(r) = r + kernel_size * (q - k + e)
  <2>1. grid_col(r) = gc_x(r) - (m - kernel_size * e)
    BY <1>9 DEF grid_col
  <2>2. gc_x(r) = kernel_size * q + m + r - kernel_size * k
    <3> HIDE DEF m, q
    <3>1. gc_x(r) - r + kernel_size * k = kernel_size * q + m
      BY <1>4, <1>6
    <3> QED BY <3>1, <1>1, <1>3, <1>4, <1>6, SMT
  <2> HIDE DEF m, q
  <2> QED BY <2>1, <2>2, <1>1, <1>4, <1>6, <1>9, SMT
<1>11. q - k + e \in Int
  BY <1>4, <1>6, <1>9
<1> QED BY <1>8, <1>10, <1>11

(***************************************************************************)
(* Two tasks are never at the same column of the grid.                     *)
(***************************************************************************)
LEMMA OwnColumn ==
  ASSUME TypeOK, NEW q \in Task, NEW r \in Task, q # r, ~ Finished(q), ~ Finished(r)
  PROVE  grid_col(q) # grid_col(r)
<1>1. PICK a \in Int : grid_col(q) = q + kernel_size * a
  BY Columns
<1>2. PICK b \in Int : grid_col(r) = r + kernel_size * b
  BY Columns
<1>3. kernel_size \in Nat \ {0} /\ q \in 0 .. kernel_size - 1 /\ r \in 0 .. kernel_size - 1
  BY PlaneTyped, TaskTyped
<1> QED BY <1>1, <1>2, <1>3, ResidueUnique

------------------------------------------------------------------------------
(* The invariant.                                                           *)

LoadedUnfinished == \A r \in TaskId : loaded[r] => r \in Task /\ ~ Finished(r)

IInv == TypeOK /\ LoadedUnfinished /\ NoLostUpdate

Position == [vi : Nat \ {0}, gv : 0..1, part : 1..2]

\* The step of the loops keeps the type of a task's position.
LEMMA AfterTyped ==
  ASSUME TypeOK, NEW r \in TaskId, ~ Finished(r)
  PROVE  After(r) \in Position
<1>1. at[r] \in Position
  BY DEF TypeOK, Position
<1>2. planes[pi].vis[at[r].vi].copies \in 1..2
  BY VisibilityTyped
<1>3. CASE at[r].part = 1 /\ AtMargin(r)
  BY <1>1, <1>3 DEF After, Position
<1>4. CASE /\ ~ (at[r].part = 1 /\ AtMargin(r))
           /\ at[r].gv + 1 < planes[pi].vis[at[r].vi].copies
  <2>1. After(r) = [vi |-> at[r].vi, gv |-> at[r].gv + 1, part |-> 1]
    BY <1>4 DEF After
  <2>2. at[r].gv + 1 \in 0..1
    BY <1>1, <1>2, <1>4 DEF Position
  <2> QED BY <2>1, <2>2, <1>1 DEF Position
<1>5. CASE /\ ~ (at[r].part = 1 /\ AtMargin(r))
           /\ ~ (at[r].gv + 1 < planes[pi].vis[at[r].vi].copies)
  <2>1. After(r) = [vi |-> at[r].vi + 1, gv |-> 0, part |-> 1]
    BY <1>5 DEF After
  <2> QED BY <2>1, <1>1 DEF Position
<1> QED BY <1>3, <1>4, <1>5

\* What a task adds to a column is a kernel column.
LEMMA KernelColumnTyped ==
  ASSUME TypeOK, NEW r \in Task, ~ Finished(r)
  PROVE  KernelColumn(r) \in KernelColumns
<1>1. r \in TaskId /\ conv_support \in 1..max_support
      /\ conv_col(r) \in -conv_support .. conv_support
  BY TaskTyped, PlaneTyped, Columns
<1>2. conv_support - conv_col(r) \in 0 .. 2 * max_support
  BY <1>1, GridAssumption DEF GridAssumption
<1>3. at[r].vi \in Nat /\ at[r].gv \in 0..1 /\ pi \in Nat
  BY <1>1 DEF TypeOK
<1> QED BY <1>2, <1>3 DEF KernelColumn, KernelColumns

(***************************************************************************)
(* A task's position only depends on the plane and its own counters.       *)
(***************************************************************************)
LEMMA SamePlace ==
  ASSUME NEW q \in TaskId, UNCHANGED <<planes, pi>>, at'[q] = at[q]
  PROVE  /\ Finished(q)' = Finished(q)
         /\ grid_col(q)' = grid_col(q)
<1>1. Finished(q)' = Finished(q)
  BY DEF Finished
<1>2. conv_support' = conv_support /\ kernel_size' = kernel_size
  BY DEF conv_support, kernel_size
<1>3. centre(q)' = centre(q)
  BY DEF centre
<1>4. AtRight(q)' = AtRight(q)
  BY <1>2, <1>3 DEF AtRight
<1>5. gc_x(q)' = gc_x(q) /\ Offset(q)' = Offset(q)
  BY <1>2, <1>3, <1>4 DEF gc_x, Offset
<1>6. conv_col(q)' = conv_col(q)
  BY <1>2, <1>5 DEF conv_col
<1> QED BY <1>1, <1>5, <1>6 DEF grid_col

\* The initial state is well typed.
LEMMA TypeInit == Init => TypeOK
<1> SUFFICES ASSUME Init PROVE TypeOK
  OBVIOUS
<1>1. Len(planes) \in Nat /\ Len(planes) > 0
  BY InputsAssumption DEF Init
<1>2. Start \in Position
  BY DEF Start, Position
<1>3. <<>> \in Seq(KernelColumns)
  OBVIOUS
<1> QED BY <1>1, <1>2, <1>3 DEF Init, TypeOK, Position

\* A store keeps the type of the grid.
LEMMA StoreTyped ==
  ASSUME TypeOK, NEW r \in Task, ~ Finished(r), Store(r)
  PROVE  vis_grid' \in [Column -> Seq(KernelColumns)]
<1>1. Append(buffer[r], KernelColumn(r)) \in Seq(KernelColumns)
  <2>1. buffer[r] \in Seq(KernelColumns)
    BY TaskTyped DEF TypeOK
  <2> QED BY <2>1, KernelColumnTyped
<1> QED BY <1>1 DEF TypeOK, Store

(***************************************************************************)
(* No step breaks the types.                                               *)
(***************************************************************************)
LEMMA TypeStep ==
  ASSUME TypeOK, LoadedUnfinished, [Next]_vars
  PROVE  TypeOK'
<1>1. ASSUME NEW r \in Task, Skip(r)
      PROVE  TypeOK'
  <2>1. r \in TaskId /\ After(r) \in Position
    BY <1>1, TaskTyped, AfterTyped DEF Skip
  <2> QED BY <1>1, <2>1 DEF TypeOK, Skip, Position
<1>2. ASSUME NEW r \in Task, Load(r)
      PROVE  TypeOK'
  <2>1. r \in TaskId
    BY TaskTyped
  <2>2. vis_grid[grid_col(r)] \in Seq(KernelColumns)
    BY <1>2 DEF TypeOK, Load
  <2> QED BY <1>2, <2>1, <2>2 DEF TypeOK, Load
<1>3. ASSUME NEW r \in Task, Store(r)
      PROVE  TypeOK'
  <2>1. r \in TaskId /\ ~ Finished(r)
    BY <1>3, TaskTyped DEF Store, LoadedUnfinished
  <2>2. After(r) \in Position
    BY <2>1, AfterTyped
  <2>3. vis_grid' \in [Column -> Seq(KernelColumns)]
    BY <1>3, <2>1, StoreTyped
  <2> QED BY <1>3, <2>1, <2>2, <2>3 DEF TypeOK, Store, Position
<1>4. CASE NextPlane
  <2>1. Len(planes) \in Nat
    BY InputsAssumption DEF TypeOK
  <2>2. pi' \in 1 .. Len(planes)
    BY <1>4, <2>1 DEF NextPlane, TypeOK
  <2>3. Start \in Position
    BY DEF Start, Position
  <2> QED BY <1>4, <2>2, <2>3 DEF NextPlane, TypeOK, Position
<1>5. CASE UNCHANGED vars
  BY <1>5 DEF vars, TypeOK
<1> QED BY <1>1, <1>2, <1>3, <1>4, <1>5 DEF Next, Step

(***************************************************************************)
(* A task that has loaded a column is a task of the plane and has not      *)
(* finished.                                                               *)
(***************************************************************************)
LEMMA LoadedStep ==
  ASSUME TypeOK, LoadedUnfinished, [Next]_vars
  PROVE  LoadedUnfinished'
<1>1. ASSUME NEW r \in Task, Skip(r) \/ Load(r) \/ Store(r)
      PROVE  LoadedUnfinished'
  <2> SUFFICES ASSUME NEW q \in TaskId, loaded'[q]
               PROVE  q \in Task' /\ ~ Finished(q)'
    BY DEF LoadedUnfinished
  <2>1. r \in TaskId
    BY TaskTyped
  <2>2. UNCHANGED <<planes, pi>> /\ Task' = Task
    BY <1>1 DEF Skip, Load, Store, Task, kernel_size, conv_support
  <2>3. at'[q] = at[q]
    BY <1>1, <2>1 DEF TypeOK, Skip, Load, Store
  <2>4. q \in Task /\ ~ Finished(q)
    BY <1>1, <2>1 DEF TypeOK, LoadedUnfinished, Skip, Load, Store
  <2> QED BY <2>2, <2>3, <2>4, SamePlace
<1>2. CASE NextPlane
  BY <1>2 DEF NextPlane, LoadedUnfinished
<1>3. CASE UNCHANGED vars
  BY <1>3 DEF vars, LoadedUnfinished, Task, Finished, kernel_size, conv_support
<1> QED BY <1>1, <1>2, <1>3 DEF Next, Step

(***************************************************************************)
(* What a task has loaded stays what the column holds: only Store changes  *)
(* the grid, and it changes a column of its own task.                      *)
(***************************************************************************)
LEMMA NoLostUpdateStep ==
  ASSUME IInv, [Next]_vars
  PROVE  NoLostUpdate'
<1> USE DEF IInv
<1>1. ASSUME NEW r \in Task, Skip(r) \/ Load(r) \/ Store(r)
      PROVE  NoLostUpdate'
  <2> SUFFICES ASSUME NEW q \in Task', loaded'[q]
               PROVE  grid_col(q)' \in Column /\ buffer'[q] = vis_grid'[grid_col(q)']
    BY DEF NoLostUpdate, Column
  <2>1. UNCHANGED <<planes, pi>> /\ Task' = Task
    BY <1>1 DEF Skip, Load, Store, Task, kernel_size, conv_support
  <2>2. q \in Task /\ q \in TaskId /\ r \in TaskId
    BY <2>1, TaskTyped
  <2>3. at'[q] = at[q]
    BY <1>1, <2>2 DEF TypeOK, Skip, Load, Store
  <2>4. grid_col(q)' = grid_col(q)
    BY <2>1, <2>2, <2>3, SamePlace
  <2>5. CASE Skip(r)
    BY <2>2, <2>4, <2>5 DEF NoLostUpdate, Skip
  <2>6. CASE Load(r)
    <3>1. CASE q = r
      BY <2>2, <2>4, <2>6, <3>1 DEF TypeOK, Load
    <3>2. CASE q # r
      BY <2>2, <2>4, <2>6, <3>2 DEF TypeOK, NoLostUpdate, Load
    <3> QED BY <3>1, <3>2
  <2>7. CASE Store(r)
    <3>1. q # r
      BY <2>2, <2>7 DEF TypeOK, Store
    <3>2. loaded[q] /\ loaded[r]
      BY <2>2, <2>7, <3>1 DEF TypeOK, Store
    <3>3. ~ Finished(q) /\ ~ Finished(r)
      BY <2>2, <3>2 DEF LoadedUnfinished
    <3>4. grid_col(q) # grid_col(r)
      BY <2>2, <3>1, <3>3, OwnColumn
    <3>5. grid_col(q) \in Column /\ buffer[q] = vis_grid[grid_col(q)]
      BY <2>2, <3>2 DEF NoLostUpdate
    <3>6. vis_grid'[grid_col(q)] = vis_grid[grid_col(q)]
      BY <2>7, <3>4, <3>5 DEF TypeOK, Store
    <3> QED BY <2>4, <2>7, <3>5, <3>6 DEF Store
  <2> QED BY <1>1, <2>5, <2>6, <2>7
<1>2. CASE NextPlane
  <2>1. /\ planes' \in Seq([support : 1..max_support,
                           vis : Seq([x : 0 .. image_size - 1, copies : 1..2])])
        /\ pi' \in 1 .. Len(planes')
    BY <1>2, TypeStep, InputsAssumption DEF TypeOK
  <2>2. planes'[pi'] \in [support : 1..max_support,
                         vis : Seq([x : 0 .. image_size - 1, copies : 1..2])]
    BY <2>1, SeqElement
  <2>3. Task' \subseteq TaskId
    BY <2>2, GridAssumption
       DEF GridAssumption, Task, TaskId, kernel_size, conv_support
  <2> QED BY <1>2, <2>3 DEF NextPlane, NoLostUpdate
<1>3. CASE UNCHANGED vars
  <2> SUFFICES ASSUME NEW q \in Task', loaded'[q]
               PROVE  grid_col(q)' \in Column /\ buffer'[q] = vis_grid'[grid_col(q)']
    BY DEF NoLostUpdate, Column
  <2>1. UNCHANGED <<planes, pi, at, loaded, buffer, vis_grid>> /\ Task' = Task
    BY <1>3 DEF vars, Task, kernel_size, conv_support
  <2>2. q \in Task /\ q \in TaskId
    BY <2>1, TaskTyped
  <2>3. grid_col(q)' = grid_col(q)
    BY <2>1, <2>2, SamePlace
  <2> QED BY <2>1, <2>2, <2>3 DEF NoLostUpdate
<1> QED BY <1>1, <1>2, <1>3 DEF Next, Step

\* The inductive invariant holds initially.
LEMMA InvInit == Init => IInv
<1> SUFFICES ASSUME Init PROVE IInv
  OBVIOUS
<1>1. TypeOK
  BY TypeInit
<1>2. \A r \in TaskId : ~ loaded[r]
  BY DEF Init
<1>3. \A r \in Task : r \in TaskId
  BY <1>1, TaskTyped
<1> QED BY <1>1, <1>2, <1>3 DEF IInv, LoadedUnfinished, NoLostUpdate

\* The inductive invariant is inductive.
LEMMA InvStep == IInv /\ [Next]_vars => IInv'
  BY TypeStep, LoadedStep, NoLostUpdateStep DEF IInv

(***************************************************************************)
(* The types are those of TypeOK in every state, for all sizes.            *)
(***************************************************************************)
THEOREM TypeCorrect == Spec => []TypeOK
<1>1. IInv => TypeOK
  BY DEF IInv
<1> QED BY InvInit, InvStep, <1>1, PTL DEF Spec

(***************************************************************************)
(* No update of a column is lost: the tasks of the multi-threaded gridder, *)
(* which take no locks, never interfere, whatever the sizes.               *)
(***************************************************************************)
THEOREM UpdatesKept == Spec => []NoLostUpdate
<1>1. IInv => NoLostUpdate
  BY DEF IInv
<1> QED BY InvInit, InvStep, <1>1, PTL DEF Spec

\* A column of the grid that a task is at is the task's own.
LEMMA OwnResidue ==
  ASSUME TypeOK, NEW r \in Task, ~ Finished(r), grid_col(r) \in Column
  PROVE  grid_col(r) % kernel_size = r
<1>1. PICK t \in Int : grid_col(r) = r + kernel_size * t
  BY Columns
<1>2. /\ kernel_size \in Nat \ {0} /\ r \in 0 .. kernel_size - 1
      /\ grid_col(r) \in Int
  BY PlaneTyped, TaskTyped, GridAssumption DEF GridAssumption, Column
<1> DEFINE c == grid_col(r)
           b == c \div kernel_size
           m == c % kernel_size
<1>3. b \in Int /\ m \in 0 .. kernel_size - 1 /\ c = kernel_size * b + m
  BY <1>2, Division
<1> HIDE DEF b, m
<1>4. r + kernel_size * t = m + kernel_size * b
  BY <1>1, <1>2, <1>3, SMT
<1>5. m = r
  BY <1>2, <1>3, <1>4, ResidueUnique
<1> QED BY <1>5 DEF m

\* The dividend of the remainder is not negative.
LEMMA Dividend ==
  ASSUME TypeOK, NEW r \in Task, ~ Finished(r)
  PROVE  gc_x(r) - r + Offset(r) >= 0
<1>1. /\ r \in TaskId /\ r \in 0 .. kernel_size - 1
      /\ conv_support \in Nat /\ kernel_size = 2 * conv_support + 1
  BY TaskTyped, PlaneTyped, GridAssumption DEF GridAssumption, kernel_size
<1>2. centre(r) \in 0..image_size
  BY <1>1, VisibilityTyped, GridAssumption DEF GridAssumption, centre
<1>3. CASE at[r].part = 1
  <2>1. gc_x(r) = centre(r) /\ Offset(r) = kernel_size
    BY <1>3 DEF gc_x, Offset
  <2> QED BY <1>1, <1>2, <2>1, GridAssumption DEF GridAssumption
<1>4. CASE at[r].part # 1 /\ AtRight(r)
  <2>1. at[r].part = 2
    BY <1>1, <1>4 DEF TypeOK
  <2>2. gc_x(r) = centre(r) - image_size /\ Offset(r) = 2 * kernel_size
    BY <1>4, <2>1 DEF gc_x, Offset
  <2>3. centre(r) >= image_size - conv_support
    BY <1>4 DEF AtRight
  <2> QED BY <1>1, <1>2, <2>2, <2>3, GridAssumption DEF GridAssumption
<1>5. CASE at[r].part # 1 /\ ~ AtRight(r)
  <2>1. gc_x(r) = centre(r) + image_size /\ Offset(r) = kernel_size
    BY <1>5 DEF gc_x, Offset
  <2> QED BY <1>1, <1>2, <2>1, GridAssumption DEF GridAssumption
<1> QED BY <1>3, <1>4, <1>5

(***************************************************************************)
(* The assertions of the gridder's loop hold, whatever the sizes.          *)
(***************************************************************************)
THEOREM AssertionsNeverFail == Spec => []AssertionsHold
<1>1. IInv => AssertionsHold
  BY OwnResidue, Dividend, Columns DEF IInv, AssertionsHold
<1> QED BY InvInit, InvStep, <1>1, PTL DEF Spec

------------------------------------------------------------------------------
(* The order of the additions: the column c of the grid belongs to the task *)
(* c % kernel_size, which has added to it exactly the kernel columns that   *)
(* cover it in the part of its loops that it has got through.               *)

\* The part of the kernel, as gc_x counts them, that kernel column t belongs to.
PartOf(t) ==
  LET plane == planes[t.copy.plane]
      x     == Serial!CopyCentre(plane.vis[t.copy.vi].x, t.copy.gv)
  IN  IF x - plane.support + t.col \in Column THEN 1 ELSE 2

\* The loops have got past t when they are at position pos.
PassedAt(pos, t) ==
  \/ t.copy.vi < pos.vi
  \/ t.copy.vi = pos.vi /\ t.copy.gv < pos.gv
  \/ t.copy.vi = pos.vi /\ t.copy.gv = pos.gv /\ PartOf(t) < pos.part

Passed(t, c) ==
  \/ t.copy.plane < pi
  \/ t.copy.plane = pi /\ PassedAt(at[c % kernel_size], t)

\* A task is never at a copy that its visibility has not.
CopyExists ==
  \A r \in Task : ~ Finished(r) => at[r].gv < planes[pi].vis[at[r].vi].copies

AddedIsPassed ==
  \A c \in Column : Serial!Added(c) = {t \in Serial!Covering(c) : Passed(t, c)}

SInv == IInv /\ CopyExists /\ AddedIsPassed

(***************************************************************************)
(* The planes and visibilities of the input, and their kernel centres.     *)
(***************************************************************************)
LEMMA InputTyped ==
  ASSUME TypeOK, NEW p \in DOMAIN planes
  PROVE  /\ p \in 1 .. Len(planes) /\ Len(planes) \in Nat
         /\ planes[p].support \in 1..max_support
         /\ Len(planes[p].vis) \in Nat
         /\ DOMAIN planes[p].vis = 1 .. Len(planes[p].vis)
         /\ \A k \in DOMAIN planes[p].vis :
              /\ planes[p].vis[k].x \in 0 .. image_size - 1
              /\ planes[p].vis[k].copies \in 1..2
<1>1. planes \in Seq([support : 1..max_support,
                      vis : Seq([x : 0 .. image_size - 1, copies : 1..2])])
  BY InputsAssumption DEF TypeOK
<1>2. p \in 1 .. Len(planes) /\ Len(planes) \in Nat
  BY <1>1
<1>3. planes[p] \in [support : 1..max_support,
                     vis : Seq([x : 0 .. image_size - 1, copies : 1..2])]
  BY <1>1, <1>2, SeqElement
<1>4. planes[p].vis \in Seq([x : 0 .. image_size - 1, copies : 1..2])
  BY <1>3
<1>5. \A k \in 1 .. Len(planes[p].vis) :
        planes[p].vis[k] \in [x : 0 .. image_size - 1, copies : 1..2]
  BY <1>4, SeqElement
<1>6. planes[p].support \in 1..max_support
  BY <1>3
<1>7. Len(planes[p].vis) \in Nat /\ DOMAIN planes[p].vis = 1 .. Len(planes[p].vis)
  BY <1>4
<1> QED BY <1>2, <1>5, <1>6, <1>7

\* The copy at which the kernel's centre is x.
LEMMA CentreTyped ==
  ASSUME NEW x \in 0 .. image_size - 1, NEW gv
  PROVE  /\ Serial!CopyCentre(x, gv) \in 0 .. image_size
         /\ Serial!CopyCentre(x, gv) = IF gv = 1 THEN image_size - x ELSE x
  BY GridAssumption DEF GridAssumption, Serial!CopyCentre, Serial!ConjCentre

(***************************************************************************)
(* A kernel column that covers c is a column of the kernel of a copy of a  *)
(* visibility, and every one that falls on c covers it.                    *)
(***************************************************************************)
LEMMA Covers ==
  ASSUME TypeOK, NEW c \in Column, NEW t \in Serial!Covering(c)
  PROVE  /\ t.copy.plane \in DOMAIN planes
         /\ t.copy.vi \in DOMAIN planes[t.copy.plane].vis
         /\ t.copy.gv \in 0 .. planes[t.copy.plane].vis[t.copy.vi].copies - 1
         /\ t.copy = [plane |-> t.copy.plane, vi |-> t.copy.vi, gv |-> t.copy.gv]
         /\ t.col \in 0 .. 2 * planes[t.copy.plane].support
         /\ t = [copy |-> t.copy, col |-> t.col]
         /\ Serial!GridCols(Serial!CopyCentre(planes[t.copy.plane].vis[t.copy.vi].x, t.copy.gv),
                            planes[t.copy.plane].support)[t.col] = c
<1>1. PICK a \in Serial!Copies :
        \E j \in 0 .. 2 * planes[a.plane].support :
          /\ t = [copy |-> a, col |-> j]
          /\ Serial!GridCols(Serial!CopyCentre(planes[a.plane].vis[a.vi].x, a.gv),
                             planes[a.plane].support)[j] = c
  BY DEF Serial!Covering
<1>2. /\ a.plane \in DOMAIN planes
      /\ a.vi \in DOMAIN planes[a.plane].vis
      /\ a.gv \in 0 .. planes[a.plane].vis[a.vi].copies - 1
      /\ a = [plane |-> a.plane, vi |-> a.vi, gv |-> a.gv]
  BY DEF Serial!Copies
<1>3. t.copy = a
  BY <1>1
<1> QED BY <1>1, <1>2, <1>3

LEMMA CoversIf ==
  ASSUME TypeOK, NEW c \in Column, NEW p \in DOMAIN planes, NEW k \in DOMAIN planes[p].vis,
         NEW gv \in 0 .. planes[p].vis[k].copies - 1, NEW j \in 0 .. 2 * planes[p].support,
         Serial!GridCols(Serial!CopyCentre(planes[p].vis[k].x, gv), planes[p].support)[j] = c
  PROVE  [copy |-> [plane |-> p, vi |-> k, gv |-> gv], col |-> j] \in Serial!Covering(c)
<1> DEFINE a == [plane |-> p, vi |-> k, gv |-> gv]
<1>1. a \in Serial!Copies
  BY DEF Serial!Copies
<1>2. a.plane = p /\ a.vi = k /\ a.gv = gv
  OBVIOUS
<1> HIDE DEF a
<1>3. [copy |-> a, col |-> j] \in
        {[copy |-> a, col |-> i] :
           i \in {h \in 0 .. 2 * planes[a.plane].support :
                    Serial!GridCols(Serial!CopyCentre(planes[a.plane].vis[a.vi].x, a.gv),
                                    planes[a.plane].support)[h] = c}}
  BY <1>2
<1>4. [copy |-> a, col |-> j] \in Serial!Covering(c)
  BY <1>1, <1>3 DEF Serial!Covering
<1> QED BY <1>4 DEF a

(***************************************************************************)
(* The columns of a kernel that wraps around the margins fall on different *)
(* columns of the grid.                                                    *)
(***************************************************************************)
LEMMA Wrapping ==
  ASSUME NEW x \in 0 .. image_size, NEW s \in 1..max_support, NEW j \in 0 .. 2 * s,
         NEW c \in Column
  PROVE  Serial!GridCols(x, s)[j] = c <=>
           \/ x - s + j \in Column /\ c = x - s + j
           \/ x - s + j < 0 /\ c = x - s + j + image_size
           \/ x - s + j >= image_size /\ c = x - s + j - image_size
<1>1. s \in Int /\ image_size \in Nat
  BY GridAssumption DEF GridAssumption
<1>2. Serial!GridCols(x, s)[j] = Serial!WrappedCol(x - s + j)
  BY DEF Serial!GridCols
<1> QED BY <1>1, <1>2, GridAssumption DEF Serial!WrappedCol, Column, GridAssumption

LEMMA CoveredOnce ==
  ASSUME NEW x \in 0 .. image_size, NEW s \in 1..max_support, NEW c \in Column,
         NEW i \in 0 .. 2 * s, NEW j \in 0 .. 2 * s,
         Serial!GridCols(x, s)[i] = c, Serial!GridCols(x, s)[j] = c
  PROVE  i = j
<1>1. /\ s \in Nat /\ image_size \in Nat /\ 2 * s + 1 < image_size /\ c \in 0 .. image_size - 1
      /\ i \in Nat /\ j \in Nat /\ i <= 2 * s /\ j <= 2 * s /\ x \in Nat
  BY GridAssumption DEF GridAssumption, Column
<1>2. \/ x - s + i = c
      \/ x - s + i = c - image_size
      \/ x - s + i = c + image_size
  BY <1>1, Wrapping
<1>3. \/ x - s + j = c
      \/ x - s + j = c - image_size
      \/ x - s + j = c + image_size
  BY <1>1, Wrapping
<1> QED BY <1>1, <1>2, <1>3

\* Every column of the grid belongs to a task.
LEMMA ColumnTask ==
  ASSUME TypeOK, NEW c \in Column
  PROVE  c % kernel_size \in Task
<1>1. kernel_size \in Nat \ {0} /\ c \in Int
  BY PlaneTyped, GridAssumption DEF GridAssumption, Column
<1> QED BY <1>1, Division DEF Task

\* Kernel column t is one of the part that task r is at.
AtPart(t, r) ==
  /\ t.copy = [plane |-> pi, vi |-> at[r].vi, gv |-> at[r].gv]
  /\ PartOf(t) = at[r].part

(***************************************************************************)
(* What the task adds, if it is at a column of the grid, is the kernel     *)
(* column that covers it.                                                  *)
(***************************************************************************)
LEMMA StoredCovers ==
  ASSUME TypeOK, CopyExists, NEW r \in Task, ~ Finished(r), grid_col(r) \in Column
  PROVE  /\ KernelColumn(r) \in Serial!Covering(grid_col(r))
         /\ AtPart(KernelColumn(r), r)
<1> DEFINE x == planes[pi].vis[at[r].vi].x
           s == conv_support
           j == s - conv_col(r)
           c == grid_col(r)
<1>0. s = planes[pi].support
  BY DEF conv_support
<1>1. /\ r \in TaskId /\ s \in 1..max_support
      /\ conv_col(r) \in -s .. s /\ s \in Nat /\ image_size \in Nat /\ 2 * s + 1 < image_size
  <2>1. r \in TaskId /\ s \in 1..max_support /\ kernel_size \in Nat \ {0}
    BY TaskTyped, PlaneTyped
  <2>2. conv_col(r) \in -s .. s
    BY Columns
  <2> HIDE DEF s
  <2> QED BY <2>1, <2>2, GridAssumption DEF GridAssumption
<1>2. /\ pi \in DOMAIN planes /\ at[r].vi \in DOMAIN planes[pi].vis
      /\ at[r].gv \in 0 .. planes[pi].vis[at[r].vi].copies - 1
      /\ x \in 0 .. image_size - 1
  <2>1. pi \in DOMAIN planes
    BY InputsAssumption DEF TypeOK
  <2>2. at[r].vi \in Nat \ {0} /\ at[r].gv \in 0..1
    BY <1>1 DEF TypeOK
  <2>3. at[r].vi \in DOMAIN planes[pi].vis
    BY <2>1, <2>2, InputTyped DEF Finished
  <2>4. at[r].gv < planes[pi].vis[at[r].vi].copies
    BY DEF CopyExists
  <2>5. planes[pi].vis[at[r].vi].copies \in 1..2 /\ x \in 0 .. image_size - 1
    BY <2>1, <2>3, InputTyped
  <2> QED BY <2>1, <2>2, <2>3, <2>4, <2>5
<1>3. Serial!CopyCentre(x, at[r].gv) = centre(r) /\ centre(r) \in 0 .. image_size
  BY <1>2, CentreTyped DEF centre
<1>4. j \in 0 .. 2 * s /\ c = gc_x(r) - s + j
  <2>1. gc_x(r) \in Int
    BY <1>1, <1>3 DEF gc_x
  <2> QED BY <1>1, <2>1 DEF grid_col
<1>5. at[r].part \in 1..2
  BY <1>1 DEF TypeOK
<1>6. /\ at[r].part = 1 => centre(r) - s + j = c
      /\ at[r].part = 2 => centre(r) - s + j \in {c + image_size, c - image_size}
  BY <1>1, <1>3, <1>4 DEF gc_x, Column
<1>7. /\ Serial!GridCols(centre(r), s)[j] = c
      /\ (IF centre(r) - s + j \in Column THEN 1 ELSE 2) = at[r].part
  <2>1. c \in 0 .. image_size - 1 /\ c \in Column
    BY DEF Column
  <2> HIDE DEF c, j, s
  <2>2. CASE at[r].part = 1
    BY <1>1, <1>3, <1>4, <1>6, <2>1, <2>2, Wrapping DEF Column
  <2>3. CASE at[r].part = 2
    BY <1>1, <1>3, <1>4, <1>6, <2>1, <2>3, Wrapping DEF Column
  <2> QED BY <1>5, <2>2, <2>3
<1>8. KernelColumn(r) = [copy |-> [plane |-> pi, vi |-> at[r].vi, gv |-> at[r].gv], col |-> j]
  BY DEF KernelColumn
<1>9. KernelColumn(r) \in Serial!Covering(c)
  <2> HIDE DEF j, s, c
  <2>1. c \in Column
    BY DEF c
  <2>2. Serial!GridCols(Serial!CopyCentre(x, at[r].gv), planes[pi].support)[j] = c
    BY <1>0, <1>3, <1>7
  <2>3. j \in 0 .. 2 * planes[pi].support
    BY <1>0, <1>4
  <2> QED BY <1>2, <1>8, <2>1, <2>2, <2>3, CoversIf
<1>10. PartOf(KernelColumn(r)) = at[r].part
  BY <1>0, <1>1, <1>3, <1>7, <1>8 DEF PartOf
<1> QED BY <1>8, <1>9, <1>10 DEF AtPart

(***************************************************************************)
(* And a kernel column that covers a column of the task, in the part that  *)
(* the task is at, is the one that it adds there.                          *)
(***************************************************************************)
LEMMA CoveringStored ==
  ASSUME TypeOK, NEW r \in Task, ~ Finished(r),
         NEW c \in Column, c % kernel_size = r,
         NEW t \in Serial!Covering(c), AtPart(t, r)
  PROVE  grid_col(r) = c /\ t = KernelColumn(r)
<1> DEFINE x == planes[pi].vis[at[r].vi].x
           s == conv_support
           y == centre(r) - s + t.col
           e == s - t.col
<1>0. s = planes[pi].support /\ kernel_size = 2 * s + 1
  BY DEF conv_support, kernel_size
<1>1. /\ r \in TaskId /\ s \in 1..max_support
      /\ conv_col(r) \in -s .. s /\ s \in Nat /\ image_size \in Nat /\ 2 * s + 1 < image_size
      /\ kernel_size \in Nat \ {0}
  <2>1. r \in TaskId /\ s \in 1..max_support /\ kernel_size \in Nat \ {0}
    BY TaskTyped, PlaneTyped
  <2>2. conv_col(r) \in -s .. s
    BY Columns
  <2> HIDE DEF s
  <2> QED BY <2>1, <2>2, GridAssumption DEF GridAssumption
<1>2. t.copy.plane = pi /\ t.copy.vi = at[r].vi /\ t.copy.gv = at[r].gv
  BY DEF AtPart
<1>3. /\ pi \in DOMAIN planes /\ at[r].vi \in DOMAIN planes[pi].vis
      /\ t.col \in 0 .. 2 * s
      /\ t = [copy |-> t.copy, col |-> t.col]
      /\ Serial!GridCols(Serial!CopyCentre(x, at[r].gv), s)[t.col] = c
  <2>1. /\ pi \in DOMAIN planes /\ at[r].vi \in DOMAIN planes[pi].vis
        /\ t.col \in 0 .. 2 * planes[pi].support
        /\ t = [copy |-> t.copy, col |-> t.col]
        /\ Serial!GridCols(Serial!CopyCentre(planes[pi].vis[at[r].vi].x, at[r].gv),
                           planes[pi].support)[t.col] = c
    BY <1>2, Covers
  <2> QED BY <1>0, <2>1
<1>4. x \in 0 .. image_size - 1
  BY <1>3, InputTyped
<1>5. Serial!CopyCentre(x, at[r].gv) = centre(r) /\ centre(r) \in 0 .. image_size
  BY <1>4, CentreTyped DEF centre
<1>6. /\ at[r].part \in 1..2
      /\ at[r].part = IF y \in Column THEN 1 ELSE 2
  <2>1. at[r].part = PartOf(t)
    BY DEF AtPart
  <2> QED BY <1>0, <1>1, <1>2, <1>5, <2>1 DEF PartOf
<1>7. \/ y \in Column /\ c = y
      \/ y < 0 /\ c = y + image_size
      \/ y >= image_size /\ c = y - image_size
  <2> HIDE DEF s
  <2> QED BY <1>1, <1>3, <1>5, Wrapping
<1>8. c = gc_x(r) - e /\ gc_x(r) \in Int /\ e \in -s .. s
  <2>1. /\ y >= image_size => AtRight(r)
        /\ y < 0 => ~ AtRight(r)
    BY <1>1, <1>3, <1>5 DEF AtRight
  <2>2. y < 0 => y \notin Column
    BY DEF Column
  <2>3. y >= image_size => y \notin Column
    BY <1>1 DEF Column
  <2>4. gc_x(r) = IF at[r].part = 1 THEN centre(r)
                  ELSE IF AtRight(r) THEN centre(r) - image_size ELSE centre(r) + image_size
    BY DEF gc_x
  <2> HIDE DEF s
  <2> QED BY <1>1, <1>3, <1>5, <1>6, <1>7, <2>1, <2>2, <2>3, <2>4
<1>9. conv_col(r) = e
  <2>1. PICK a \in Int : grid_col(r) = r + kernel_size * a
    BY Columns
  <2> DEFINE b == c \div kernel_size
  <2>2. b \in Int /\ c = kernel_size * b + r
    <3>1. c \in Int
      BY DEF Column
    <3> QED BY <1>1, <3>1, Division
  <2>3. conv_col(r) - e = c - grid_col(r)
    BY <1>1, <1>8 DEF grid_col
  <2> HIDE DEF b, e, s
  <2>4. r \in Int /\ conv_col(r) \in Int /\ e \in Int
    BY <1>1, <1>8, TaskTyped
  <2>5. conv_col(r) - e = kernel_size * (b - a)
    BY <1>1, <2>1, <2>2, <2>3, <2>4, SMT
  <2>6. conv_col(r) - e > -kernel_size /\ conv_col(r) - e < kernel_size
    BY <1>0, <1>1, <1>8
  <2>7. b - a = 0
    BY <1>1, <2>1, <2>2, <2>5, <2>6, SmallMultiple
  <2> QED BY <1>1, <2>4, <2>5, <2>7
<1>10. grid_col(r) = c
  BY <1>8, <1>9 DEF grid_col
<1>11. t.col = s - conv_col(r)
  BY <1>1, <1>3, <1>9
<1> QED BY <1>2, <1>3, <1>10, <1>11 DEF KernelColumn, AtPart

(***************************************************************************)
(* The step of the loops gets past the part of the kernel that the task is *)
(* at, and past nothing else.                                              *)
(***************************************************************************)
LEMMA AfterPassed ==
  ASSUME TypeOK, NEW r \in Task, ~ Finished(r),
         NEW c \in Column, NEW t \in Serial!Covering(c), t.copy.plane = pi
  PROVE  PassedAt(After(r), t) <=> PassedAt(at[r], t) \/ AtPart(t, r)
<1> DEFINE vi == at[r].vi
           gv == at[r].gv
           x  == planes[pi].vis[vi].x
           s  == conv_support
           copies == planes[pi].vis[vi].copies
<1>1. /\ r \in TaskId /\ vi \in Nat /\ gv \in 0..1 /\ at[r].part \in 1..2
      /\ copies \in 1..2 /\ x \in 0 .. image_size - 1
  BY TaskTyped, VisibilityTyped DEF TypeOK
<1>2. /\ t.copy.vi \in DOMAIN planes[pi].vis
      /\ t.copy.gv \in 0 .. planes[pi].vis[t.copy.vi].copies - 1
      /\ t.copy = [plane |-> pi, vi |-> t.copy.vi, gv |-> t.copy.gv]
      /\ t.col \in 0 .. 2 * planes[pi].support
  BY Covers
<1>3. t.copy.vi \in Nat /\ planes[pi].vis[t.copy.vi].copies \in Nat /\ t.copy.gv \in Nat
  <2>1. pi \in DOMAIN planes
    BY InputsAssumption DEF TypeOK
  <2> QED BY <1>2, <2>1, InputTyped
<1>4. PartOf(t) \in 1..2
  BY DEF PartOf
<1>5. AtPart(t, r) <=> t.copy.vi = vi /\ t.copy.gv = gv /\ PartOf(t) = at[r].part
  <2>1. t.copy = [plane |-> pi, vi |-> vi, gv |-> gv] <=> t.copy.vi = vi /\ t.copy.gv = gv
    BY <1>2
  <2> QED BY <2>1 DEF AtPart
<1>6. CASE at[r].part = 1 /\ AtMargin(r)
  <2>1. After(r) = [at[r] EXCEPT !.part = 2]
    BY <1>6 DEF After
  <2>2. After(r).vi = vi /\ After(r).gv = gv /\ After(r).part = 2
    BY <1>1, <2>1 DEF TypeOK
  <2> QED BY <1>4, <1>5, <1>6, <2>2 DEF PassedAt
<1>7. CASE ~ (at[r].part = 1 /\ AtMargin(r))
  <2>1. ASSUME t.copy.vi = vi, t.copy.gv = gv
        PROVE  PartOf(t) <= at[r].part
    <3>1. CASE at[r].part = 2
      BY <1>4, <3>1
    <3>2. CASE at[r].part = 1
      <4>1. Serial!CopyCentre(x, gv) = centre(r) /\ centre(r) \in 0 .. image_size
        <5>1. centre(r) = IF gv = 1 THEN image_size - x ELSE x
          BY DEF centre
        <5> HIDE DEF x, gv
        <5> QED BY <1>1, <5>1, CentreTyped
      <4>2. s = planes[pi].support
        BY DEF conv_support
      <4>3. s \in 1..max_support
        BY PlaneTyped
      <4>4. centre(r) < image_size - s /\ centre(r) >= s
        <5>1. ~ (centre(r) >= image_size - s) /\ ~ (centre(r) < s)
          BY <1>7, <3>2 DEF AtMargin, AtLeft, AtRight
        <5> HIDE DEF s
        <5> QED BY <4>1, <4>3, <5>1, GridAssumption DEF GridAssumption
      <4>5. centre(r) - s + t.col \in Column
        <5> HIDE DEF s
        <5> QED BY <1>2, <4>1, <4>2, <4>3, <4>4, GridAssumption DEF GridAssumption, Column
      <4>6. PartOf(t) = 1
        BY <2>1, <4>1, <4>2, <4>5 DEF PartOf
      <4> QED BY <3>2, <4>6
    <3> QED BY <1>1, <3>1, <3>2
  <2>2. CASE gv + 1 < copies
    <3>1. After(r) = [vi |-> vi, gv |-> gv + 1, part |-> 1]
      BY <1>7, <2>2 DEF After
    <3> HIDE DEF vi, gv
    <3>2. After(r).vi = vi /\ After(r).gv = gv + 1 /\ After(r).part = 1
      BY <3>1
    <3>3. PassedAt(After(r), t) <=> t.copy.vi < vi \/ (t.copy.vi = vi /\ t.copy.gv <= gv)
      BY <1>1, <1>3, <1>4, <3>2 DEF PassedAt
    <3>4. PassedAt(at[r], t) <=> \/ t.copy.vi < vi
                                 \/ t.copy.vi = vi /\ t.copy.gv < gv
                                 \/ t.copy.vi = vi /\ t.copy.gv = gv /\ PartOf(t) < at[r].part
      BY DEF PassedAt, vi, gv
    <3> QED BY <1>1, <1>3, <1>4, <1>5, <2>1, <3>3, <3>4
  <2>3. CASE ~ (gv + 1 < copies)
    <3>1. After(r) = [vi |-> vi + 1, gv |-> 0, part |-> 1]
      BY <1>7, <2>3 DEF After
    <3>2. t.copy.vi = vi => t.copy.gv <= gv
      BY <1>1, <1>2, <1>3, <2>3
    <3> HIDE DEF vi, gv
    <3>3. After(r).vi = vi + 1 /\ After(r).gv = 0 /\ After(r).part = 1
      BY <3>1
    <3>4. PassedAt(After(r), t) <=> t.copy.vi < vi + 1
      BY <1>1, <1>3, <1>4, <3>3 DEF PassedAt
    <3>5. PassedAt(at[r], t) <=> \/ t.copy.vi < vi
                                 \/ t.copy.vi = vi /\ t.copy.gv < gv
                                 \/ t.copy.vi = vi /\ t.copy.gv = gv /\ PartOf(t) < at[r].part
      BY DEF PassedAt, vi, gv
    <3> QED BY <1>1, <1>3, <1>4, <1>5, <2>1, <3>2, <3>4, <3>5
  <2> QED BY <2>2, <2>3
<1> QED BY <1>6, <1>7

\* Which kernel columns cover a column depends on the input only.
LEMMA SameCovering ==
  ASSUME UNCHANGED planes, NEW c
  PROVE  Serial!Covering(c)' = Serial!Covering(c)
  BY DEF Serial!Covering, Serial!Copies

(***************************************************************************)
(* What has been got past in column c, after a step of task r.             *)
(***************************************************************************)
LEMMA PassedStep ==
  ASSUME TypeOK, NEW r \in Task, ~ Finished(r), UNCHANGED <<planes, pi>>,
         at' = [at EXCEPT ![r] = After(r)],
         NEW c \in Column, NEW t \in Serial!Covering(c)
  PROVE  Passed(t, c)' <=> Passed(t, c) \/ (c % kernel_size = r /\ AtPart(t, r))
<1>1. r \in TaskId /\ c % kernel_size \in TaskId
  BY TaskTyped, ColumnTask
<1>2. kernel_size' = kernel_size
  BY DEF kernel_size, conv_support
<1>3. PartOf(t)' = PartOf(t)
  BY DEF PartOf, Serial!CopyCentre
<1>4. Passed(t, c)' <=> \/ t.copy.plane < pi
                        \/ t.copy.plane = pi /\ PassedAt(at'[c % kernel_size], t)
  BY <1>2, <1>3 DEF Passed, PassedAt
<1>5. CASE c % kernel_size # r
  <2>1. at'[c % kernel_size] = at[c % kernel_size]
    BY <1>1, <1>5 DEF TypeOK
  <2> QED BY <1>4, <1>5, <2>1 DEF Passed
<1>6. CASE c % kernel_size = r
  <2>1. at'[c % kernel_size] = After(r)
    BY <1>1, <1>6 DEF TypeOK
  <2>2. t.copy.plane = pi => (PassedAt(After(r), t) <=> PassedAt(at[r], t) \/ AtPart(t, r))
    BY AfterPassed
  <2>3. AtPart(t, r) => t.copy.plane = pi
    BY DEF AtPart
  <2> QED BY <1>4, <1>6, <2>1, <2>2, <2>3 DEF Passed
<1> QED BY <1>5, <1>6

\* A step of the loops leaves every task at a copy that exists.
LEMMA AfterExists ==
  ASSUME TypeOK, CopyExists, NEW r \in Task, ~ Finished(r), UNCHANGED <<planes, pi>>,
         at' = [at EXCEPT ![r] = After(r)]
  PROVE  CopyExists'
<1> SUFFICES ASSUME NEW q \in Task', ~ Finished(q)'
             PROVE  at'[q].gv < planes[pi].vis[at'[q].vi].copies
  BY DEF CopyExists
<1>1. q \in Task /\ q \in TaskId /\ r \in TaskId
  BY TaskTyped DEF Task, kernel_size, conv_support
<1>2. CASE q # r
  <2>1. at'[q] = at[q]
    BY <1>1, <1>2 DEF TypeOK
  <2> QED BY <1>1, <2>1 DEF CopyExists, Finished
<1>3. CASE q = r
  <2>1. at'[q] = After(r)
    BY <1>1, <1>3 DEF TypeOK
  <2>2. CASE at[r].part = 1 /\ AtMargin(r)
    <3>1. After(r) = [at[r] EXCEPT !.part = 2]
      BY <2>2 DEF After
    <3>2. After(r).vi = at[r].vi /\ After(r).gv = at[r].gv
      BY <1>1, <3>1 DEF TypeOK
    <3> QED BY <2>1, <3>2 DEF CopyExists
  <2>3. CASE /\ ~ (at[r].part = 1 /\ AtMargin(r))
             /\ at[r].gv + 1 < planes[pi].vis[at[r].vi].copies
    <3>1. After(r) = [vi |-> at[r].vi, gv |-> at[r].gv + 1, part |-> 1]
      BY <2>3 DEF After
    <3> QED BY <2>1, <2>3, <3>1
  <2>4. CASE /\ ~ (at[r].part = 1 /\ AtMargin(r))
             /\ ~ (at[r].gv + 1 < planes[pi].vis[at[r].vi].copies)
    <3>1. After(r) = [vi |-> at[r].vi + 1, gv |-> 0, part |-> 1]
      BY <2>4 DEF After
    <3> DEFINE k == at[r].vi + 1
    <3>2. pi \in DOMAIN planes /\ k \in Nat /\ k >= 1
      BY <1>1, InputsAssumption DEF TypeOK
    <3>3. ~ (k > Len(planes[pi].vis))
      BY <1>3, <2>1, <3>1 DEF Finished
    <3> HIDE DEF k
    <3>4. k \in DOMAIN planes[pi].vis
      BY <3>2, <3>3, InputTyped
    <3>5. planes[pi].vis[k].copies \in 1..2
      BY <3>2, <3>4, InputTyped
    <3> QED BY <2>1, <3>1, <3>5 DEF k
  <2> QED BY <2>2, <2>3, <2>4
<1> QED BY <1>2, <1>3

\* No step leaves a task at a copy that does not exist.
LEMMA CopyExistsStep ==
  ASSUME IInv, CopyExists, [Next]_vars
  PROVE  CopyExists'
<1>1. ASSUME NEW r \in Task, Skip(r)
      PROVE  CopyExists'
  BY <1>1, AfterExists DEF IInv, Skip
<1>2. ASSUME NEW r \in Task, Load(r)
      PROVE  CopyExists'
  BY <1>2 DEF Load, CopyExists, Task, kernel_size, conv_support, Finished
<1>3. ASSUME NEW r \in Task, Store(r)
      PROVE  CopyExists'
  <2>1. ~ Finished(r)
    BY <1>3, TaskTyped DEF IInv, LoadedUnfinished, Store
  <2> QED BY <1>3, <2>1, AfterExists DEF IInv, Store
<1>4. CASE NextPlane
  <2> SUFFICES ASSUME NEW q \in Task', ~ Finished(q)'
               PROVE  at'[q].gv < planes'[pi'].vis[at'[q].vi].copies
    BY DEF CopyExists
  <2>1. TypeOK'
    BY TypeStep DEF IInv
  <2>2. planes' = planes /\ pi' \in DOMAIN planes
    BY <1>4, <2>1, InputsAssumption DEF NextPlane, TypeOK
  <2>3. q \in TaskId
    <3>1. planes[pi'].support \in 1..max_support
      BY <2>2, InputTyped DEF IInv
    <3> QED BY <2>2, <3>1, GridAssumption
            DEF GridAssumption, Task, TaskId, kernel_size, conv_support
  <2>4. at'[q] = [vi |-> 1, gv |-> 0, part |-> 1]
    BY <1>4, <2>3 DEF NextPlane, Start
  <2>5. 1 \in DOMAIN planes[pi'].vis
    <3>1. ~ (1 > Len(planes[pi'].vis))
      BY <2>2, <2>4 DEF Finished
    <3>2. Len(planes[pi'].vis) \in Nat /\ DOMAIN planes[pi'].vis = 1 .. Len(planes[pi'].vis)
      BY <2>2, InputTyped DEF IInv
    <3> QED BY <3>1, <3>2
  <2>6. planes[pi'].vis[1].copies \in 1..2
    BY <2>2, <2>5, InputTyped DEF IInv
  <2> QED BY <2>2, <2>4, <2>6
<1>5. CASE UNCHANGED vars
  BY <1>5 DEF vars, CopyExists, Task, kernel_size, conv_support, Finished
<1> QED BY <1>1, <1>2, <1>3, <1>4, <1>5 DEF Next, Step

------------------------------------------------------------------------------
(* Every step is one of GridSum or leaves its variables alone.              *)

\* Skipping a column changes neither what is added nor what should be.
LEMMA SkipAdds ==
  ASSUME SInv, NEW r \in Task, Skip(r)
  PROVE  AddedIsPassed'
<1> SUFFICES ASSUME NEW c \in Column
             PROVE  Serial!Added(c)' = {t \in Serial!Covering(c) : Passed(t, c)'}
  BY SameCovering DEF AddedIsPassed, Skip, Column
<1>1. TypeOK /\ ~ Finished(r) /\ grid_col(r) \notin Column
  BY DEF SInv, IInv, Skip
<1>2. ASSUME NEW t \in Serial!Covering(c)
      PROVE  Passed(t, c)' <=> Passed(t, c)
  <2>1. ~ (c % kernel_size = r /\ AtPart(t, r))
    BY <1>1, CoveringStored
  <2> QED BY <1>1, <2>1, PassedStep DEF Skip
<1>3. Serial!Added(c)' = Serial!Added(c)
  BY DEF Skip, Serial!Added
<1>4. Serial!Added(c) = {t \in Serial!Covering(c) : Passed(t, c)}
  BY DEF SInv, AddedIsPassed
<1> QED BY <1>2, <1>3, <1>4

\* A store adds the next of the kernel columns that cover the column.
LEMMA StoreAdds ==
  ASSUME SInv, NEW r \in Task, Store(r)
  PROVE  AddedIsPassed' /\ Serial!SumNext
<1> DEFINE b == grid_col(r)
           k == KernelColumn(r)
<1>1. TypeOK /\ CopyExists /\ ~ Finished(r) /\ loaded[r]
  BY TaskTyped DEF SInv, IInv, LoadedUnfinished, Store
<1>2. b \in Column /\ buffer[r] = vis_grid[b]
  BY <1>1 DEF SInv, IInv, NoLostUpdate
<1>3. k \in Serial!Covering(b) /\ AtPart(k, r) /\ b % kernel_size = r
  BY <1>1, <1>2, StoredCovers, OwnResidue
<1>4. vis_grid' = [vis_grid EXCEPT ![b] = Append(vis_grid[b], k)]
  BY <1>2 DEF Store
<1> HIDE DEF b, k
<1>5. ASSUME NEW c \in Column
      PROVE  Serial!Added(c)' = Serial!Added(c) \union (IF c = b THEN {k} ELSE {})
  <2>1. vis_grid[c] \in Seq(KernelColumns) /\ vis_grid \in [Column -> Seq(KernelColumns)]
    BY <1>1 DEF TypeOK
  <2>2. CASE c = b
    <3>1. vis_grid'[c] = Append(vis_grid[c], k)
      BY <1>4, <2>1, <2>2
    <3> DEFINE s == vis_grid[c]
               n == Len(s)
    <3>2. s \in Seq(KernelColumns) /\ n \in Nat /\ DOMAIN s = 1 .. n
      BY <2>1
    <3> HIDE DEF s, n
    <3>3. /\ DOMAIN Append(s, k) = 1 .. n + 1
          /\ \A i \in 1 .. n : Append(s, k)[i] = s[i]
          /\ Append(s, k)[n + 1] = k
      BY <3>2 DEF n
    <3>4. 1 .. n + 1 = (1 .. n) \union {n + 1}
      BY <3>2
    <3>5. {Append(s, k)[i] : i \in DOMAIN Append(s, k)} = {s[i] : i \in DOMAIN s} \union {k}
      BY <3>2, <3>3, <3>4
    <3> QED BY <2>2, <3>1, <3>5 DEF Serial!Added, s
  <2>3. CASE c # b
    <3>1. vis_grid'[c] = vis_grid[c]
      BY <1>4, <2>1, <2>3
    <3> QED BY <2>3, <3>1 DEF Serial!Added
  <2> QED BY <2>2, <2>3
<1>6. ASSUME NEW c \in Column, NEW t \in Serial!Covering(c)
      PROVE  Passed(t, c)' <=> Passed(t, c) \/ (c = b /\ t = k)
  <2>1. c % kernel_size = r /\ AtPart(t, r) <=> c = b /\ t = k
    BY <1>1, <1>3, CoveringStored DEF b, k
  <2> QED BY <1>1, <2>1, PassedStep DEF Store
<1>7. \A c \in Column : Serial!Added(c) = {t \in Serial!Covering(c) : Passed(t, c)}
  BY DEF SInv, AddedIsPassed
<1>8. AddedIsPassed'
  <2> SUFFICES ASSUME NEW c \in Column
               PROVE  Serial!Added(c)' = {t \in Serial!Covering(c) : Passed(t, c)'}
    BY SameCovering DEF AddedIsPassed, Store, Column
  <2> QED BY <1>3, <1>5, <1>6, <1>7
<1>9. ~ Passed(k, b)
  <2>1. k.copy.plane = pi /\ k.copy.vi = at[r].vi /\ k.copy.gv = at[r].gv
        /\ PartOf(k) = at[r].part
    BY <1>3 DEF AtPart
  <2>2. pi \in Nat /\ at[r].vi \in Nat /\ at[r].gv \in Nat /\ at[r].part \in Nat
    <3>1. r \in TaskId
      BY <1>1, TaskTyped
    <3>2. at[r].vi \in Nat /\ at[r].gv \in 0..1 /\ at[r].part \in 1..2 /\ pi \in Nat
      BY <1>1, <3>1 DEF TypeOK
    <3> QED BY <3>2
  <2> QED BY <1>3, <2>1, <2>2 DEF Passed, PassedAt
<1>10. ASSUME NEW u \in Serial!Covering(b), ~ Passed(u, b), u # k
       PROVE  Serial!Before(k.copy, u.copy)
  <2>1. /\ k.copy = [plane |-> pi, vi |-> at[r].vi, gv |-> at[r].gv]
        /\ k = [copy |-> k.copy, col |-> k.col]
    BY <1>3 DEF AtPart, KernelColumn, k
  <2>2. /\ u.copy.plane \in DOMAIN planes
        /\ u.copy.vi \in DOMAIN planes[u.copy.plane].vis
        /\ u.copy.gv \in 0 .. planes[u.copy.plane].vis[u.copy.vi].copies - 1
        /\ u.copy = [plane |-> u.copy.plane, vi |-> u.copy.vi, gv |-> u.copy.gv]
        /\ u = [copy |-> u.copy, col |-> u.col]
        /\ u.col \in 0 .. 2 * planes[u.copy.plane].support
        /\ Serial!GridCols(Serial!CopyCentre(planes[u.copy.plane].vis[u.copy.vi].x, u.copy.gv),
                           planes[u.copy.plane].support)[u.col] = b
    BY <1>1, <1>2, <1>10, Covers
  <2>3. u.copy.plane \in Nat /\ u.copy.vi \in Nat /\ u.copy.gv \in Nat
    <3>1. planes[u.copy.plane].vis[u.copy.vi].copies \in 1..2
      BY <1>1, <2>2, InputTyped
    <3> QED BY <1>1, <2>2, <3>1, InputTyped
  <2>4. pi \in Nat /\ at[r].vi \in Nat /\ at[r].gv \in Nat /\ r \in TaskId
    BY <1>1, TaskTyped DEF TypeOK
  <2>5. u.copy # k.copy
    <3> SUFFICES ASSUME u.copy = k.copy PROVE FALSE
      OBVIOUS
    <3>1. PartOf(u) # at[r].part
      <4>1. ~ AtPart(u, r)
        BY <1>1, <1>3, <1>10, CoveringStored, <1>2 DEF b, k
      <4> QED BY <2>1, <4>1 DEF AtPart
    <3> DEFINE s == planes[u.copy.plane].support
               x == Serial!CopyCentre(planes[u.copy.plane].vis[u.copy.vi].x, u.copy.gv)
    <3>2. u.col \in 0 .. 2 * s /\ Serial!GridCols(x, s)[u.col] = b
      BY <2>2
    <3>3. k.col \in 0 .. 2 * s /\ Serial!GridCols(x, s)[k.col] = b
      <4>1. /\ k.col \in 0 .. 2 * planes[k.copy.plane].support
            /\ Serial!GridCols(Serial!CopyCentre(planes[k.copy.plane].vis[k.copy.vi].x, k.copy.gv),
                               planes[k.copy.plane].support)[k.col] = b
        BY <1>1, <1>2, <1>3, Covers
      <4> QED BY <4>1
    <3>4. s \in 1..max_support /\ x \in 0 .. image_size
      BY <1>1, <2>2, InputTyped, CentreTyped
    <3> HIDE DEF s, x
    <3>5. u.col = k.col
      BY <1>2, <3>2, <3>3, <3>4, CoveredOnce
    <3> QED BY <1>10, <2>1, <2>2, <3>5
  <2>6. \/ u.copy.plane # pi
        \/ u.copy.vi # at[r].vi
        \/ u.copy.gv # at[r].gv
    BY <2>1, <2>2, <2>5
  <2>7. /\ ~ (u.copy.plane < pi)
        /\ u.copy.plane = pi => /\ ~ (u.copy.vi < at[r].vi)
                                /\ ~ (u.copy.vi = at[r].vi /\ u.copy.gv < at[r].gv)
    BY <1>3, <1>10 DEF Passed, PassedAt
  <2> QED BY <2>1, <2>3, <2>4, <2>6, <2>7 DEF Serial!Before
<1>11. Serial!AddTo(b)
  <2>1. k \in Serial!Covering(b) \ Serial!Added(b)
    BY <1>2, <1>3, <1>7, <1>9
  <2>2. \A u \in Serial!Covering(b) \ (Serial!Added(b) \union {k}) :
          Serial!Before(k.copy, u.copy)
    BY <1>2, <1>7, <1>10
  <2> QED BY <1>4, <2>1, <2>2 DEF Serial!AddTo, Store
<1> QED BY <1>2, <1>8, <1>11 DEF Serial!SumNext, Serial!Column, Column

\* Nor does a step that leaves the grid and the loops' positions alone.
LEMMA AddedKept ==
  ASSUME SInv, UNCHANGED <<planes, pi, at, vis_grid>>
  PROVE  AddedIsPassed'
<1> SUFFICES ASSUME NEW c \in Column
             PROVE  Serial!Added(c)' = {t \in Serial!Covering(c) : Passed(t, c)'}
  BY SameCovering DEF AddedIsPassed, Column
<1>1. (c % kernel_size)' = c % kernel_size
  BY DEF kernel_size, conv_support
<1>2. ASSUME NEW t
      PROVE  Passed(t, c)' <=> Passed(t, c)
  <2>1. PartOf(t)' = PartOf(t)
    BY DEF PartOf, Serial!CopyCentre
  <2> QED BY <1>1, <2>1 DEF Passed, PassedAt
<1>3. Serial!Added(c)' = Serial!Added(c)
  BY DEF Serial!Added
<1>4. Serial!Added(c) = {t \in Serial!Covering(c) : Passed(t, c)}
  BY DEF SInv, AddedIsPassed
<1> QED BY <1>2, <1>3, <1>4

(***************************************************************************)
(* When all tasks of a plane have finished, all its kernel columns have    *)
(* been got past, and none of the next plane's.                            *)
(***************************************************************************)
LEMMA NextPlaneAdds ==
  ASSUME SInv, NextPlane
  PROVE  AddedIsPassed'
<1> SUFFICES ASSUME NEW c \in Column
             PROVE  Serial!Added(c)' = {t \in Serial!Covering(c) : Passed(t, c)'}
  BY SameCovering DEF AddedIsPassed, NextPlane, Column
<1>1. TypeOK /\ TypeOK' /\ pi \in Nat /\ pi' = pi + 1 /\ planes' = planes
  BY TypeStep DEF SInv, IInv, NextPlane, Next, TypeOK
<1>2. ASSUME NEW t \in Serial!Covering(c)
      PROVE  Passed(t, c)' <=> Passed(t, c)
  <2>1. /\ t.copy.plane \in DOMAIN planes
        /\ t.copy.vi \in DOMAIN planes[t.copy.plane].vis
        /\ t.copy.gv \in 0 .. planes[t.copy.plane].vis[t.copy.vi].copies - 1
    BY <1>1, Covers
  <2>2. t.copy.plane \in Nat /\ t.copy.vi \in Nat /\ t.copy.vi >= 1 /\ t.copy.gv \in Nat
        /\ t.copy.vi <= Len(planes[t.copy.plane].vis)
        /\ Len(planes[t.copy.plane].vis) \in Nat
    <3>1. planes[t.copy.plane].vis[t.copy.vi].copies \in 1..2
      BY <1>1, <2>1, InputTyped
    <3> QED BY <1>1, <2>1, <3>1, InputTyped
  <2>3. t.copy.plane = pi => Passed(t, c)
    <3>1. c % kernel_size \in Task /\ c % kernel_size \in TaskId
      BY <1>1, ColumnTask, TaskTyped
    <3>2. at[c % kernel_size].vi > Len(planes[pi].vis)
      BY <3>1 DEF NextPlane, PlaneDone, Finished
    <3>3. at[c % kernel_size].vi \in Nat
      BY <1>1, <3>1 DEF TypeOK
    <3> QED BY <2>2, <3>2, <3>3 DEF Passed, PassedAt
  <2>4. t.copy.plane = pi' => ~ Passed(t, c)'
    <3>1. (c % kernel_size)' \in TaskId
      <4> DEFINE s == planes[pi'].support
      <4>1. s \in 1..max_support
        <5>1. pi' \in DOMAIN planes
          BY <1>1, InputsAssumption DEF TypeOK
        <5> QED BY <1>1, <5>1, InputTyped
      <4>2. (c % kernel_size)' = c % (2 * s + 1)
        BY <1>1 DEF kernel_size, conv_support
      <4> HIDE DEF s
      <4>3. c \in Int /\ 2 * s + 1 \in Nat \ {0} /\ s <= max_support /\ s \in Nat
            /\ max_support \in Nat
        BY <4>1, GridAssumption DEF GridAssumption, Column
      <4>4. c % (2 * s + 1) \in 0 .. (2 * s + 1) - 1
        BY <4>3, Division
      <4> QED BY <4>2, <4>3, <4>4 DEF TaskId
    <3>2. at'[(c % kernel_size)'] = [vi |-> 1, gv |-> 0, part |-> 1]
      BY <3>1 DEF NextPlane, Start
    <3>3. PartOf(t)' \in 1..2
      BY DEF PartOf
    <3> QED BY <1>1, <2>2, <3>2, <3>3 DEF Passed, PassedAt
  <2> QED BY <1>1, <2>2, <2>3, <2>4 DEF Passed
<1>3. Serial!Added(c)' = Serial!Added(c)
  BY DEF NextPlane, Serial!Added
<1>4. Serial!Added(c) = {t \in Serial!Covering(c) : Passed(t, c)}
  BY DEF SInv, AddedIsPassed
<1> QED BY <1>2, <1>3, <1>4

\* Nothing is added and nothing got past initially.
LEMMA SInvInit == Init => SInv
<1> SUFFICES ASSUME Init PROVE SInv
  OBVIOUS
<1>1. IInv /\ TypeOK
  BY InvInit DEF IInv
<1>2. pi = 1 /\ pi \in DOMAIN planes
  BY <1>1, InputsAssumption DEF Init, TypeOK
<1>3. ASSUME NEW r \in TaskId
      PROVE  at[r] = [vi |-> 1, gv |-> 0, part |-> 1]
  BY DEF Init, Start
<1>4. CopyExists
  <2> SUFFICES ASSUME NEW r \in Task, ~ Finished(r)
               PROVE  at[r].gv < planes[pi].vis[at[r].vi].copies
    BY DEF CopyExists
  <2>1. planes[pi].vis[at[r].vi].copies \in 1..2 /\ at[r].gv = 0
    BY <1>1, <1>3, TaskTyped, VisibilityTyped
  <2> QED BY <2>1
<1>5. AddedIsPassed
  <2> SUFFICES ASSUME NEW c \in Column
               PROVE  Serial!Added(c) = {t \in Serial!Covering(c) : Passed(t, c)}
    BY DEF AddedIsPassed
  <2>1. Serial!Added(c) = {}
    BY DEF Init, Serial!Added
  <2>2. ASSUME NEW t \in Serial!Covering(c)
        PROVE  ~ Passed(t, c)
    <3>1. /\ t.copy.plane \in DOMAIN planes
          /\ t.copy.vi \in DOMAIN planes[t.copy.plane].vis
          /\ t.copy.gv \in 0 .. planes[t.copy.plane].vis[t.copy.vi].copies - 1
      BY <1>1, Covers
    <3>2. t.copy.plane \in Nat /\ t.copy.plane >= 1
          /\ t.copy.vi \in Nat /\ t.copy.vi >= 1 /\ t.copy.gv \in Nat
      <4>1. planes[t.copy.plane].vis[t.copy.vi].copies \in 1..2
        BY <1>1, <3>1, InputTyped
      <4> QED BY <1>1, <3>1, <4>1, InputTyped
    <3>3. c % kernel_size \in TaskId
      BY <1>1, ColumnTask, TaskTyped
    <3>4. PartOf(t) \in 1..2
      BY DEF PartOf
    <3> QED BY <1>2, <1>3, <3>2, <3>3, <3>4 DEF Passed, PassedAt
  <2> QED BY <2>1, <2>2
<1> QED BY <1>1, <1>4, <1>5 DEF SInv

\* Every step keeps the invariant, and is one of GridSum or a stutter.
LEMMA SInvStep ==
  ASSUME SInv, [Next]_vars
  PROVE  SInv' /\ [Serial!SumNext]_<<planes, vis_grid>>
<1>1. IInv' /\ CopyExists'
  BY InvStep, CopyExistsStep DEF SInv
<1>2. ASSUME NEW r \in Task, Skip(r)
      PROVE  AddedIsPassed' /\ UNCHANGED <<planes, vis_grid>>
  BY <1>2, SkipAdds DEF Skip
<1>3. ASSUME NEW r \in Task, Load(r)
      PROVE  AddedIsPassed' /\ UNCHANGED <<planes, vis_grid>>
  BY <1>3, AddedKept DEF Load
<1>4. ASSUME NEW r \in Task, Store(r)
      PROVE  AddedIsPassed' /\ Serial!SumNext
  BY <1>4, StoreAdds
<1>5. ASSUME NextPlane
      PROVE  AddedIsPassed' /\ UNCHANGED <<planes, vis_grid>>
  BY <1>5, NextPlaneAdds DEF NextPlane
<1>6. ASSUME UNCHANGED vars
      PROVE  AddedIsPassed' /\ UNCHANGED <<planes, vis_grid>>
  BY <1>6, AddedKept DEF vars
<1>7. AddedIsPassed' /\ [Serial!SumNext]_<<planes, vis_grid>>
  BY <1>2, <1>3, <1>4, <1>5, <1>6 DEF Next, Step
<1> QED BY <1>1, <1>7 DEF SInv

(***************************************************************************)
(* The multi-threaded gridder adds to every column of the grid what the    *)
(* single-threaded one adds, in the same order, each kernel column once:   *)
(* its steps are steps of GridSum, for every size, support, and list of    *)
(* planes and visibilities.                                                *)
(***************************************************************************)
THEOREM AddsInSerialOrder == Spec => Serial!SumSafe
<1>1. Init => Serial!SumInit
  BY DEF Init, Serial!SumInit, Serial!Column, Column
<1>2. SInv /\ [Next]_vars => SInv' /\ [Serial!SumNext]_<<planes, vis_grid>>
  BY SInvStep
<1> QED BY <1>1, <1>2, SInvInit, PTL DEF Spec, Serial!SumSafe
==============================================================================
