------------------------------- MODULE Labeling ------------------------------
(***************************************************************************)
(* labeling_4con and labeling_8con of src/stp/common/ccl.h.  The columns   *)
(* of the image are divided into slices, which tbb::parallel_for scans     *)
(* concurrently: a slice gives temporary labels to its pixels and records  *)
(* in the shared array P which of them are equivalent.  Then the calling   *)
(* thread alone joins the slices along their borders and numbers the       *)
(* equivalence classes.  The two functions differ in the neighbours they   *)
(* look at (Conn8).                                                        *)
(*                                                                         *)
(* A slice labels one pixel per step, and a call of set_union is one step; *)
(* UnionFind divides that call further.  The branch for negative sources   *)
(* repeats the one for positive sources with the opposite sign in L and    *)
(* its own column of P: here both are one definition for the polarity s.   *)
(***************************************************************************)
EXTENDS Integers, Sequences, FiniteSets, SequencesExt, UnionFindOps

CONSTANT
  Calls          \* as in ConnectedComponents, with one field more,
                 \* slices: first column of each slice of the static partitioner

\* The assertions at the start of both functions.
ASSUME LabelingAssumption ==
  \A c \in Calls :
    /\ c.rows \in Nat /\ c.rows % 2 = 0 /\ c.rows <= 65536
    /\ c.cols \in Nat /\ c.cols % 2 = 0 /\ c.cols <= 65536
    /\ (c.cols * c.rows) \div 2 > c.cols
    /\ c.slices \subseteq 0 .. c.cols - 1
    /\ 0 \in c.slices

VARIABLES
  call,          \* what is called, with which image, in which build
  L,             \* label map, temporary labels: > 0 positive, < 0 negative
  P,             \* P[s]: label equivalence array of polarity s
  state,         \* of each slice: "new", "scan" or "done"
  c_i, m_r_i,    \* the pixel each slice has come to
  lunique,       \* lunique[k][s]: next label of polarity s of slice k
  label_data,    \* LabelDataThread records, in the order the slices finish
  phase,         \* of the calling thread
  at, merge_r_i, \* the entry of label_data, and the row, whose border is merged next
  num_l          \* number of labels of each polarity

mainvars == <<phase, at, merge_r_i, num_l>>
scanvars == <<state, c_i, m_r_i, lunique>>
vars == <<call, L, P, state, c_i, m_r_i, lunique, label_data, phase, at, merge_r_i, num_l>>

Conn8        == call.conn8
FftShift     == call.fftshift
FindNegative == call.find_negative
I            == call.image
Rows         == call.rows
Cols         == call.cols
SliceStart   == call.slices
Plength      == (Cols * Rows) \div 2

Sign == {1, -1}
Pixel == (0 .. Rows - 1) \X (0 .. Cols - 1)

cshift == Cols \div 2
rshift == Rows \div 2

\* Column c_i of the sky as a column of the matrix.
m_c_i(c) == IF FftShift THEN c ELSE IF c >= cshift THEN c - cshift ELSE c + cshift
\* Mutant of m_c_i_prev: the default build does not wrap around the matrix.
m_c_i_prev_clamped(m) == IF m = 0 THEN m ELSE m - 1

\* The column of the matrix on the left of column m in the sky.
m_c_i_prev(m) == IF m = 0 THEN (IF FftShift THEN m ELSE Cols - 1) ELSE m - 1

SliceEnd(k) ==
  LET later == {c \in SliceStart \union {Cols} : c > k}
  IN  CHOOSE c \in later : \A d \in later : c <= d

\* First element of the block of P that belongs to slice k.
lunique_start(k) == k * (Rows \div 2)

\* The branch of the scan taken for pixel p.
Polarity(p) ==
  CASE I[p] = 1                   -> 1
    [] I[p] = -1 /\ FindNegative  -> -1
    [] OTHER                      -> 0

Polar(x) == IF x > 0 THEN 1 ELSE -1

------------------------------------------------------------------------------
(* The scan of one slice.                                                   *)

\* Mutant of Connected: any label will do.
ConnectedAnySign(s, valid, r, m) ==
  IF valid /\ L[<<r, m>>] # 0 THEN Polar(L[<<r, m>>]) * L[<<r, m>>] ELSE 0

\* The label of polarity s that a neighbour carries, 0 if it is not connected.
Connected(s, valid, r, m) ==
  IF valid /\ s * L[<<r, m>>] > 0 THEN s * L[<<r, m>>] ELSE 0

\* Mutant of LeftCol_valid: across the slice's border.
LeftCol_valid_across(k) == c_i[k] # 0

\* The first column of each slice has no left neighbours.
LeftCol_valid(k) == c_i[k] # k

\* T_left, T_top, T_topleft, T_bottomleft, with the label instead of TRUE.
ScanNeighbours(k, s) ==
  LET r         == m_r_i[k]
      m         == m_c_i(c_i[k])
      prev      == m_c_i_prev(m)
      leftValid == LeftCol_valid(k)
      above     == r # 0 /\ (FftShift \/ r # rshift)
      below     == r # Rows - 1 /\ (FftShift \/ r # rshift - 1)
  IN  [left       |-> Connected(s, leftValid, r, prev),
       top        |-> Connected(s, above, r - 1, m),
       topleft    |-> Connected(s, above /\ leftValid, r - 1, prev),
       bottomleft |-> Connected(s, below /\ leftValid, r + 1, prev)]

\* The decision trees: the labels the pixel makes equivalent.
Decision4(n) ==
  CASE n.left > 0 /\ n.top > 0  -> <<n.top, n.left>>
    [] n.left > 0 /\ n.top = 0  -> <<n.left>>
    [] n.left = 0 /\ n.top > 0  -> <<n.top>>
    [] OTHER                    -> <<>>

\* Mutant of Decision8: the pixel above is forgotten.
Decision8NoTop(n) ==
  CASE n.left > 0                                       -> <<n.left>>
    [] n.left = 0 /\ n.bottomleft > 0 /\ n.topleft > 0  -> <<n.topleft, n.bottomleft>>
    [] n.left = 0 /\ n.bottomleft > 0 /\ n.topleft = 0  -> <<n.bottomleft>>
    [] n.left = 0 /\ n.bottomleft = 0 /\ n.topleft > 0  -> <<n.topleft>>
    [] OTHER                                            -> <<>>

Decision8(n) ==
  CASE n.left > 0                                       -> <<n.left>>
    [] n.left = 0 /\ n.bottomleft > 0 /\ n.topleft > 0  -> <<n.topleft, n.bottomleft>>
    [] n.left = 0 /\ n.bottomleft > 0 /\ n.topleft = 0 /\ n.top > 0
                                                        -> <<n.top, n.bottomleft>>
    [] n.left = 0 /\ n.bottomleft > 0 /\ n.topleft = 0 /\ n.top = 0
                                                        -> <<n.bottomleft>>
    [] n.left = 0 /\ n.bottomleft = 0 /\ n.topleft > 0  -> <<n.topleft>>
    [] n.left = 0 /\ n.bottomleft = 0 /\ n.topleft = 0 /\ n.top > 0
                                                        -> <<n.top>>
    [] OTHER                                            -> <<>>

Decision(k, s) ==
  IF Conn8 THEN Decision8(ScanNeighbours(k, s)) ELSE Decision4(ScanNeighbours(k, s))

\* Mutant of StartSlice: the reserved element is handed out.
StartSliceUnreserved(k) ==
  /\ state[k] = "new"
  /\ P' = [s \in Sign |-> [P[s] EXCEPT ![lunique_start(k)] = 0]]
  /\ lunique' = [lunique EXCEPT ![k] = [s \in Sign |-> lunique_start(k)]]
  /\ state' = [state EXCEPT ![k] = "scan"]
  /\ UNCHANGED <<call, L, c_i, m_r_i, label_data, mainvars>>

\* The slice reserves the first element of its block and starts at its first
\* column.  Pp and Pn are the same array when negative sources are not sought.
StartSlice(k) ==
  /\ state[k] = "new"
  /\ P' = [s \in Sign |-> [P[s] EXCEPT ![lunique_start(k)] = 0]]
  /\ lunique' = [lunique EXCEPT ![k] = [s \in Sign |-> lunique_start(k) + 1]]
  /\ state' = [state EXCEPT ![k] = "scan"]
  /\ UNCHANGED <<call, L, c_i, m_r_i, label_data, mainvars>>

Here(k) == <<m_r_i[k], m_c_i(c_i[k])>>

NextRow(k) ==
  /\ state[k] = "scan"
  /\ m_r_i[k] < Rows
  /\ m_r_i' = [m_r_i EXCEPT ![k] = @ + 1]
  /\ UNCHANGED <<call, state, c_i, label_data, mainvars>>

SkipPixel(k) ==
  /\ NextRow(k)
  /\ Polarity(Here(k)) = 0
  /\ UNCHANGED <<L, P, lunique>>

\* No labelled neighbour: a new label.
NewLabel(k, s) ==
  /\ NextRow(k)
  /\ Polarity(Here(k)) = s
  /\ Decision(k, s) = <<>>
  /\ L' = [L EXCEPT ![Here(k)] = s * lunique[k][s]]
  /\ P' = [P EXCEPT ![s][lunique[k][s]] = lunique[k][s]]
  /\ lunique' = [lunique EXCEPT ![k][s] = @ + 1]

CopyLabel(k, s) ==
  /\ NextRow(k)
  /\ Polarity(Here(k)) = s
  /\ Len(Decision(k, s)) = 1
  /\ L' = [L EXCEPT ![Here(k)] = s * Decision(k, s)[1]]
  /\ UNCHANGED <<P, lunique>>

MergeLabels(k, s) ==
  /\ NextRow(k)
  /\ Polarity(Here(k)) = s
  /\ Len(Decision(k, s)) = 2
  /\ LET d == Decision(k, s)
         u == set_union(P[s], d[1], d[2])
     IN  /\ L' = [L EXCEPT ![Here(k)] = s * u.root]
         /\ P' = [P EXCEPT ![s] = u.P]
  /\ UNCHANGED lunique

\* set_union of root and x, if x is a label of polarity s at all.
UniteIf(connected, u, x) == IF connected THEN set_union(u.P, u.root, x) ELSE u

\* Mutant of RowBorder: the first row is never merged with the last.
RowBorderSkipped(m) == UNCHANGED <<L, P>>

\* Row border merging: the first row of column m meets the last row.
RowBorder(m) ==
  LET cur     == L[<<0, m>>]
      s       == Polar(cur)
      top     == L[<<Rows - 1, m>>]
      topleft == L[<<Rows - 1, m_c_i_prev(m)>>]
      u0      == [P |-> P[s], root |-> s * cur]
      u1      == UniteIf(s * top > 0, u0, s * top)
      u2      == UniteIf(Conn8 /\ s * topleft > 0 /\ top # topleft, u1, s * topleft)
  IN  IF FftShift \/ cur = 0
      THEN UNCHANGED <<L, P>>
      ELSE /\ L' = [L EXCEPT ![<<0, m>>] = s * u2.root]
           /\ P' = [P EXCEPT ![s] = u2.P]

\* Mutant of ColumnsLeft: the slice goes on into the next slice's first column.
ColumnsLeftInclusive(k) == c_i[k] + 1 <= SliceEnd(k)

\* The loop over the slice's columns goes on.
ColumnsLeft(k) == c_i[k] + 1 < SliceEnd(k)

\* The slice has been through a column: it merges the column's row border and
\* goes to the next column, or hands over its data.
EndColumn(k) ==
  /\ state[k] = "scan"
  /\ m_r_i[k] = Rows
  /\ RowBorder(m_c_i(c_i[k]))
  /\ \/ /\ ColumnsLeft(k)
        /\ c_i' = [c_i EXCEPT ![k] = @ + 1]
        /\ m_r_i' = [m_r_i EXCEPT ![k] = 0]
        /\ UNCHANGED <<state, label_data>>
     \/ /\ ~ ColumnsLeft(k)
        /\ state' = [state EXCEPT ![k] = "done"]
        /\ label_data' = Append(label_data, [col_start |-> k, lunique |-> lunique[k]])
        /\ UNCHANGED <<c_i, m_r_i>>
  /\ UNCHANGED <<call, lunique, mainvars>>

SliceStep(k) ==
  \/ StartSlice(k)
  \/ SkipPixel(k)
  \/ \E s \in Sign : NewLabel(k, s) \/ CopyLabel(k, s) \/ MergeLabels(k, s)
  \/ EndColumn(k)

------------------------------------------------------------------------------
(* The calling thread.                                                      *)

\* Mutant of Join: the slices' data stay in the order the slices finished in.
JoinUnsorted ==
  /\ phase = "scan"
  /\ \A k \in SliceStart : state[k] = "done"
  /\ phase' = "merge"
  /\ at' = 1
  /\ UNCHANGED <<call, L, P, scanvars, label_data, merge_r_i, num_l>>

\* label_data in increasing order of the columns, which differ.
SortedByColumn ==
  LET slot == DOMAIN label_data
  IN  {[x \in slot |-> label_data[order[x]]] :
         order \in {f \in [slot -> slot] :
                     \A x, y \in slot :
                       x < y => label_data[f[x]].col_start < label_data[f[y]].col_start}}

\* parallel_for returns; the slices' data are sorted by column.
Join ==
  /\ phase = "scan"
  /\ \A k \in SliceStart : state[k] = "done"
  /\ label_data' \in SortedByColumn
  /\ phase' = "merge"
  /\ at' = 1
  /\ UNCHANGED <<call, L, P, scanvars, merge_r_i, num_l>>

\* Mutant of BottomOfSky: the row above it.
BottomOfSkyShort == (IF FftShift THEN Rows - 1 ELSE rshift - 1) - 1

\* The rows of the matrix that are the first and the last of the sky: no
\* column border merging upwards from one, downwards from the other.
TopOfSky    == IF FftShift THEN 0 ELSE rshift
BottomOfSky == IF FftShift THEN Rows - 1 ELSE rshift - 1

\* Column border merging of the pixel in row r of column c with the column on
\* its left.
MergePixel(c, r) ==
  LET m       == m_c_i(c)
      prev    == m_c_i_prev(m)
      cur     == L[<<r, m>>]
      s       == Polar(cur)
      rowPrev == IF r = 0 THEN (IF FftShift THEN r ELSE Rows - 1) ELSE r - 1
      rowNext == IF r = Rows - 1 THEN (IF FftShift THEN r ELSE 0) ELSE r + 1
      Unite(u, valid, q) ==
        IF valid /\ c # 0 /\ s * L[q] > 0 THEN set_union(u.P, s * cur, s * L[q]) ELSE u
      u0      == [P |-> P[s], root |-> s * cur]
      u1      == Unite(u0, Conn8 /\ r # TopOfSky, <<rowPrev, prev>>)
      u2      == Unite(u1, TRUE, <<r, prev>>)
      u3      == Unite(u2, Conn8 /\ r # BottomOfSky, <<rowNext, prev>>)
  IN  IF cur = 0
      THEN UNCHANGED <<L, P>>
      ELSE /\ L' = [L EXCEPT ![<<r, m>>] = s * u3.root]
           /\ P' = [P EXCEPT ![s] = u3.P]

\* The first column of the next entry, row by row.
MergeBorder ==
  /\ phase = "merge"
  /\ at <= Len(label_data)
  /\ MergePixel(label_data[at].col_start, merge_r_i)
  /\ merge_r_i' = (merge_r_i + 1) % Rows
  /\ at' = IF merge_r_i + 1 = Rows THEN at + 1 ELSE at
  /\ UNCHANGED <<call, scanvars, label_data, phase, num_l>>

\* The labels of polarity s that the slices have handed out, slice by slice.
IssuedLabels(s) ==
  FlattenSeq([x \in 1..Len(label_data) |->
    LET start == lunique_start(label_data[x].col_start)
    IN  [y \in 1 .. label_data[x].lunique[s] - start - 1 |-> start + y]])

\* One label of the analysis: a root takes the next number, any other label
\* that of its parent, which has been renumbered already.
Renumber(acc, x) ==
  IF acc.P[x] < x
  THEN [acc EXCEPT !.P[x] = acc.P[acc.P[x]]]
  ELSE [acc EXCEPT !.P[x] = acc.k, !.k = @ + 1]

Analysis ==
  /\ phase = "merge"
  /\ at > Len(label_data)
  /\ LET end == [s \in Sign |->
                   IF s = 1 \/ FindNegative
                   THEN FoldLeft(Renumber, [P |-> P[s], k |-> 1], IssuedLabels(s))
                   ELSE [P |-> P[s], k |-> 1]]
     IN  /\ P' = [s \in Sign |-> end[s].P]
         /\ num_l' = [s \in Sign |-> end[s].k - 1]
  /\ phase' = "done"
  /\ UNCHANGED <<call, L, scanvars, label_data, at, merge_r_i>>

MainStep == Join \/ MergeBorder \/ Analysis

------------------------------------------------------------------------------
\* The label map and P start as zeroes.  P has one element more than the code
\* allocates: what a label written past its end would hit.
Init ==
  /\ call \in Calls
  /\ L = [p \in Pixel |-> 0]
  /\ P = [s \in Sign |-> [x \in 0..Plength |-> 0]]
  /\ state = [k \in SliceStart |-> "new"]
  /\ c_i = [k \in SliceStart |-> k]
  /\ m_r_i = [k \in SliceStart |-> 0]
  /\ lunique = [k \in SliceStart |-> [s \in Sign |-> 0]]
  /\ label_data = <<>>
  /\ phase = "scan"
  /\ at = 0
  /\ merge_r_i = 0
  /\ num_l = [s \in Sign |-> 0]

\* The function has returned.
Returned == phase = "done" /\ UNCHANGED vars

Next ==
  \/ \E k \in SliceStart : SliceStep(k)
  \/ MainStep
  \/ Returned

Spec == Init /\ [][Next]_vars

------------------------------------------------------------------------------
TypeOK ==
  /\ I \in [Pixel -> {-1, 0, 1}]
  /\ L \in [Pixel -> -Plength .. Plength]
  /\ P \in [Sign -> [0..Plength -> 0..Plength]]
  /\ state \in [SliceStart -> {"new", "scan", "done"}]
  /\ c_i \in [SliceStart -> 0 .. Cols - 1]
  /\ m_r_i \in [SliceStart -> 0 .. Rows]
  /\ lunique \in [SliceStart -> [Sign -> 0 .. Plength + 1]]
  /\ label_data \in Seq([col_start : SliceStart, lunique : [Sign -> 0 .. Plength + 1]])
  /\ phase \in {"scan", "merge", "done"}
  /\ at \in 0 .. Cardinality(SliceStart) + 1
  /\ merge_r_i \in 0 .. Rows - 1
  /\ num_l \in [Sign -> 0..Plength]

\* x is a label of polarity s some slice has handed out.
Issued(s, x) ==
  \E k \in SliceStart : lunique_start(k) < x /\ x < lunique[k][s]

(***************************************************************************)
(* Until the classes are numbered, the parent of every label handed out is *)
(* a label handed out and not larger, never a reserved or unused element,  *)
(* and every pixel carries such a label: the analysis, which goes through  *)
(* the blocks in increasing order, then finds every parent renumbered.     *)
(***************************************************************************)
LabelForest ==
  phase # "done" =>
    /\ \A s \in Sign, x \in 0..Plength :
          Issued(s, x) => P[s][x] <= x /\ Issued(s, P[s][x])
    /\ \A p \in Pixel : L[p] # 0 => Issued(Polar(L[p]), Polar(L[p]) * L[p])

(***************************************************************************)
(* A block of rows/2 elements per column, less the reserved one, is room   *)
(* for every label a slice hands out ("A quick and dirty upper bound for   *)
(* the maximimum number of labels").                                       *)
(***************************************************************************)
LabelsFitBlock ==
  \A k \in SliceStart, s \in Sign : lunique[k][s] <= lunique_start(SliceEnd(k))

(***************************************************************************)
(* While the slices run, a step of one changes only labels of its own      *)
(* columns and only its own block of P: nothing the other slices use.      *)
(***************************************************************************)
SlicesIndependent ==
  [][\A k \in SliceStart :
       \/ UNCHANGED <<state[k], c_i[k], m_r_i[k]>>
       \/ /\ \A c \in 0 .. Cols - 1, r \in 0 .. Rows - 1 :
               L'[<<r, m_c_i(c)>>] # L[<<r, m_c_i(c)>>] => c \in k .. SliceEnd(k) - 1
          /\ \A s \in Sign, x \in 0..Plength :
               P'[s][x] # P[s][x] =>
                 x \in lunique_start(k) .. lunique_start(SliceEnd(k)) - 1]_vars

\* What the caller makes of the temporary labels (the final labelling stage).
FinalLabel(p) == IF L[p] = 0 THEN 0 ELSE Polar(L[p]) * P[Polar(L[p])][Polar(L[p]) * L[p]]

CC == INSTANCE ConnectedComponents
        WITH result <- IF phase = "done"
                       THEN {[map |-> [p \in Pixel |-> FinalLabel(p)],
                              pos |-> num_l[1], neg |-> num_l[-1]]}
                       ELSE {}

(***************************************************************************)
(* The labels returned are the connected components of the image, numbered *)
(* in the order of the scan: neither the partition into slices nor the     *)
(* order in which they run can be seen in the result.                      *)
(***************************************************************************)
ImplementsComponents == CC!ASpec

(***************************************************************************)
(* Two adjacent pixels of the same polarity get the same label.            *)
(***************************************************************************)
AdjacentPixelsShareLabel ==
  phase = "done" =>
    \A p, q \in Pixel :
      Polarity(p) # 0 /\ Polarity(q) = Polarity(p) /\ CC!Adjacent(p, q) =>
        FinalLabel(q) = FinalLabel(p)
==============================================================================
