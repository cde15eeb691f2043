--------------------------- MODULE Labeling_proofs ----------------------------
(***************************************************************************)
(* Proofs about the concurrent labelling of the slices.                    *)
(*                                                                         *)
(* For every image, division into slices and interleaving: the labels a    *)
(* slice hands out fit its block of P, the array P is a forest over labels *)
(* handed out, and no slice touches what belongs to another.               *)
(*                                                                         *)
(* The three need each other.  A slice stays inside its block if its       *)
(* labels fit the block; they fit if it hands out at most one per pixel    *)
(* that has no neighbour of its polarity above it or on its left; and that *)
(* holds if such neighbours, once scanned, carry labels of the slice's own,*)
(* whose trees no other slice has changed.  LInv says this (SliceForest,   *)
(* one forest per slice while the slices scan, and WholeForest, one forest *)
(* of all labels while borders are merged); SliceCounted counts the labels.*)
(*                                                                         *)
(* Two hypotheses about the call exclude the images on which the code does *)
(* not work: SeamClear (row border merging of a slice's first column looks *)
(* into another slice) and RoomForLabels (a block holds half an element    *)
(* per pixel).  MCLabelingRace and MCLabelingCapacity show calls without   *)
(* them; both hold for every call of MCLabeling.                           *)
(*                                                                         *)
(* The invariant ends where the analysis starts: what its loop makes of P  *)
(* is an induction over the labels.                                        *)
(***************************************************************************)
EXTENDS Labeling, NumberLemmas

------------------------------------------------------------------------------
(***************************************************************************)
(* The trees of an equivalence array F, whose entries point downwards, and *)
(* what set_union makes of them.                                           *)
(***************************************************************************)

(***************************************************************************)
(* The recursive functions of find_root and PathToRoot exist.              *)
(***************************************************************************)
LEMMA RootExists ==
  ASSUME NEW N \in Nat, NEW F \in [0 .. N -> Nat]
  PROVE  \E f : f = [k \in DOMAIN F |-> IF F[k] < k THEN f[F[k]] ELSE k]
<1> DEFINE Upto(m) == \E f : f = [k \in 0 .. m |-> IF F[k] < k THEN f[F[k]] ELSE k]
           S == {m \in Nat : m <= N => Upto(m)}
<1>1. 0 \in S
  <2> DEFINE f == [k \in 0 .. 0 |-> k]
  <2>1. f = [k \in 0 .. 0 |-> IF F[k] < k THEN f[F[k]] ELSE k]
    <3>1. ASSUME NEW k \in 0 .. 0 PROVE ~ (F[k] < k)
      OBVIOUS
    <3> QED BY <3>1
  <2> QED BY <2>1
<1>2. ASSUME NEW m \in Nat, m \in S PROVE m + 1 \in S
  <2> SUFFICES ASSUME m + 1 <= N PROVE Upto(m + 1)
    OBVIOUS
  <2>1. PICK f : f = [k \in 0 .. m |-> IF F[k] < k THEN f[F[k]] ELSE k]
    BY <1>2
  <2> DEFINE g == [k \in 0 .. m + 1 |->
                     IF k <= m THEN f[k] ELSE IF F[k] < k THEN f[F[k]] ELSE k]
  <2>2. ASSUME NEW k \in 0 .. m + 1
        PROVE  g[k] = IF F[k] < k THEN g[F[k]] ELSE k
    <3>1. F[k] \in Nat
      BY <2>2
    <3>2. CASE k \in 0 .. m
      <4>1. g[k] = f[k] /\ (F[k] < k => g[F[k]] = f[F[k]])
        BY <3>1, <3>2
      <4>2. f[k] = IF F[k] < k THEN f[F[k]] ELSE k
        BY <2>1, <3>2
      <4> QED BY <4>1, <4>2
    <3>3. CASE k = m + 1
      <4>1. g[k] = IF F[k] < k THEN f[F[k]] ELSE k
        BY <3>3
      <4>2. F[k] < k => g[F[k]] = f[F[k]]
        BY <3>1, <3>3
      <4> QED BY <4>1, <4>2
    <3> QED BY <3>2, <3>3
  <2>3. g = [k \in 0 .. m + 1 |-> IF F[k] < k THEN g[F[k]] ELSE k]
    BY <2>2
  <2> QED BY <2>3
<1>3. N \in S
  <2> HIDE DEF S
  <2> QED BY <1>1, <1>2, AllNaturals
<1> QED BY <1>3

LEMMA PathExists ==
  ASSUME NEW N \in Nat, NEW F \in [0 .. N -> Nat]
  PROVE  \E f : f = [k \in DOMAIN F |-> IF F[k] < k THEN {k} \union f[F[k]] ELSE {k}]
<1> DEFINE Upto(m) == \E f : f = [k \in 0 .. m |-> IF F[k] < k THEN {k} \union f[F[k]] ELSE {k}]
           S == {m \in Nat : m <= N => Upto(m)}
<1>1. 0 \in S
  <2> DEFINE f == [k \in 0 .. 0 |-> {k}]
  <2>1. f = [k \in 0 .. 0 |-> IF F[k] < k THEN {k} \union f[F[k]] ELSE {k}]
    <3>1. ASSUME NEW k \in 0 .. 0 PROVE ~ (F[k] < k)
      OBVIOUS
    <3> QED BY <3>1
  <2> QED BY <2>1
<1>2. ASSUME NEW m \in Nat, m \in S PROVE m + 1 \in S
  <2> SUFFICES ASSUME m + 1 <= N PROVE Upto(m + 1)
    OBVIOUS
  <2>1. PICK f : f = [k \in 0 .. m |-> IF F[k] < k THEN {k} \union f[F[k]] ELSE {k}]
    BY <1>2
  <2> DEFINE g == [k \in 0 .. m + 1 |->
                     IF k <= m THEN f[k] ELSE IF F[k] < k THEN {k} \union f[F[k]] ELSE {k}]
  <2>2. ASSUME NEW k \in 0 .. m + 1
        PROVE  g[k] = IF F[k] < k THEN {k} \union g[F[k]] ELSE {k}
    <3>1. F[k] \in Nat
      BY <2>2
    <3>2. CASE k \in 0 .. m
      <4>1. g[k] = f[k] /\ (F[k] < k => g[F[k]] = f[F[k]])
        BY <3>1, <3>2
      <4>2. f[k] = IF F[k] < k THEN {k} \union f[F[k]] ELSE {k}
        BY <2>1, <3>2
      <4> QED BY <4>1, <4>2
    <3>3. CASE k = m + 1
      <4>1. g[k] = IF F[k] < k THEN {k} \union f[F[k]] ELSE {k}
        BY <3>3
      <4>2. F[k] < k => g[F[k]] = f[F[k]]
        BY <3>1, <3>3
      <4> QED BY <4>1, <4>2
    <3> QED BY <3>2, <3>3
  <2>3. g = [k \in 0 .. m + 1 |-> IF F[k] < k THEN {k} \union g[F[k]] ELSE {k}]
    BY <2>2
  <2> QED BY <2>3
<1>3. N \in S
  <2> HIDE DEF S
  <2> QED BY <1>1, <1>2, AllNaturals
<1> QED BY <1>3

(***************************************************************************)
(* The path from a node follows the entries of the array down to its root, *)
(* which is the smallest node of the path and points to itself or upwards. *)
(***************************************************************************)
LEMMA PathToItsRoot ==
  ASSUME NEW N \in Nat, NEW F \in [0 .. N -> Nat], NEW i \in 0 .. N
  PROVE  /\ i \in PathToRoot(F, i)
         /\ PathToRoot(F, i) \subseteq 0 .. N
         /\ \A x \in PathToRoot(F, i) : F[x] < x => F[x] \in PathToRoot(F, i)
         /\ find_root(F, i) \in PathToRoot(F, i)
         /\ \A x \in PathToRoot(F, i) : find_root(F, i) <= x
         /\ ~ (F[find_root(F, i)] < find_root(F, i))
<1>1. PICK f : /\ f = [k \in DOMAIN F |-> IF F[k] < k THEN f[F[k]] ELSE k]
               /\ find_root(F, i) = f[i]
  BY RootExists DEF find_root
<1>2. PICK g : /\ g = [k \in DOMAIN F |-> IF F[k] < k THEN {k} \union g[F[k]] ELSE {k}]
               /\ PathToRoot(F, i) = g[i]
  BY PathExists DEF PathToRoot
<1> DEFINE Fine(k) == /\ k \in g[k]
                      /\ g[k] \subseteq 0 .. N
                      /\ \A x \in g[k] : F[x] < x => F[x] \in g[k]
                      /\ f[k] \in g[k]
                      /\ \A x \in g[k] : f[k] <= x
                      /\ ~ (F[f[k]] < f[k])
           Bad == {k \in 0 .. N : ~ Fine(k)}
<1>3. ASSUME NEW k \in 0 .. N, \A m \in 0 .. k - 1 : Fine(m) PROVE Fine(k)
  <2>1. F[k] \in Nat /\ k \in Nat /\ k <= N
    OBVIOUS
  <2>2. /\ f[k] = IF F[k] < k THEN f[F[k]] ELSE k
        /\ g[k] = IF F[k] < k THEN {k} \union g[F[k]] ELSE {k}
    BY <1>1, <1>2
  <2>3. CASE ~ (F[k] < k)
    <3>1. f[k] = k /\ g[k] = {k}
      BY <2>2, <2>3
    <3> QED BY <2>1, <2>3, <3>1
  <2>4. CASE F[k] < k
    <3> DEFINE m == F[k]
    <3>1. f[k] = f[m] /\ g[k] = {k} \union g[m] /\ m \in 0 .. k - 1
      BY <2>1, <2>2, <2>4
    <3> HIDE DEF m
    <3>2. Fine(m)
      BY <1>3, <3>1
    <3>3. k \in g[k] /\ f[k] \in g[k] /\ ~ (F[f[k]] < f[k]) /\ g[k] \subseteq 0 .. N
      BY <3>1, <3>2
    <3>4. \A x \in g[k] : F[x] < x => F[x] \in g[k]
      BY <3>1, <3>2 DEF m
    <3>5. f[m] \in 0 .. N /\ f[m] <= m
      BY <3>2
    <3>6. \A x \in g[k] : f[k] <= x
      BY <2>1, <3>1, <3>2, <3>5
    <3> QED BY <3>3, <3>4, <3>6
  <2> QED BY <2>3, <2>4
<1>4. Bad = {}
  <2> SUFFICES ASSUME Bad # {} PROVE FALSE
    OBVIOUS
  <2>1. PICK k \in Bad : \A m \in Bad : k <= m
    <3>1. Bad \subseteq Nat
      OBVIOUS
    <3> HIDE DEF Bad
    <3> QED BY <3>1, LeastNatural
  <2>2. k \in 0 .. N /\ ~ Fine(k)
    OBVIOUS
  <2>3. ASSUME NEW m \in 0 .. k - 1 PROVE Fine(m)
    <3>1. m \in 0 .. N /\ ~ (k <= m)
      BY <2>2
    <3>2. m \notin Bad
      <4> HIDE DEF Bad
      <4> QED BY <2>1, <3>1
    <3> QED BY <3>1, <3>2
  <2> HIDE DEF Fine, Bad
  <2> QED BY <1>3, <2>2, <2>3
<1>5. Fine(i)
  BY <1>4
<1> QED BY <1>1, <1>2, <1>5

(***************************************************************************)
(* The path from a node stays in any set that the entries do not lead out  *)
(* of.                                                                     *)
(***************************************************************************)
LEMMA PathWithin ==
  ASSUME NEW N \in Nat, NEW F \in [0 .. N -> Nat], NEW W, NEW i \in 0 .. N,
         i \in W, \A x \in W : F[x] < x => F[x] \in W
  PROVE  PathToRoot(F, i) \subseteq W
<1>1. PICK g : /\ g = [k \in DOMAIN F |-> IF F[k] < k THEN {k} \union g[F[k]] ELSE {k}]
               /\ PathToRoot(F, i) = g[i]
  BY PathExists DEF PathToRoot
<1> DEFINE Fine(k) == k \in W => g[k] \subseteq W
           Bad == {k \in 0 .. N : ~ Fine(k)}
<1>2. ASSUME NEW k \in 0 .. N, \A m \in 0 .. k - 1 : Fine(m) PROVE Fine(k)
  <2>1. F[k] \in Nat /\ k \in Nat
    OBVIOUS
  <2>2. g[k] = IF F[k] < k THEN {k} \union g[F[k]] ELSE {k}
    BY <1>1
  <2>3. F[k] < k => F[k] \in 0 .. k - 1
    BY <2>1
  <2> QED BY <1>2, <2>2, <2>3
<1>3. Bad = {}
  <2> SUFFICES ASSUME Bad # {} PROVE FALSE
    OBVIOUS
  <2>1. PICK k \in Bad : \A m \in Bad : k <= m
    <3>1. Bad \subseteq Nat
      OBVIOUS
    <3> HIDE DEF Bad
    <3> QED BY <3>1, LeastNatural
  <2>2. k \in 0 .. N /\ ~ Fine(k)
    OBVIOUS
  <2>3. ASSUME NEW m \in 0 .. k - 1 PROVE Fine(m)
    <3>1. m \in 0 .. N /\ ~ (k <= m)
      BY <2>2
    <3>2. m \notin Bad
      <4> HIDE DEF Bad
      <4> QED BY <2>1, <3>1
    <3> QED BY <3>1, <3>2
  <2> HIDE DEF Fine, Bad
  <2> QED BY <1>2, <2>2, <2>3
<1> QED BY <1>1, <1>3, ZenonT(30)

LEMMA EntriesNatural ==
  ASSUME NEW N \in Nat, NEW F \in [0 .. N -> 0 .. N]
  PROVE  F \in [0 .. N -> Nat]
  OBVIOUS

\* Every entry of F on Q is in Q and points to itself or downwards.
ForestOn(F, Q) == \A x \in Q : F[x] \in Q /\ F[x] <= x

\* u is what unions of nodes of Q, on which F is a forest, can come to.
GoodUnion(N, u, F, Q) ==
  /\ u.root \in Q
  /\ u.P \in [0 .. N -> 0 .. N]
  /\ ForestOn(u.P, Q)
  /\ \A y \in 0 .. N : y \notin Q => u.P[y] = F[y]

(***************************************************************************)
(* set_union of two nodes of a forest leaves the forest closed and         *)
(* pointing downwards, returns one of its nodes, and touches no entry      *)
(* outside of it.                                                          *)
(***************************************************************************)
LEMMA UnionWithin ==
  ASSUME NEW N \in Nat, NEW F \in [0 .. N -> 0 .. N], NEW Q \in SUBSET (0 .. N),
         ForestOn(F, Q), NEW i \in Q, NEW j \in Q
  PROVE  GoodUnion(N, set_union(F, i, j), F, Q)
<1> DEFINE ri   == find_root(F, i)
           rj   == find_root(F, j)
           root == IF i # j /\ ri > rj THEN rj ELSE ri
           Ti   == PathToRoot(F, i)
           Tj   == PathToRoot(F, j)
           Fj   == IF i # j THEN set_root(F, j, root) ELSE F
           Tij  == PathToRoot(Fj, i)
           Fij  == set_root(Fj, i, root)
<1>1. set_union(F, i, j) = [P |-> Fij, root |-> root]
  BY DEF set_union
<1>2. F \in [0 .. N -> Nat] /\ i \in 0 .. N /\ j \in 0 .. N
  BY EntriesNatural
<1>3. /\ i \in Ti /\ Ti \subseteq 0 .. N /\ ri \in Ti
      /\ \A x \in Ti : F[x] < x => F[x] \in Ti
      /\ \A x \in Ti : ri <= x
      /\ ~ (F[ri] < ri)
  BY <1>2, PathToItsRoot
<1>4. /\ j \in Tj /\ Tj \subseteq 0 .. N /\ rj \in Tj
      /\ \A x \in Tj : F[x] < x => F[x] \in Tj
      /\ \A x \in Tj : rj <= x
      /\ ~ (F[rj] < rj)
  BY <1>2, PathToItsRoot
<1>5. Ti \subseteq Q /\ Tj \subseteq Q
  BY <1>2, PathWithin DEF ForestOn
<1>6. /\ Fj = [x \in 0 .. N |-> IF i # j /\ x \in Tj THEN root ELSE F[x]]
      /\ DOMAIN Fj = 0 .. N
  BY DEF set_root
<1>7. Fij = [x \in 0 .. N |-> IF x \in Tij THEN root ELSE Fj[x]]
  BY <1>6 DEF set_root
<1> HIDE DEF ri, rj, Ti, Tj, Fj, Tij, Fij
<1>8. /\ root \in Q /\ root \in 0 .. N /\ root <= ri
      /\ ri \in 0 .. N /\ rj \in 0 .. N
      /\ (i # j => root <= rj)
      /\ (root = ri \/ (i # j /\ root = rj))
      /\ ~ (F[root] < root)
  <2>1. ri \in 0 .. N /\ rj \in 0 .. N /\ ri \in Q /\ rj \in Q
    BY <1>3, <1>4, <1>5
  <2>2. CASE i # j /\ ri > rj
    <3>1. root = rj
      BY <2>2
    <3> HIDE DEF root
    <3> QED BY <1>4, <2>1, <2>2, <3>1
  <2>3. CASE ~ (i # j /\ ri > rj)
    <3>1. root = ri
      BY <2>3
    <3> HIDE DEF root
    <3> QED BY <1>3, <2>1, <2>3, <3>1
  <2> QED BY <2>2, <2>3
<1> HIDE DEF root
<1> DEFINE W == Ti \union (IF i # j THEN Tj ELSE {}) \union {root}
<1>9. W \subseteq Q /\ \A x \in W : root <= x
  <2>1. W \subseteq Q
    BY <1>5, <1>8
  <2>2. \A x \in Ti : root <= x
    <3> TAKE x \in Ti
    <3>1. x \in 0 .. N /\ ri <= x
      BY <1>3
    <3> QED BY <1>8, <3>1
  <2>3. i # j => \A x \in Tj : root <= x
    <3> SUFFICES ASSUME i # j, NEW x \in Tj PROVE root <= x
      OBVIOUS
    <3>1. x \in 0 .. N /\ rj <= x
      BY <1>4
    <3> QED BY <1>8, <3>1
  <2>4. root <= root
    BY <1>8
  <2> QED BY <2>1, <2>2, <2>3, <2>4
<1>10. Fj \in [0 .. N -> 0 .. N] /\ Fj \in [0 .. N -> Nat]
  <2>1. \A x \in 0 .. N : (IF i # j /\ x \in Tj THEN root ELSE F[x]) \in 0 .. N
    BY <1>8
  <2>2. Fj \in [0 .. N -> 0 .. N]
    BY <1>6, <2>1
  <2> QED BY <2>2, EntriesNatural
<1>11. \A x \in W : Fj[x] < x => Fj[x] \in W
  <2> SUFFICES ASSUME NEW x \in W, Fj[x] < x PROVE Fj[x] \in W
    OBVIOUS
  <2>1. x \in 0 .. N
    BY <1>9
  <2>2. CASE i # j /\ x \in Tj
    BY <1>6, <2>1, <2>2
  <2>3. CASE ~ (i # j /\ x \in Tj)
    <3>1. Fj[x] = F[x]
      BY <1>6, <2>1, <2>3
    <3>2. x # root
      BY <1>8, <3>1
    <3>3. x \in Ti
      BY <2>3, <3>2
    <3> QED BY <1>3, <3>1, <3>3
  <2> QED BY <2>2, <2>3
<1>12. Tij \subseteq W
  <2>1. i \in W
    BY <1>3
  <2> HIDE DEF W
  <2> QED BY <1>2, <1>10, <1>11, <2>1, PathWithin DEF Tij
<1>13. Fij \in [0 .. N -> 0 .. N]
  BY <1>7, <1>8, <1>10
<1>14. ForestOn(Fij, Q)
  <2> SUFFICES ASSUME NEW x \in Q PROVE Fij[x] \in Q /\ Fij[x] <= x
    BY DEF ForestOn
  <2>1. x \in 0 .. N /\ F[x] \in Q /\ F[x] <= x
    BY DEF ForestOn
  <2>2. CASE x \in Tij
    BY <1>7, <1>8, <1>9, <1>12, <2>1, <2>2
  <2>3. CASE x \notin Tij /\ i # j /\ x \in Tj
    <3>1. Fij[x] = root
      BY <1>6, <1>7, <2>1, <2>3
    <3> QED BY <1>8, <1>9, <2>3, <3>1
  <2>4. CASE x \notin Tij /\ ~ (i # j /\ x \in Tj)
    BY <1>6, <1>7, <2>1, <2>4
  <2> QED BY <2>2, <2>3, <2>4
<1>15. ASSUME NEW x \in 0 .. N, x \notin Q PROVE Fij[x] = F[x]
  BY <1>5, <1>6, <1>7, <1>9, <1>12, <1>15
<1>16. set_union(F, i, j).P = Fij /\ set_union(F, i, j).root = root
  BY <1>1
<1>17. GoodUnion(N, set_union(F, i, j), F, Q)
  <2> DEFINE u == set_union(F, i, j)
  <2>1. u.P = Fij /\ u.root = root
    BY <1>16
  <2> HIDE DEF u
  <2>2. GoodUnion(N, u, F, Q)
    BY <1>8, <1>13, <1>14, <1>15, <2>1 DEF GoodUnion
  <2> QED BY <2>2 DEF u
<1> QED BY <1>17

------------------------------------------------------------------------------
(***************************************************************************)
(* The image, its columns and the slices.                                  *)
(***************************************************************************)
LEMMA CallTyped ==
  ASSUME call \in Calls
  PROVE  /\ Rows \in Nat \ {0} /\ Cols \in Nat \ {0}
         /\ Rows \div 2 \in Nat \ {0} /\ Rows = 2 * (Rows \div 2)
         /\ cshift \in Nat \ {0} /\ Cols = 2 * cshift
         /\ Plength \in Nat /\ Plength = Cols * (Rows \div 2)
         /\ SliceStart \subseteq 0 .. Cols - 1 /\ 0 \in SliceStart
<1>1. /\ Rows \in Nat /\ Rows % 2 = 0 /\ Cols \in Nat /\ Cols % 2 = 0
      /\ Plength > Cols
      /\ SliceStart \subseteq 0 .. Cols - 1 /\ 0 \in SliceStart
  BY LabelingAssumption DEF Rows, Cols, SliceStart, Plength
<1> DEFINE h == Rows \div 2
           w == Cols \div 2
<1>2. h \in Nat /\ Rows = 2 * h /\ w \in Nat /\ Cols = 2 * w
  BY <1>1
<1> HIDE DEF h, w
<1>3. Plength = (2 * (Cols * h)) \div 2
  <2>1. Cols * Rows = 2 * (Cols * h)
    BY <1>1, <1>2
  <2> QED BY <2>1 DEF Plength
<1>4. Cols * h \in Nat
  BY <1>1, <1>2
<1>5. Plength = Cols * h
  <2> DEFINE y == Cols * h
  <2>1. y \in Nat /\ Plength = (2 * y) \div 2
    BY <1>3, <1>4
  <2> HIDE DEF y
  <2>2. (2 * y) \div 2 = y
    BY <2>1
  <2> QED BY <2>1, <2>2 DEF y
<1>6. Cols # 0
  BY <1>1
<1>7. h # 0
  <2> SUFFICES ASSUME h = 0 PROVE FALSE
    OBVIOUS
  <2>1. Cols * h = 0
    BY <1>1
  <2> QED BY <1>1, <1>5, <2>1
<1>8. w # 0
  BY <1>2, <1>6
<1> QED BY <1>1, <1>2, <1>4, <1>5, <1>6, <1>7, <1>8 DEF h, w, cshift

(***************************************************************************)
(* Where a column of the sky is stored, and its left neighbour.            *)
(***************************************************************************)
LEMMA ColumnStored ==
  ASSUME call \in Calls, NEW c \in 0 .. Cols - 1
  PROVE  /\ m_c_i(c) \in 0 .. Cols - 1
         /\ m_c_i(m_c_i(c)) = c
         /\ m_c_i_prev(m_c_i(c)) \in 0 .. Cols - 1
         /\ c # 0 => m_c_i_prev(m_c_i(c)) = m_c_i(c - 1)
<1>1. cshift \in Nat \ {0} /\ Cols = 2 * cshift /\ c \in Nat
  BY CallTyped
<1>2. CASE FftShift
  BY <1>1, <1>2 DEF m_c_i, m_c_i_prev
<1>3. CASE ~ FftShift
  BY <1>1, <1>3 DEF m_c_i, m_c_i_prev
<1> QED BY <1>2, <1>3

LEMMA DifferentColumns ==
  ASSUME call \in Calls, NEW c \in 0 .. Cols - 1, NEW d \in 0 .. Cols - 1,
         m_c_i(c) = m_c_i(d)
  PROVE  c = d
  BY ColumnStored

\* The columns of slice k, in the sky.
Columns(k) == k .. SliceEnd(k) - 1

(***************************************************************************)
(* A slice ends where the next one starts, or with the image.              *)
(***************************************************************************)
LEMMA SliceEnds ==
  ASSUME call \in Calls, NEW k \in SliceStart
  PROVE  /\ SliceEnd(k) \in k + 1 .. Cols
         /\ SliceEnd(k) \in SliceStart \union {Cols}
         /\ \A j \in SliceStart : j > k => SliceEnd(k) <= j
         /\ k \in Nat
         /\ k \in Columns(k)
         /\ Columns(k) \subseteq 0 .. Cols - 1
<1> DEFINE later == {c \in SliceStart \union {Cols} : c > k}
<1>1. Cols \in Nat \ {0} /\ SliceStart \subseteq 0 .. Cols - 1
  BY CallTyped
<1>2. later \subseteq Nat /\ Cols \in later /\ later \subseteq k + 1 .. Cols /\ k \in Nat
  <2>1. k \in 0 .. Cols - 1
    BY <1>1
  <2>2. k \in Nat /\ k < Cols
    BY <1>1, <2>1
  <2>3. ASSUME NEW x \in later PROVE x \in Nat /\ x \in k + 1 .. Cols
    <3>1. x > k /\ (x \in 0 .. Cols - 1 \/ x = Cols)
      BY <1>1
    <3> QED BY <1>1, <2>2, <3>1
  <2>4. Cols \in later
    BY <2>2
  <2> HIDE DEF later
  <2> QED BY <2>2, <2>3, <2>4
<1>3. later \subseteq SliceStart \union {Cols} /\ \A j \in SliceStart : j > k => j \in later
  OBVIOUS
<1>4. SliceEnd(k) = CHOOSE c \in later : \A d \in later : c <= d
  BY DEF SliceEnd
<1> HIDE DEF later
<1>5. \E c \in later : \A d \in later : c <= d
  BY <1>2, LeastNatural
<1>6. SliceEnd(k) \in later /\ \A d \in later : SliceEnd(k) <= d
  BY <1>4, <1>5
<1>7. SliceEnd(k) \in k + 1 .. Cols
  BY <1>2, <1>6
<1>8. k \in Columns(k) /\ Columns(k) \subseteq 0 .. Cols - 1
  BY <1>1, <1>2, <1>7 DEF Columns
<1>9. \A j \in SliceStart : j > k => SliceEnd(k) <= j
  BY <1>3, <1>6
<1>10. SliceEnd(k) \in SliceStart \union {Cols}
  BY <1>3, <1>6
<1> QED BY <1>2, <1>7, <1>8, <1>9, <1>10

LEMMA DifferentSlices ==
  ASSUME call \in Calls, NEW k \in SliceStart, NEW j \in SliceStart, j # k
  PROVE  Columns(k) \intersect Columns(j) = {}
<1>1. /\ SliceEnd(k) \in k + 1 .. Cols /\ SliceEnd(j) \in j + 1 .. Cols
      /\ k \in Nat /\ j \in Nat /\ Cols \in Nat
      /\ (j > k => SliceEnd(k) <= j) /\ (k > j => SliceEnd(j) <= k)
  BY SliceEnds, CallTyped
<1>2. j > k \/ k > j
  BY <1>1
<1>3. CASE j > k
  BY <1>1, <1>3 DEF Columns
<1>4. CASE k > j
  BY <1>1, <1>4 DEF Columns
<1> QED BY <1>2, <1>3, <1>4

LEMMA SliceOfColumn ==
  ASSUME call \in Calls, NEW c \in 0 .. Cols - 1
  PROVE  \E k \in SliceStart : c \in Columns(k)
<1> DEFINE earlier == {k \in SliceStart : k <= c}
<1>1. Cols \in Nat /\ SliceStart \subseteq 0 .. Cols - 1 /\ 0 \in SliceStart
  BY CallTyped
<1>2. earlier \subseteq Int /\ earlier # {} /\ c \in Int /\ \A x \in earlier : x <= c
  <2>1. c \in Nat
    BY <1>1
  <2>2. 0 \in earlier
    BY <1>1, <2>1
  <2>3. earlier \subseteq SliceStart /\ \A x \in earlier : x <= c
    OBVIOUS
  <2> HIDE DEF earlier
  <2>4. SliceStart \subseteq Int
    BY <1>1
  <2> QED BY <2>1, <2>2, <2>3, <2>4
<1>3. PICK k \in earlier : \A m \in earlier : m <= k
  <2> HIDE DEF earlier
  <2> QED BY ONLY <1>2, Greatest
<1>4. k \in SliceStart /\ k <= c
  OBVIOUS
<1>5. ASSUME SliceEnd(k) <= c PROVE FALSE
  <2>1. SliceEnd(k) \in SliceStart \union {Cols}
    BY <1>4, SliceEnds
  <2>2. SliceEnd(k) \in k + 1 .. Cols /\ k \in Nat
    BY <1>4, SliceEnds
  <2>3. SliceEnd(k) \in earlier
    BY <1>1, <1>5, <2>1, <2>2
  <2> QED BY <1>3, <2>2, <2>3
<1>6. SliceEnd(k) \in Nat /\ k \in Nat
  BY <1>1, <1>4, SliceEnds
<1> QED BY <1>1, <1>4, <1>5, <1>6 DEF Columns

\* The elements of P that belong to slice k.
Block(k) == lunique_start(k) .. lunique_start(SliceEnd(k)) - 1

(***************************************************************************)
(* The blocks lie within P and do not overlap.                             *)
(***************************************************************************)
LEMMA Blocks ==
  ASSUME call \in Calls, NEW k \in SliceStart
  PROVE  /\ lunique_start(k) \in Nat
         /\ lunique_start(SliceEnd(k)) \in Nat
         /\ lunique_start(k) < lunique_start(SliceEnd(k))
         /\ lunique_start(SliceEnd(k)) <= Plength
         /\ \A j \in SliceStart : j > k => lunique_start(SliceEnd(k)) <= lunique_start(j)
<1> DEFINE h == Rows \div 2
           e == SliceEnd(k)
<1>1. /\ h \in Nat \ {0} /\ Cols \in Nat /\ Plength = Cols * h
      /\ SliceStart \subseteq 0 .. Cols - 1
  BY CallTyped
<1>2. e \in k + 1 .. Cols /\ k \in Nat /\ \A j \in SliceStart : j > k => e <= j
  BY SliceEnds
<1>3. lunique_start(k) = k * h /\ lunique_start(e) = e * h /\ \A j : lunique_start(j) = j * h
  BY DEF lunique_start
<1> HIDE DEF h, e
<1>4. \A a \in Nat, b \in Nat : a <= b => a * h <= b * h
  BY <1>1
<1>5. \A a \in Nat, b \in Nat : a < b => a * h < b * h
  BY <1>1
<1>6. k * h \in Nat /\ e * h \in Nat
  BY <1>1, <1>2
<1>7. k * h < e * h
  BY <1>1, <1>2, <1>5
<1>8. e * h <= Cols * h
  BY <1>1, <1>2, <1>4
<1>9. \A j \in SliceStart : j > k => e * h <= j * h
  BY <1>1, <1>2, <1>4
<1> QED BY <1>1, <1>3, <1>6, <1>7, <1>8, <1>9 DEF e

LEMMA DifferentBlocks ==
  ASSUME call \in Calls, NEW k \in SliceStart, NEW j \in SliceStart, j # k
  PROVE  Block(k) \intersect Block(j) = {}
<1>1. /\ lunique_start(k) \in Nat /\ lunique_start(SliceEnd(k)) \in Nat
      /\ lunique_start(j) \in Nat /\ lunique_start(SliceEnd(j)) \in Nat
      /\ (j > k => lunique_start(SliceEnd(k)) <= lunique_start(j))
      /\ (k > j => lunique_start(SliceEnd(j)) <= lunique_start(k))
  BY Blocks
<1>2. j > k \/ k > j
  <2>1. k \in Nat /\ j \in Nat
    BY SliceEnds
  <2> QED BY <2>1
<1>3. CASE j > k
  BY <1>1, <1>3 DEF Block
<1>4. CASE k > j
  BY <1>1, <1>4 DEF Block
<1> QED BY <1>2, <1>3, <1>4

------------------------------------------------------------------------------
(***************************************************************************)
(* The invariant.                                                          *)
(***************************************************************************)

\* What the labelling of a call takes for granted: labeling_8con of the default
\* build, where the row border merging looks into the column on the left, which
\* may be another slice's, meets no source in the last row of the matrix.
SeamClear ==
  Conn8 /\ ~ FftShift => \A m \in 0 .. Cols - 1 : I[<<Rows - 1, m>>] = 0

\* Types, as far as the proofs need them.
LTyped ==
  /\ call \in Calls
  /\ L \in [Pixel -> Int]
  /\ P \in [Sign -> [0 .. Plength -> 0 .. Plength]]
  /\ state \in [SliceStart -> {"new", "scan", "done"}]
  /\ c_i \in [SliceStart -> Int]
  /\ m_r_i \in [SliceStart -> 0 .. Rows]
  /\ lunique \in [SliceStart -> [Sign -> Nat]]
  /\ label_data \in Seq([col_start : SliceStart, lunique : [Sign -> Nat]])
  /\ phase \in {"scan", "merge", "done"}
  /\ merge_r_i \in 0 .. Rows - 1
  /\ at \in Nat

\* The labels of polarity s that slice k, or any slice, has handed out.
Own(k, s) == {x \in 0 .. Plength : lunique_start(k) < x /\ x < lunique[k][s]}

AllIssued(s) == {x \in 0 .. Plength : Issued(s, x)}

\* The label of a pixel, without its sign.
Label(p) == Polar(L[p]) * L[p]

\* Each slice is within its columns, and has its own next labels.
SlicePlace ==
  \A k \in SliceStart :
    /\ c_i[k] \in Columns(k)
    /\ state[k] = "new" => \A s \in Sign : lunique[k][s] = 0
    /\ state[k] # "new" => \A s \in Sign : lunique[k][s] > lunique_start(k)

\* While the slices run, the trees and the pixels of a slice know its own
\* labels only.
SliceForest(k) ==
  /\ \A s \in Sign : ForestOn(P[s], Own(k, s))
  /\ \A c \in Columns(k), r \in 0 .. Rows - 1 :
       L[<<r, m_c_i(c)>>] # 0 =>
         Label(<<r, m_c_i(c)>>) \in Own(k, Polar(L[<<r, m_c_i(c)>>]))

\* While the borders are merged, all know the labels of all slices.
WholeForest ==
  /\ \A s \in Sign : ForestOn(P[s], AllIssued(s))
  /\ \A p \in Pixel : L[p] # 0 => Label(p) \in AllIssued(Polar(L[p]))

\* The inductive invariant.
LInv ==
  /\ LTyped
  /\ SlicePlace
  /\ \A p \in Pixel : L[p] # 0 => I[p] # 0
  /\ phase = "scan" => \A k \in SliceStart : SliceForest(k)
  /\ phase = "merge" => WholeForest
  /\ phase # "scan" => \A k \in SliceStart : state[k] = "done"
  /\ phase = "merge" => at # 0

------------------------------------------------------------------------------
(***************************************************************************)
(* One step of one slice.                                                  *)
(***************************************************************************)
LEMMA OwnInBlock ==
  ASSUME LTyped, LabelsFitBlock, NEW k \in SliceStart, NEW s \in Sign
  PROVE  Own(k, s) \subseteq Block(k) /\ Own(k, s) \subseteq 1 .. Plength
<1>1. /\ lunique_start(k) \in Nat /\ lunique_start(SliceEnd(k)) \in Nat
      /\ Plength \in Nat
  BY Blocks, CallTyped DEF LTyped
<1>2. lunique[k][s] \in Nat
  BY DEF LTyped
<1>3. lunique[k][s] <= lunique_start(SliceEnd(k))
  BY DEF LabelsFitBlock
<1> QED BY <1>1, <1>2, <1>3 DEF Own, Block

(***************************************************************************)
(* What the scan of a slice takes for a neighbour's label is a label of    *)
(* the slice, or none.                                                     *)
(***************************************************************************)
LEMMA ConnectedOwn ==
  ASSUME LInv, NEW k \in SliceStart, SliceForest(k), NEW s \in Sign,
         NEW valid, NEW r, NEW c,
         valid => r \in 0 .. Rows - 1 /\ c \in Columns(k)
  PROVE  \/ Connected(s, valid, r, m_c_i(c)) = 0
         \/ Connected(s, valid, r, m_c_i(c)) \in Own(k, s)
<1> DEFINE y == L[<<r, m_c_i(c)>>]
<1>1. CASE ~ (valid /\ s * y > 0)
  BY <1>1 DEF Connected
<1>2. CASE valid /\ s * y > 0
  <2>1. r \in 0 .. Rows - 1 /\ c \in Columns(k) /\ c \in 0 .. Cols - 1
    BY <1>2, SliceEnds DEF LInv, LTyped
  <2>2. <<r, m_c_i(c)>> \in Pixel
    BY <2>1, ColumnStored DEF Pixel, LInv, LTyped
  <2>3. y \in Int
    BY <2>2 DEF LInv, LTyped
  <2>4. y # 0 => Polar(y) * y \in Own(k, Polar(y))
    BY <2>1 DEF SliceForest, Label
  <2>5. Connected(s, valid, r, m_c_i(c)) = s * y
    BY <1>2 DEF Connected
  <2> HIDE DEF y
  <2>6. s = 1 \/ s = -1
    BY DEF Sign
  <2>7. y # 0 /\ Polar(y) = s
    BY <1>2, <2>3, <2>6 DEF Polar
  <2> QED BY <2>4, <2>5, <2>7
<1> QED BY <1>1, <1>2

LEMMA NeighboursOwn ==
  ASSUME LInv, NEW k \in SliceStart, state[k] = "scan", m_r_i[k] < Rows, NEW s \in Sign
  PROVE  LET nb == ScanNeighbours(k, s) IN
         /\ nb.left = 0 \/ nb.left \in Own(k, s)
         /\ nb.top = 0 \/ nb.top \in Own(k, s)
         /\ nb.topleft = 0 \/ nb.topleft \in Own(k, s)
         /\ nb.bottomleft = 0 \/ nb.bottomleft \in Own(k, s)
<1> DEFINE r         == m_r_i[k]
           c         == c_i[k]
           leftValid == LeftCol_valid(k)
           above     == r # 0 /\ (FftShift \/ r # rshift)
           below     == r # Rows - 1 /\ (FftShift \/ r # rshift - 1)
           nb        == ScanNeighbours(k, s)
<1>1. /\ Rows \in Nat /\ r \in 0 .. Rows - 1 /\ c \in Columns(k) /\ call \in Calls
      /\ c \in 0 .. Cols - 1
  <2>1. call \in Calls /\ r \in 0 .. Rows /\ c \in Columns(k)
    BY DEF LInv, LTyped, SlicePlace
  <2>2. Rows \in Nat /\ Columns(k) \subseteq 0 .. Cols - 1
    BY <2>1, CallTyped, SliceEnds
  <2> QED BY <2>1, <2>2
<1>2. SliceForest(k)
  BY DEF LInv
<1>3. leftValid => c # 0 /\ c - 1 \in Columns(k) /\ m_c_i_prev(m_c_i(c)) = m_c_i(c - 1)
  <2> SUFFICES ASSUME leftValid PROVE c # 0 /\ c - 1 \in Columns(k)
    BY <1>1, ColumnStored
  <2>1. c # k /\ k \in Nat /\ SliceEnd(k) \in Nat
    BY <1>1, SliceEnds, CallTyped DEF LeftCol_valid
  <2> QED BY <1>1, <2>1 DEF Columns
<1>4. nb = [left       |-> Connected(s, leftValid, r, m_c_i_prev(m_c_i(c))),
            top        |-> Connected(s, above, r - 1, m_c_i(c)),
            topleft    |-> Connected(s, above /\ leftValid, r - 1, m_c_i_prev(m_c_i(c))),
            bottomleft |-> Connected(s, below /\ leftValid, r + 1, m_c_i_prev(m_c_i(c)))]
  BY DEF ScanNeighbours
<1>5. (above => r - 1 \in 0 .. Rows - 1) /\ (below => r + 1 \in 0 .. Rows - 1)
  BY <1>1
<1> HIDE DEF r, c, leftValid, above, below, nb
<1>6. nb.left = 0 \/ nb.left \in Own(k, s)
  <2>1. nb.left = Connected(s, leftValid, r, m_c_i_prev(m_c_i(c)))
    BY <1>4
  <2>2. CASE leftValid
    <3>1. nb.left = Connected(s, leftValid, r, m_c_i(c - 1))
      BY <1>3, <2>1, <2>2
    <3> QED BY <1>1, <1>2, <1>3, <3>1, ConnectedOwn
  <2>3. CASE ~ leftValid
    BY <2>1, <2>3 DEF Connected
  <2> QED BY <2>2, <2>3
<1>7. nb.top = 0 \/ nb.top \in Own(k, s)
  <2>1. nb.top = Connected(s, above, r - 1, m_c_i(c))
    BY <1>4
  <2> QED BY <1>1, <1>2, <1>5, <2>1, ConnectedOwn
<1>8. nb.topleft = 0 \/ nb.topleft \in Own(k, s)
  <2>1. nb.topleft = Connected(s, above /\ leftValid, r - 1, m_c_i_prev(m_c_i(c)))
    BY <1>4
  <2>2. CASE above /\ leftValid
    <3>1. nb.topleft = Connected(s, above /\ leftValid, r - 1, m_c_i(c - 1))
      BY <1>3, <2>1, <2>2
    <3> QED BY <1>2, <1>3, <1>5, <2>2, <3>1, ConnectedOwn
  <2>3. CASE ~ (above /\ leftValid)
    BY <2>1, <2>3 DEF Connected
  <2> QED BY <2>2, <2>3
<1>9. nb.bottomleft = 0 \/ nb.bottomleft \in Own(k, s)
  <2>1. nb.bottomleft = Connected(s, below /\ leftValid, r + 1, m_c_i_prev(m_c_i(c)))
    BY <1>4
  <2>2. CASE below /\ leftValid
    <3>1. nb.bottomleft = Connected(s, below /\ leftValid, r + 1, m_c_i(c - 1))
      BY <1>3, <2>1, <2>2
    <3> QED BY <1>2, <1>3, <1>5, <2>2, <3>1, ConnectedOwn
  <2>3. CASE ~ (below /\ leftValid)
    BY <2>1, <2>3 DEF Connected
  <2> QED BY <2>2, <2>3
<1> QED BY <1>6, <1>7, <1>8, <1>9 DEF nb

(***************************************************************************)
(* The decision trees choose among these labels.                           *)
(***************************************************************************)
LEMMA DecisionOwn ==
  ASSUME LInv, LabelsFitBlock, NEW k \in SliceStart, state[k] = "scan", m_r_i[k] < Rows,
         NEW s \in Sign
  PROVE  /\ Len(Decision(k, s)) = 1 => Decision(k, s)[1] \in Own(k, s)
         /\ Len(Decision(k, s)) = 2 => /\ Decision(k, s)[1] \in Own(k, s)
                                       /\ Decision(k, s)[2] \in Own(k, s)
<1> DEFINE nb == ScanNeighbours(k, s)
           Q  == Own(k, s)
<1>1. /\ (nb.left = 0 \/ nb.left \in Q)
      /\ (nb.top = 0 \/ nb.top \in Q)
      /\ (nb.topleft = 0 \/ nb.topleft \in Q)
      /\ (nb.bottomleft = 0 \/ nb.bottomleft \in Q)
  BY NeighboursOwn
<1>2. Q \subseteq 1 .. Plength
  BY OwnInBlock DEF LInv
<1>3. Decision(k, s) = IF Conn8 THEN Decision8(nb) ELSE Decision4(nb)
  BY DEF Decision
<1> HIDE DEF nb, Q
<1>4. /\ (nb.left > 0 => nb.left \in Q) /\ (nb.top > 0 => nb.top \in Q)
      /\ (nb.topleft > 0 => nb.topleft \in Q) /\ (nb.bottomleft > 0 => nb.bottomleft \in Q)
  BY <1>1
<1> DEFINE Chosen(d) == \/ d = <<>>
                        \/ \E x \in Q : d = <<x>>
                        \/ \E x, y \in Q : d = <<x, y>>
<1>5. Chosen(Decision4(nb))
  BY <1>4 DEF Decision4
<1>6. Chosen(Decision8(nb))
  BY <1>4 DEF Decision8
<1>7. Chosen(Decision(k, s))
  <2> HIDE DEF Chosen
  <2> QED BY <1>3, <1>5, <1>6
<1> QED BY <1>7 DEF Q

(***************************************************************************)
(* All that a call determines stays as it is.                              *)
(***************************************************************************)
LEMMA SameCall ==
  ASSUME call' = call
  PROVE  /\ Rows' = Rows /\ Cols' = Cols /\ Pixel' = Pixel /\ I' = I
         /\ SliceStart' = SliceStart /\ Plength' = Plength /\ Conn8' = Conn8
         /\ FftShift' = FftShift
         /\ \A c : m_c_i(c)' = m_c_i(c)
         /\ \A k : /\ SliceEnd(k)' = SliceEnd(k)
                   /\ lunique_start(k)' = lunique_start(k)
                   /\ Columns(k)' = Columns(k)
                   /\ Block(k)' = Block(k)
<1>1. /\ Rows' = Rows /\ Cols' = Cols /\ I' = I /\ SliceStart' = SliceStart
      /\ Conn8' = Conn8 /\ FftShift' = FftShift
  BY DEF Rows, Cols, I, SliceStart, Conn8, FftShift
<1>2. Pixel' = Pixel /\ Plength' = Plength /\ cshift' = cshift
  BY <1>1 DEF Pixel, Plength, cshift
<1>3. \A c : m_c_i(c)' = m_c_i(c)
  BY <1>1, <1>2 DEF m_c_i
<1>4. \A k : SliceEnd(k)' = SliceEnd(k)
  BY <1>1 DEF SliceEnd
<1>5. \A k : lunique_start(k)' = lunique_start(k)
  BY <1>1 DEF lunique_start
<1>6. \A k : Columns(k)' = Columns(k)
  BY <1>4 DEF Columns
<1>7. \A k : Block(k)' = Block(k)
  BY <1>1, <1>4 DEF Block, lunique_start
<1> QED BY <1>1, <1>2, <1>3, <1>4, <1>5, <1>6, <1>7

\* A step changes only pixels and elements of P that belong to slice k.
LocalChange(k) ==
  /\ \A c \in 0 .. Cols - 1, r \in 0 .. Rows - 1 :
       L'[<<r, m_c_i(c)>>] # L[<<r, m_c_i(c)>>] => c \in Columns(k)
  /\ \A s \in Sign, x \in 0 .. Plength :
       P'[s][x] # P[s][x] => x \in Block(k)

\* Slice k gives the pixel in row r of its column c its label x of polarity s,
\* handed out before or in this step, and F becomes its equivalence array.
Labelled(k, c, r, s, x, F) ==
  /\ c \in Columns(k) /\ r \in 0 .. Rows - 1 /\ I[<<r, m_c_i(c)>>] # 0
  /\ L' = [L EXCEPT ![<<r, m_c_i(c)>>] = s * x]
  /\ P' = [P EXCEPT ![s] = F]
  /\ F \in [0 .. Plength -> 0 .. Plength]
  /\ lunique' \in [SliceStart -> [Sign -> Nat]]
  /\ \A t \in Sign : lunique'[k][t] >= lunique[k][t]
  /\ \A t \in Sign : t # s => lunique'[k][t] = lunique[k][t]
  /\ ForestOn(F, Own(k, s)')
  /\ x \in Own(k, s)'
  /\ \A y \in 0 .. Plength : F[y] # P[s][y] => y \in Block(k)

(***************************************************************************)
(* Such a step changes pixels and trees of its slice only, and leaves      *)
(* those with the slice's labels only.                                     *)
(***************************************************************************)
LEMMA LabelPixel ==
  ASSUME LInv, call' = call, NEW k \in SliceStart, SliceForest(k),
         NEW s \in Sign, NEW c, NEW r, NEW x, NEW F, Labelled(k, c, r, s, x, F)
  PROVE  /\ L' \in [Pixel -> Int]
         /\ P' \in [Sign -> [0 .. Plength -> 0 .. Plength]]
         /\ SliceForest(k)'
         /\ LocalChange(k)
         /\ \A p \in Pixel : L'[p] # 0 => I[p] # 0
<1> DEFINE q == <<r, m_c_i(c)>>
           OwnNext(t) == {y \in 0 .. Plength : lunique_start(k) < y /\ y < lunique'[k][t]}
<1>0. /\ c \in Columns(k) /\ r \in 0 .. Rows - 1 /\ I[q] # 0
      /\ L' = [L EXCEPT ![q] = s * x]
      /\ P' = [P EXCEPT ![s] = F]
      /\ F \in [0 .. Plength -> 0 .. Plength]
      /\ lunique' \in [SliceStart -> [Sign -> Nat]]
      /\ \A t \in Sign : lunique'[k][t] >= lunique[k][t]
      /\ \A t \in Sign : t # s => lunique'[k][t] = lunique[k][t]
      /\ ForestOn(F, Own(k, s)')
      /\ x \in Own(k, s)'
      /\ \A y \in 0 .. Plength : F[y] # P[s][y] => y \in Block(k)
  BY DEF Labelled
<1>1. /\ c \in 0 .. Cols - 1 /\ q \in Pixel /\ call \in Calls
      /\ L \in [Pixel -> Int] /\ P \in [Sign -> [0 .. Plength -> 0 .. Plength]]
  BY <1>0, SliceEnds, ColumnStored DEF LInv, LTyped, Pixel
<1>2. \A d \in 0 .. Cols - 1, u \in 0 .. Rows - 1 :
        /\ <<u, m_c_i(d)>> \in Pixel
        /\ <<u, m_c_i(d)>> = q => d = c
  BY <1>1, ColumnStored, DifferentColumns DEF Pixel
<1>3. \A t \in Sign : Own(k, t)' = OwnNext(t)
  BY SameCall DEF Own
<1>4. lunique_start(k) \in Nat /\ Plength \in Nat
  BY <1>1, Blocks, CallTyped
<1>5. x \in Nat /\ x > 0
  BY <1>0, <1>3, <1>4
<1>6. s * x \in Int /\ s * x # 0 /\ Polar(s * x) = s /\ s * (s * x) = x
  BY <1>5 DEF Polar, Sign
<1>7. L' \in [Pixel -> Int] /\ L'[q] = s * x /\ \A p \in Pixel : p # q => L'[p] = L[p]
  BY <1>0, <1>1, <1>6
<1>8. /\ P' \in [Sign -> [0 .. Plength -> 0 .. Plength]]
      /\ P'[s] = F /\ \A t \in Sign : t # s => P'[t] = P[t]
  BY <1>0, <1>1
<1>9. LocalChange(k)
  <2>1. \A d \in 0 .. Cols - 1, u \in 0 .. Rows - 1 :
          L'[<<u, m_c_i(d)>>] # L[<<u, m_c_i(d)>>] => d \in Columns(k)
    BY <1>0, <1>2, <1>7
  <2>2. \A t \in Sign, y \in 0 .. Plength : P'[t][y] # P[t][y] => y \in Block(k)
    BY <1>0, <1>8
  <2> QED BY <2>1, <2>2 DEF LocalChange
<1>10. \A p \in Pixel : L'[p] # 0 => I[p] # 0
  BY <1>0, <1>1, <1>7 DEF LInv
<1>11. \A t \in Sign : ForestOn(P'[t], Own(k, t)')
  <2> TAKE t \in Sign
  <2>1. CASE t = s
    BY <1>0, <1>8, <2>1
  <2>2. CASE t # s
    <3>1. Own(k, t)' = Own(k, t)
      BY <1>0, <2>2, SameCall DEF Own
    <3> QED BY <1>8, <2>2, <3>1 DEF SliceForest
  <2> QED BY <2>1, <2>2
<1>12. ASSUME NEW d \in Columns(k), NEW u \in 0 .. Rows - 1, L'[<<u, m_c_i(d)>>] # 0
       PROVE  Polar(L'[<<u, m_c_i(d)>>]) * L'[<<u, m_c_i(d)>>]
                \in OwnNext(Polar(L'[<<u, m_c_i(d)>>]))
  <2> DEFINE p == <<u, m_c_i(d)>>
  <2>1. p \in Pixel
    BY <1>1, <1>2, SliceEnds
  <2>2. CASE p = q
    <3>1. L'[p] = s * x
      BY <1>7, <2>2
    <3>2. Polar(L'[p]) = s /\ Polar(L'[p]) * L'[p] = x
      BY <1>6, <3>1
    <3> QED BY <1>0, <1>3, <3>2
  <2>3. CASE p # q
    <3> DEFINE t == Polar(L[p])
    <3>1. L'[p] = L[p]
      BY <1>7, <2>1, <2>3
    <3>2. t * L[p] \in Own(k, t)
      <4>1. L[p] # 0
        BY <1>12, <3>1
      <4> QED BY <4>1 DEF SliceForest, Label
    <3>3. t \in Sign
      BY DEF Polar, Sign
    <3>4. lunique'[k][t] >= lunique[k][t] /\ lunique[k][t] \in Nat /\ lunique'[k][t] \in Nat
      BY <1>0, <3>3 DEF LInv, LTyped
    <3>5. Polar(L'[p]) = t /\ Polar(L'[p]) * L'[p] = t * L[p]
      BY <3>1
    <3> HIDE DEF t
    <3>6. t * L[p] \in OwnNext(t)
      <4> DEFINE z == t * L[p]
      <4>1. z \in 0 .. Plength /\ lunique_start(k) < z /\ z < lunique[k][t]
        BY <3>2 DEF Own
      <4> HIDE DEF z
      <4>2. z < lunique'[k][t]
        BY <1>4, <3>4, <4>1
      <4> QED BY <4>1, <4>2 DEF z
    <3> QED BY <3>5, <3>6
  <2> QED BY <2>2, <2>3
<1>13. SliceForest(k)'
  <2>1. \A d \in Columns(k), u \in 0 .. Rows - 1 :
          L'[<<u, m_c_i(d)>>] # 0 =>
            Polar(L'[<<u, m_c_i(d)>>]) * L'[<<u, m_c_i(d)>>]
              \in {y \in 0 .. Plength' :
                     lunique_start(k)' < y /\ y < lunique'[k][Polar(L'[<<u, m_c_i(d)>>])]}
    BY <1>12, SameCall
  <2> QED BY <1>11, <2>1, SameCall DEF SliceForest, Label, Own, Polar
<1> QED BY <1>7, <1>8, <1>9, <1>10, <1>13

\* A step leaves the other slices where they are.
OthersWait(k) ==
  \A j \in SliceStart :
    j # k => /\ state'[j] = state[j] /\ c_i'[j] = c_i[j] /\ m_r_i'[j] = m_r_i[j]
             /\ lunique'[j] = lunique[j]

\* What every step of slice k comes to.
SliceOutcome(k) ==
  /\ call' = call /\ phase' = phase
  /\ LTyped'
  /\ OthersWait(k)
  /\ c_i'[k] \in Columns(k) /\ state'[k] # "new"
  /\ \A s \in Sign : lunique'[k][s] > lunique_start(k)
  /\ SliceForest(k)'
  /\ LocalChange(k)
  /\ \A p \in Pixel : L'[p] # 0 => I[p] # 0

(***************************************************************************)
(* A slice that steps does so while the slices run.                        *)
(***************************************************************************)
LEMMA Running ==
  ASSUME LInv, NEW k \in SliceStart, state[k] # "done"
  PROVE  phase = "scan" /\ SliceForest(k) /\ call \in Calls
  BY DEF LInv, LTyped

(***************************************************************************)
(* The outcome of a step that ends with the next row.                      *)
(***************************************************************************)
LEMMA NextRowOutcome ==
  ASSUME LInv, NEW k \in SliceStart, NextRow(k),
         lunique' \in [SliceStart -> [Sign -> Nat]],
         \A j \in SliceStart : j # k => lunique'[j] = lunique[j],
         \A t \in Sign : lunique'[k][t] >= lunique[k][t],
         L' \in [Pixel -> Int],
         P' \in [Sign -> [0 .. Plength -> 0 .. Plength]],
         SliceForest(k)',
         LocalChange(k),
         \A p \in Pixel : L'[p] # 0 => I[p] # 0
  PROVE  SliceOutcome(k)
<1>1. /\ state[k] = "scan" /\ m_r_i[k] < Rows
      /\ m_r_i' = [m_r_i EXCEPT ![k] = m_r_i[k] + 1]
      /\ call' = call /\ state' = state /\ c_i' = c_i /\ label_data' = label_data
      /\ phase' = phase /\ at' = at /\ merge_r_i' = merge_r_i
  BY DEF NextRow, mainvars
<1>2. LTyped
  BY DEF LInv
<1>3. m_r_i' \in [SliceStart -> 0 .. Rows]
  <2>1. Rows \in Nat /\ m_r_i[k] \in 0 .. Rows
    BY <1>2, CallTyped DEF LTyped
  <2>2. m_r_i[k] + 1 \in 0 .. Rows
    BY <1>1, <2>1
  <2> QED BY <1>1, <1>2, <2>2 DEF LTyped
<1>4. LTyped'
  BY <1>1, <1>2, <1>3, SameCall DEF LTyped
<1>5. OthersWait(k)
  BY <1>1, <1>2 DEF OthersWait, LTyped
<1>6. c_i'[k] \in Columns(k) /\ state'[k] # "new"
  BY <1>1 DEF LInv, SlicePlace
<1>7. \A t \in Sign : lunique'[k][t] > lunique_start(k)
  <2> TAKE t \in Sign
  <2>1. lunique[k][t] > lunique_start(k) /\ lunique'[k][t] >= lunique[k][t]
    BY <1>1 DEF LInv, SlicePlace
  <2>2. lunique[k][t] \in Nat /\ lunique'[k][t] \in Nat /\ lunique_start(k) \in Nat
    BY <1>2, Blocks DEF LTyped
  <2> QED BY <2>1, <2>2
<1> QED BY <1>1, <1>4, <1>5, <1>6, <1>7 DEF SliceOutcome

LEMMA HerePixel ==
  ASSUME LInv, NEW k \in SliceStart, m_r_i[k] < Rows
  PROVE  c_i[k] \in Columns(k) /\ m_r_i[k] \in 0 .. Rows - 1
<1>1. m_r_i[k] \in 0 .. Rows /\ Rows \in Nat /\ c_i[k] \in Columns(k)
  BY CallTyped DEF LInv, LTyped, SlicePlace
<1> QED BY <1>1

LEMMA SkipOutcome ==
  ASSUME LInv, NEW k \in SliceStart, SkipPixel(k)
  PROVE  SliceOutcome(k)
<1>1. /\ NextRow(k) /\ L' = L /\ P' = P /\ lunique' = lunique
      /\ call' = call /\ state[k] # "done"
  BY DEF SkipPixel, NextRow
<1>2. /\ L' \in [Pixel -> Int] /\ P' \in [Sign -> [0 .. Plength -> 0 .. Plength]]
      /\ lunique' \in [SliceStart -> [Sign -> Nat]]
  BY <1>1 DEF LInv, LTyped
<1>3. SliceForest(k)
  BY <1>1, Running
<1>4. SliceForest(k)'
  BY <1>1, <1>3, SameCall DEF SliceForest, Own, Label, Polar
<1>5. LocalChange(k)
  BY <1>1 DEF LocalChange
<1>6. \A t \in Sign : lunique'[k][t] >= lunique[k][t]
  BY <1>1, <1>2
<1> QED BY <1>1, <1>2, <1>4, <1>5, <1>6, NextRowOutcome DEF LInv

LEMMA NewLabelOutcome ==
  ASSUME LInv, LabelsFitBlock, LabelsFitBlock', NEW k \in SliceStart, NEW s \in Sign,
         NewLabel(k, s)
  PROVE  SliceOutcome(k)
<1> DEFINE x == lunique[k][s]
           F == [P[s] EXCEPT ![x] = x]
           r == m_r_i[k]
           c == c_i[k]
<1>1. /\ NextRow(k) /\ call' = call /\ state[k] = "scan" /\ r < Rows
      /\ Polarity(Here(k)) = s
      /\ L' = [L EXCEPT ![<<r, m_c_i(c)>>] = s * x]
      /\ P' = [P EXCEPT ![s] = F]
      /\ lunique' = [lunique EXCEPT ![k] = [lunique[k] EXCEPT ![s] = x + 1]]
  BY DEF NewLabel, NextRow, Here, LInv, LTyped
<1>2. LTyped /\ SliceForest(k) /\ r \in 0 .. Rows - 1 /\ c \in Columns(k)
  BY <1>1, Running, HerePixel DEF LInv
<1>3. /\ x \in Nat /\ lunique_start(k) \in Nat /\ lunique_start(SliceEnd(k)) \in Nat
      /\ lunique_start(SliceEnd(k)) <= Plength /\ Plength \in Nat
  BY <1>2, Blocks, CallTyped DEF LTyped
<1>4. /\ lunique' \in [SliceStart -> [Sign -> Nat]]
      /\ lunique'[k][s] = x + 1
      /\ \A t \in Sign : t # s => lunique'[k][t] = lunique[k][t]
      /\ \A j \in SliceStart : j # k => lunique'[j] = lunique[j]
  BY <1>1, <1>2, <1>3, SMTT(30) DEF LTyped
<1>5. lunique_start(k) < x
  BY <1>1 DEF LInv, SlicePlace
<1>6. x + 1 <= lunique_start(SliceEnd(k))
  <2>1. lunique'[k][s] <= lunique_start(SliceEnd(k))
    BY <1>1, SameCall DEF LabelsFitBlock
  <2> QED BY <1>4, <2>1
<1>7. x \in 0 .. Plength /\ x \in Block(k)
  BY <1>3, <1>5, <1>6 DEF Block
<1>8. P[s] \in [0 .. Plength -> 0 .. Plength]
  BY <1>2 DEF LTyped
<1>9. F \in [0 .. Plength -> 0 .. Plength]
  BY <1>7, <1>8
<1>10. \A t \in Sign : lunique'[k][t] >= lunique[k][t]
  <2> TAKE t \in Sign
  <2>1. lunique[k][t] \in Nat
    BY <1>2 DEF LTyped
  <2> QED BY <1>4, <2>1
<1>11. Own(k, s)' = {y \in 0 .. Plength : lunique_start(k) < y /\ y < x + 1}
  BY <1>1, <1>4, SameCall DEF Own
<1>12. \A y \in 0 .. Plength : y \in Own(k, s)' <=> y \in Own(k, s) \/ y = x
  <2> TAKE y \in 0 .. Plength
  <2> HIDE DEF x
  <2>1. y \in Own(k, s) <=> lunique_start(k) < y /\ y < x
    BY DEF Own, x
  <2> QED BY <1>3, <1>5, <1>11, <2>1
<1>13. ForestOn(P[s], Own(k, s))
  BY <1>2 DEF SliceForest
<1>14. ForestOn(F, Own(k, s)')
  <2> SUFFICES ASSUME NEW y \in Own(k, s)' PROVE F[y] \in Own(k, s)' /\ F[y] <= y
    BY DEF ForestOn
  <2>1. y \in 0 .. Plength
    BY <1>11
  <2>2. CASE y = x
    <3>1. F[y] = x
      BY <1>7, <1>8, <2>2
    <3> HIDE DEF x, F
    <3> QED BY <1>3, <1>7, <1>12, <2>2, <3>1
  <2>3. CASE y # x
    <3>1. y \in Own(k, s)
      BY <1>12, <2>1, <2>3
    <3>2. F[y] = P[s][y]
      BY <1>8, <2>1, <2>3
    <3>3. F[y] \in Own(k, s) /\ F[y] <= y
      BY <1>13, <3>1, <3>2 DEF ForestOn
    <3>4. F[y] \in 0 .. Plength
      BY <1>9, <2>1
    <3> HIDE DEF F
    <3> QED BY <1>12, <3>3, <3>4
  <2> QED BY <2>2, <2>3
<1>15. x \in Own(k, s)'
  BY <1>7, <1>12
<1>16. \A y \in 0 .. Plength : F[y] # P[s][y] => y \in Block(k)
  BY <1>7, <1>8
<1>17. I[<<r, m_c_i(c)>>] # 0
  BY <1>1 DEF Polarity, Here, Sign
<1>18. Labelled(k, c, r, s, x, F)
  <2> HIDE DEF x, F, r, c
  <2> QED
    BY <1>1, <1>2, <1>4, <1>9, <1>10, <1>14, <1>15, <1>16, <1>17 DEF Labelled
<1>19. /\ L' \in [Pixel -> Int]
       /\ P' \in [Sign -> [0 .. Plength -> 0 .. Plength]]
       /\ SliceForest(k)'
       /\ LocalChange(k)
       /\ \A p \in Pixel : L'[p] # 0 => I[p] # 0
  <2> HIDE DEF x, F, r, c
  <2> QED BY <1>1, <1>2, <1>18, LabelPixel
<1> QED BY <1>1, <1>4, <1>10, <1>19, NextRowOutcome

LEMMA CopyOutcome ==
  ASSUME LInv, LabelsFitBlock, NEW k \in SliceStart, NEW s \in Sign, CopyLabel(k, s)
  PROVE  SliceOutcome(k)
<1> DEFINE x == Decision(k, s)[1]
           F == P[s]
           r == m_r_i[k]
           c == c_i[k]
<1>1. /\ NextRow(k) /\ call' = call /\ state[k] = "scan" /\ r < Rows
      /\ Polarity(Here(k)) = s /\ Len(Decision(k, s)) = 1
      /\ L' = [L EXCEPT ![<<r, m_c_i(c)>>] = s * x]
      /\ P' = P /\ lunique' = lunique
  BY DEF CopyLabel, NextRow, Here
<1>2. LTyped /\ SliceForest(k) /\ r \in 0 .. Rows - 1 /\ c \in Columns(k)
  BY <1>1, Running, HerePixel DEF LInv
<1>3. F \in [0 .. Plength -> 0 .. Plength] /\ P' = [P EXCEPT ![s] = F]
  BY <1>1, <1>2 DEF LTyped
<1>4. /\ lunique' \in [SliceStart -> [Sign -> Nat]]
      /\ \A t \in Sign : lunique'[k][t] = lunique[k][t]
      /\ \A t \in Sign : lunique'[k][t] >= lunique[k][t]
      /\ \A j \in SliceStart : j # k => lunique'[j] = lunique[j]
  BY <1>1, <1>2 DEF LTyped
<1>5. Own(k, s)' = Own(k, s)
  BY <1>1, SameCall DEF Own
<1>6. x \in Own(k, s)'
  BY <1>1, <1>5, DecisionOwn
<1>7. ForestOn(F, Own(k, s)')
  BY <1>2, <1>5 DEF SliceForest
<1>8. I[<<r, m_c_i(c)>>] # 0
  BY <1>1 DEF Polarity, Here, Sign
<1>9. Labelled(k, c, r, s, x, F)
  <2>1. \A y \in 0 .. Plength : F[y] # P[s][y] => y \in Block(k)
    OBVIOUS
  <2> HIDE DEF x, F, r, c
  <2> QED
    BY <1>1, <1>2, <1>3, <1>4, <1>6, <1>7, <1>8, <2>1 DEF Labelled
<1>10. /\ L' \in [Pixel -> Int]
       /\ P' \in [Sign -> [0 .. Plength -> 0 .. Plength]]
       /\ SliceForest(k)'
       /\ LocalChange(k)
       /\ \A p \in Pixel : L'[p] # 0 => I[p] # 0
  <2> HIDE DEF x, F, r, c
  <2> QED BY <1>1, <1>2, <1>9, LabelPixel
<1> QED BY <1>1, <1>4, <1>10, NextRowOutcome

(***************************************************************************)
(* What set_union makes of the two labels of a slice that a pixel joins.   *)
(***************************************************************************)
LEMMA MergedRoot ==
  ASSUME LInv, LabelsFitBlock, NEW k \in SliceStart, state[k] = "scan", m_r_i[k] < Rows,
         NEW s \in Sign, Len(Decision(k, s)) = 2
  PROVE  GoodUnion(Plength, set_union(P[s], Decision(k, s)[1], Decision(k, s)[2]), P[s], Own(k, s))
<1> DEFINE i == Decision(k, s)[1]
           j == Decision(k, s)[2]
<1>1. LTyped /\ SliceForest(k)
  BY Running DEF LInv
<1>2. P[s] \in [0 .. Plength -> 0 .. Plength] /\ Plength \in Nat
  BY <1>1, CallTyped DEF LTyped
<1>3. i \in Own(k, s) /\ j \in Own(k, s)
  BY DecisionOwn
<1>4. ForestOn(P[s], Own(k, s)) /\ Own(k, s) \in SUBSET (0 .. Plength)
  BY <1>1 DEF SliceForest, Own
<1> HIDE DEF i, j
<1>5. GoodUnion(Plength, set_union(P[s], i, j), P[s], Own(k, s))
  BY <1>2, <1>3, <1>4, UnionWithin
<1> QED BY <1>5 DEF i, j

LEMMA MergeOutcome ==
  ASSUME LInv, LabelsFitBlock, NEW k \in SliceStart, NEW s \in Sign, MergeLabels(k, s)
  PROVE  SliceOutcome(k)
<1> DEFINE d == Decision(k, s)
           u == set_union(P[s], d[1], d[2])
           x == u.root
           F == u.P
           r == m_r_i[k]
           c == c_i[k]
<1>1. /\ NextRow(k) /\ call' = call /\ state[k] = "scan" /\ r < Rows
      /\ Polarity(Here(k)) = s /\ Len(d) = 2
      /\ L' = [L EXCEPT ![<<r, m_c_i(c)>>] = s * x]
      /\ P' = [P EXCEPT ![s] = F] /\ lunique' = lunique
  BY DEF MergeLabels, NextRow, Here
<1>2. LTyped /\ SliceForest(k) /\ r \in 0 .. Rows - 1 /\ c \in Columns(k)
  BY <1>1, Running, HerePixel DEF LInv
<1>4. /\ lunique' \in [SliceStart -> [Sign -> Nat]]
      /\ \A t \in Sign : lunique'[k][t] = lunique[k][t]
      /\ \A t \in Sign : lunique'[k][t] >= lunique[k][t]
      /\ \A j \in SliceStart : j # k => lunique'[j] = lunique[j]
  BY <1>1, <1>2 DEF LTyped
<1>5. Own(k, s)' = Own(k, s)
  BY <1>1, SameCall DEF Own
<1>6. /\ x \in Own(k, s)
      /\ F \in [0 .. Plength -> 0 .. Plength]
      /\ ForestOn(F, Own(k, s))
      /\ \A y \in 0 .. Plength : y \notin Own(k, s) => F[y] = P[s][y]
  <2>1. GoodUnion(Plength, u, P[s], Own(k, s))
    BY <1>1, MergedRoot
  <2> HIDE DEF u
  <2> QED BY <2>1 DEF GoodUnion
<1>7. I[<<r, m_c_i(c)>>] # 0
  BY <1>1 DEF Polarity, Here, Sign
<1>8. Labelled(k, c, r, s, x, F)
  <2>1. Own(k, s) \subseteq Block(k)
    BY <1>2, OwnInBlock
  <2>2. \A y \in 0 .. Plength : F[y] # P[s][y] => y \in Block(k)
    <3> HIDE DEF F
    <3> QED BY <1>6, <2>1
  <2> HIDE DEF x, F, r, c
  <2>3. ForestOn(F, Own(k, s)') /\ x \in Own(k, s)'
    BY <1>5, <1>6
  <2> QED
    BY <1>1, <1>2, <1>4, <1>6, <1>7, <2>2, <2>3 DEF Labelled
<1>9. /\ L' \in [Pixel -> Int]
       /\ P' \in [Sign -> [0 .. Plength -> 0 .. Plength]]
       /\ SliceForest(k)'
       /\ LocalChange(k)
       /\ \A p \in Pixel : L'[p] # 0 => I[p] # 0
  <2> HIDE DEF x, F, r, c
  <2> QED BY <1>1, <1>2, <1>8, LabelPixel
<1> QED BY <1>1, <1>4, <1>9, NextRowOutcome

(***************************************************************************)
(* The first element of the block, which StartSlice resets, is no label of *)
(* the slice: it has none, and will have none before the next step.        *)
(***************************************************************************)
LEMMA StartOutcome ==
  ASSUME LInv, NEW k \in SliceStart, StartSlice(k)
  PROVE  SliceOutcome(k)
<1> DEFINE b == lunique_start(k)
<1>1. /\ state[k] = "new" /\ call' = call /\ L' = L /\ c_i' = c_i /\ m_r_i' = m_r_i
      /\ label_data' = label_data /\ phase' = phase /\ at' = at /\ merge_r_i' = merge_r_i
      /\ P' = [s \in Sign |-> [P[s] EXCEPT ![b] = 0]]
      /\ lunique' = [lunique EXCEPT ![k] = [s \in Sign |-> b + 1]]
      /\ state' = [state EXCEPT ![k] = "scan"]
  BY DEF StartSlice, mainvars
<1>2. LTyped /\ SliceForest(k)
  BY <1>1, Running DEF LInv
<1>3. b \in Nat /\ Plength \in Nat /\ b \in 0 .. Plength /\ b \in Block(k)
  <2>1. /\ b \in Nat /\ Plength \in Nat /\ lunique_start(SliceEnd(k)) \in Nat
        /\ b < lunique_start(SliceEnd(k)) /\ lunique_start(SliceEnd(k)) <= Plength
    BY <1>2, Blocks, CallTyped DEF LTyped
  <2> HIDE DEF b
  <2> QED BY <2>1 DEF Block, b
<1> HIDE DEF b
<1>4. P' \in [Sign -> [0 .. Plength -> 0 .. Plength]]
  <2>1. \A s \in Sign : P[s] \in [0 .. Plength -> 0 .. Plength]
    BY <1>2 DEF LTyped
  <2>2. 0 \in 0 .. Plength
    BY <1>3
  <2> QED BY <1>1, <2>1, <2>2
<1>5. lunique' \in [SliceStart -> [Sign -> Nat]] /\ \A s \in Sign : lunique'[k][s] = b + 1
  BY <1>1, <1>2, <1>3 DEF LTyped
<1>6. state' \in [SliceStart -> {"new", "scan", "done"}]
  BY <1>1, <1>2 DEF LTyped
<1>7. LTyped'
  BY <1>1, <1>2, <1>4, <1>5, <1>6, SameCall DEF LTyped
<1>8. OthersWait(k)
  BY <1>1, <1>2 DEF OthersWait, LTyped
<1>9. c_i'[k] \in Columns(k) /\ state'[k] # "new"
  BY <1>1, <1>2 DEF LInv, SlicePlace, LTyped
<1>10. \A s \in Sign : lunique'[k][s] > lunique_start(k)
  BY <1>3, <1>5 DEF b
<1>11. \A s \in Sign : Own(k, s) = {} /\ Own(k, s)' = {}
  <2> TAKE s \in Sign
  <2>1. lunique[k][s] = 0
    BY <1>1 DEF LInv, SlicePlace
  <2>2. lunique'[k][s] = b + 1
    BY <1>5
  <2>3. Own(k, s) = {}
    BY <1>3, <2>1 DEF Own, b
  <2>4. lunique_start(k)' = b /\ Plength' = Plength
    BY <1>1, SameCall DEF b
  <2>5. Own(k, s)' = {}
    BY <1>3, <2>2, <2>4 DEF Own
  <2> QED BY <2>3, <2>5
<1>12. \A c \in Columns(k), r \in 0 .. Rows - 1 : L[<<r, m_c_i(c)>>] = 0
  <2> TAKE c \in Columns(k), r \in 0 .. Rows - 1
  <2>1. Polar(L[<<r, m_c_i(c)>>]) \in Sign
    BY DEF Polar, Sign
  <2> QED BY <1>2, <1>11, <2>1 DEF SliceForest
<1>13. SliceForest(k)'
  <2>1. \A s \in Sign : ForestOn(P'[s], Own(k, s)')
    BY <1>11 DEF ForestOn
  <2>2. \A c \in Columns(k)', r \in 0 .. Rows' - 1 : L'[<<r, m_c_i(c)'>>] = 0
    BY <1>1, <1>12, SameCall
  <2> QED BY <2>1, <2>2 DEF SliceForest
<1>14. LocalChange(k)
  <2>1. \A s \in Sign, x \in 0 .. Plength : P'[s][x] # P[s][x] => x = b
    BY <1>1, <1>2 DEF LTyped
  <2> QED BY <1>1, <1>3, <2>1 DEF LocalChange
<1>15. \A p \in Pixel : L'[p] # 0 => I[p] # 0
  BY <1>1 DEF LInv
<1> QED
  BY <1>1, <1>7, <1>8, <1>9, <1>10, <1>13, <1>14, <1>15 DEF SliceOutcome

LEMMA UnionGood ==
  ASSUME NEW N \in Nat, NEW u, NEW F, NEW Q \in SUBSET (0 .. N), GoodUnion(N, u, F, Q),
         NEW i \in Q, NEW x \in Q
  PROVE  GoodUnion(N, set_union(u.P, i, x), F, Q)
<1> DEFINE G == u.P
           v == set_union(G, i, x)
<1>1. /\ G \in [0 .. N -> 0 .. N] /\ ForestOn(G, Q)
      /\ \A y \in 0 .. N : y \notin Q => G[y] = F[y]
  BY DEF GoodUnion
<1> HIDE DEF G
<1>2. GoodUnion(N, v, G, Q)
  BY <1>1, UnionWithin
<1> HIDE DEF v
<1>3. GoodUnion(N, v, F, Q)
  BY <1>1, <1>2 DEF GoodUnion
<1> QED BY <1>3 DEF v, G

LEMMA UniteIfGood ==
  ASSUME NEW N \in Nat, NEW u, NEW F, NEW Q \in SUBSET (0 .. N), GoodUnion(N, u, F, Q),
         NEW connected, NEW x, connected => x \in Q
  PROVE  GoodUnion(N, UniteIf(connected, u, x), F, Q)
<1>1. u.root \in Q
  BY DEF GoodUnion
<1>2. CASE connected
  BY <1>1, <1>2, UnionGood DEF UniteIf
<1>3. CASE ~ connected
  BY <1>3 DEF UniteIf
<1> QED BY <1>2, <1>3

(***************************************************************************)
(* The label of a pixel of slice k, and of those connected with it.        *)
(***************************************************************************)
LEMMA OwnLabel ==
  ASSUME LInv, NEW k \in SliceStart, SliceForest(k), NEW c \in Columns(k),
         NEW r \in 0 .. Rows - 1, NEW s \in Sign, s * L[<<r, m_c_i(c)>>] > 0
  PROVE  s * L[<<r, m_c_i(c)>>] \in Own(k, s)
<1>1. Connected(s, TRUE, r, m_c_i(c)) = s * L[<<r, m_c_i(c)>>]
  BY DEF Connected
<1> DEFINE y == s * L[<<r, m_c_i(c)>>]
<1>2. y = 0 \/ y \in Own(k, s)
  BY <1>1, ConnectedOwn
<1> QED BY <1>2

LEMMA RowBorderLabels ==
  ASSUME LInv, LabelsFitBlock, SeamClear, NEW k \in SliceStart, SliceForest(k),
         NEW c \in Columns(k), NEW m, m = m_c_i(c), NEW s \in Sign,
         s = Polar(L[<<0, m>>]), L[<<0, m>>] # 0, ~ FftShift,
         RowBorder(m), call' = call, lunique' = lunique
  PROVE  \E x, F : Labelled(k, c, 0, s, x, F)
<1> DEFINE cur     == L[<<0, m>>]
           top     == L[<<Rows - 1, m>>]
           topleft == L[<<Rows - 1, m_c_i_prev(m)>>]
           u0      == [P |-> P[s], root |-> s * cur]
           u1      == UniteIf(s * top > 0, u0, s * top)
           u2      == UniteIf(Conn8 /\ s * topleft > 0 /\ top # topleft, u1, s * topleft)
           Q       == Own(k, s)
           x       == s * top
           F0      == P[s]
           F       == u1.P
           z       == u1.root
<1>1. /\ LTyped /\ c \in 0 .. Cols - 1
      /\ call \in Calls /\ Rows \in Nat \ {0} /\ Plength \in Nat
      /\ 0 \in 0 .. Rows - 1 /\ Rows - 1 \in 0 .. Rows - 1
  <2>1. LTyped /\ call \in Calls
    BY DEF LInv, LTyped
  <2>2. c \in 0 .. Cols - 1 /\ Rows \in Nat \ {0} /\ Plength \in Nat
    BY <2>1, SliceEnds, CallTyped
  <2>3. 0 \in 0 .. Rows - 1 /\ Rows - 1 \in 0 .. Rows - 1
    BY <2>2
  <2> QED BY <2>1, <2>2, <2>3
<1>2. L' = [L EXCEPT ![<<0, m>>] = s * u2.root] /\ P' = [P EXCEPT ![s] = u2.P]
  BY DEF RowBorder
<1>3. <<0, m>> \in Pixel /\ <<Rows - 1, m>> \in Pixel /\ <<Rows - 1, m_c_i_prev(m)>> \in Pixel
  BY <1>1, ColumnStored DEF Pixel
<1>4. cur \in Int /\ top \in Int /\ topleft \in Int
  BY <1>1, <1>3 DEF LTyped
<1>5. s * cur > 0
  BY <1>4 DEF Polar, Sign
<1>6. s * cur \in Q
  BY <1>1, <1>5, OwnLabel
<1>7. x > 0 => x \in Q
  BY <1>1, OwnLabel
<1>8. ~ (Conn8 /\ s * topleft > 0 /\ top # topleft)
  <2>1. Conn8 => I[<<Rows - 1, m_c_i_prev(m)>>] = 0
    <3>1. m_c_i_prev(m) \in 0 .. Cols - 1
      BY <1>1, ColumnStored
    <3> QED BY <3>1 DEF SeamClear
  <2>2. Conn8 => topleft = 0
    BY <1>3, <2>1 DEF LInv
  <2> HIDE DEF topleft
  <2>3. topleft = 0 => ~ (s * topleft > 0)
    BY DEF Sign
  <2> QED BY <2>2, <2>3
<1>9. u2 = u1
  BY <1>8 DEF UniteIf
<1>10. Q \in SUBSET (0 .. Plength) /\ Plength \in Nat
  BY <1>1 DEF Own
<1>11. GoodUnion(Plength, u0, F0, Q)
  <2>1. F0 \in [0 .. Plength -> 0 .. Plength] /\ ForestOn(F0, Q)
    BY <1>1 DEF LTyped, SliceForest
  <2>2. u0.root = s * cur /\ u0.P = F0
    OBVIOUS
  <2> HIDE DEF u0, Q, F0, cur
  <2> QED BY <1>6, <2>1, <2>2 DEF GoodUnion
<1>12. GoodUnion(Plength, u1, F0, Q)
  <2>1. u1 = UniteIf(x > 0, u0, x)
    OBVIOUS
  <2> HIDE DEF u1, x, F0, u0, Q
  <2> QED BY ONLY <1>7, <1>10, <1>11, <2>1, UniteIfGood
<1>13. /\ z \in Q /\ F \in [0 .. Plength -> 0 .. Plength] /\ ForestOn(F, Q)
       /\ \A y \in 0 .. Plength : y \notin Q => F[y] = F0[y]
  <2> HIDE DEF u1, Q, F0
  <2> QED BY <1>12 DEF GoodUnion
<1>14. I[<<0, m>>] # 0
  <2> HIDE DEF cur
  <2> QED BY <1>3 DEF LInv
<1>15. L' = [L EXCEPT ![<<0, m>>] = s * z] /\ P' = [P EXCEPT ![s] = F]
  <2> HIDE DEF u1, u2
  <2> QED BY <1>2, <1>9
<1>16. \A y \in 0 .. Plength : F[y] # P[s][y] => y \in Block(k)
  <2>1. Q \subseteq Block(k)
    BY <1>1, OwnInBlock
  <2> HIDE DEF F, Q
  <2> QED BY <1>13, <2>1
<1>17. Own(k, s)' = Q
  BY SameCall DEF Own
<1>18. /\ lunique' \in [SliceStart -> [Sign -> Nat]]
       /\ \A t \in Sign : lunique'[k][t] = lunique[k][t]
       /\ \A t \in Sign : lunique'[k][t] >= lunique[k][t]
  <2>1. lunique \in [SliceStart -> [Sign -> Nat]] /\ lunique' = lunique
    BY <1>1 DEF LTyped
  <2>2. \A t \in Sign : lunique[k][t] \in Nat
    BY <2>1
  <2> QED BY ONLY <2>1, <2>2
<1>19. ForestOn(F, Own(k, s)') /\ z \in Own(k, s)'
  <2> HIDE DEF F, z, Q
  <2> QED BY <1>13, <1>17
<1>20. Labelled(k, c, 0, s, z, F)
  <2> HIDE DEF F, z, Q
  <2> QED
    BY <1>1, <1>13, <1>14, <1>15, <1>16, <1>18, <1>19 DEF Labelled
<1> QED BY <1>20

LEMMA RowBorderChange ==
  ASSUME LInv, LabelsFitBlock, SeamClear, NEW k \in SliceStart, state[k] = "scan",
         RowBorder(m_c_i(c_i[k])), call' = call, lunique' = lunique
  PROVE  /\ L' \in [Pixel -> Int]
         /\ P' \in [Sign -> [0 .. Plength -> 0 .. Plength]]
         /\ SliceForest(k)'
         /\ LocalChange(k)
         /\ \A p \in Pixel : L'[p] # 0 => I[p] # 0
<1>1. /\ LTyped /\ SliceForest(k)
  BY Running DEF LInv
<1>2. PICK c \in Columns(k) : c = c_i[k]
  BY DEF LInv, SlicePlace
<1>3. PICK m : m = m_c_i(c) /\ RowBorder(m)
  BY <1>2
<1>4. CASE L' = L /\ P' = P
  <2>1. L' \in [Pixel -> Int] /\ P' \in [Sign -> [0 .. Plength -> 0 .. Plength]]
    BY <1>1, <1>4 DEF LTyped
  <2>2. SliceForest(k)'
    BY <1>1, <1>4, SameCall DEF SliceForest, Own, Label, Polar
  <2>3. LocalChange(k)
    BY <1>4 DEF LocalChange
  <2>4. \A p \in Pixel : L'[p] # 0 => I[p] # 0
    BY <1>4 DEF LInv
  <2> QED BY <2>1, <2>2, <2>3, <2>4
<1>5. CASE ~ FftShift /\ L[<<0, m>>] # 0
  <2>1. PICK s \in Sign : s = Polar(L[<<0, m>>])
    BY DEF Polar, Sign
  <2>2. PICK x, F : Labelled(k, c, 0, s, x, F)
    BY <1>1, <1>3, <1>5, <2>1, RowBorderLabels
  <2> QED BY <1>1, <2>2, LabelPixel
<1> QED
  BY <1>3, <1>4, <1>5 DEF RowBorder

LEMMA EndColumnOutcome ==
  ASSUME LInv, LabelsFitBlock, SeamClear, NEW k \in SliceStart, EndColumn(k)
  PROVE  SliceOutcome(k)
<1>1. /\ state[k] = "scan" /\ RowBorder(m_c_i(c_i[k])) /\ call' = call /\ lunique' = lunique
      /\ phase' = phase /\ at' = at /\ merge_r_i' = merge_r_i
  BY DEF EndColumn, mainvars
<1>2. LTyped
  BY DEF LInv
<1>3. /\ L' \in [Pixel -> Int]
      /\ P' \in [Sign -> [0 .. Plength -> 0 .. Plength]]
      /\ SliceForest(k)'
      /\ LocalChange(k)
      /\ \A p \in Pixel : L'[p] # 0 => I[p] # 0
  BY <1>1, RowBorderChange
<1>4. /\ c_i[k] \in Columns(k) /\ c_i[k] \in Nat /\ SliceEnd(k) \in Nat /\ k \in Nat
      /\ Rows \in Nat
  <2>1. call \in Calls /\ c_i[k] \in Columns(k)
    BY <1>2 DEF LInv, SlicePlace, LTyped
  <2>2. Rows \in Nat /\ Cols \in Nat
    BY <2>1, CallTyped
  <2>3. SliceEnd(k) \in k + 1 .. Cols /\ k \in Nat /\ Columns(k) \subseteq 0 .. Cols - 1
    BY <2>1, SliceEnds
  <2>4. SliceEnd(k) \in Nat
    BY <2>2, <2>3
  <2>5. c_i[k] \in Nat
    BY <2>1, <2>2, <2>3
  <2> QED BY <2>1, <2>2, <2>3, <2>4, <2>5
<1>5. \A s \in Sign : lunique'[k][s] > lunique_start(k)
  BY <1>1 DEF LInv, SlicePlace
<1>6. CASE /\ ColumnsLeft(k)
           /\ c_i' = [c_i EXCEPT ![k] = c_i[k] + 1] /\ m_r_i' = [m_r_i EXCEPT ![k] = 0]
           /\ state' = state /\ label_data' = label_data
  <2>1. c_i' \in [SliceStart -> Int] /\ m_r_i' \in [SliceStart -> 0 .. Rows]
    <3>1. 0 \in 0 .. Rows
      BY <1>4
    <3> QED BY <1>2, <1>4, <1>6, <3>1 DEF LTyped
  <2>2. LTyped'
    BY <1>1, <1>2, <1>3, <1>6, <2>1, SameCall DEF LTyped
  <2>3. OthersWait(k)
    BY <1>1, <1>2, <1>6 DEF OthersWait, LTyped
  <2>4. c_i'[k] = c_i[k] + 1 /\ c_i[k] + 1 < SliceEnd(k)
    BY <1>2, <1>6 DEF LTyped, ColumnsLeft
  <2>5. c_i'[k] \in Columns(k)
    BY <1>4, <2>4 DEF Columns
  <2>6. state'[k] # "new"
    BY <1>1, <1>6
  <2> QED BY <1>1, <1>3, <1>5, <2>2, <2>3, <2>5, <2>6 DEF SliceOutcome
<1>7. CASE /\ state' = [state EXCEPT ![k] = "done"]
           /\ label_data' = Append(label_data, [col_start |-> k, lunique |-> lunique[k]])
           /\ c_i' = c_i /\ m_r_i' = m_r_i
  <2>1. state' \in [SliceStart -> {"new", "scan", "done"}] /\ state'[k] = "done"
    BY <1>2, <1>7 DEF LTyped
  <2>2. label_data' \in Seq([col_start : SliceStart, lunique : [Sign -> Nat]])
    <3>1. [col_start |-> k, lunique |-> lunique[k]]
            \in [col_start : SliceStart, lunique : [Sign -> Nat]]
      BY <1>2 DEF LTyped
    <3>2. label_data \in Seq([col_start : SliceStart, lunique : [Sign -> Nat]])
      BY <1>2 DEF LTyped
    <3> QED BY <1>7, <3>1, <3>2
  <2>3. LTyped'
    BY <1>1, <1>2, <1>3, <1>7, <2>1, <2>2, SameCall DEF LTyped
  <2>4. OthersWait(k)
    BY <1>1, <1>2, <1>7 DEF OthersWait, LTyped
  <2>5. c_i'[k] \in Columns(k)
    BY <1>4, <1>7
  <2> QED BY <1>1, <1>3, <1>5, <2>1, <2>3, <2>4, <2>5 DEF SliceOutcome
<1> QED
  BY <1>6, <1>7 DEF EndColumn

(***************************************************************************)
(* Every step of a slice leaves its place, its trees and its pixels right. *)
(***************************************************************************)
LEMMA SliceStepOutcome ==
  ASSUME LInv, LabelsFitBlock, SeamClear, NEW k \in SliceStart, SliceStep(k),
         \A s \in Sign : NewLabel(k, s) => LabelsFitBlock'
  PROVE  SliceOutcome(k)
  BY StartOutcome, SkipOutcome, NewLabelOutcome, CopyOutcome, MergeOutcome, EndColumnOutcome
     DEF SliceStep

(***************************************************************************)
(* A step of slice k leaves alone what the other slices know.              *)
(***************************************************************************)
LEMMA OtherForest ==
  ASSUME LInv, LabelsFitBlock, NEW k \in SliceStart, SliceOutcome(k),
         NEW j \in SliceStart, j # k, SliceForest(j)
  PROVE  SliceForest(j)'
<1>1. /\ LTyped /\ call' = call /\ call \in Calls /\ lunique'[j] = lunique[j]
      /\ LocalChange(k)
  BY DEF SliceOutcome, OthersWait, LInv, LTyped
<1>2. Columns(k) \intersect Columns(j) = {} /\ Columns(j) \subseteq 0 .. Cols - 1
  BY <1>1, DifferentSlices, SliceEnds
<1>3. \A s \in Sign : Own(j, s)' = Own(j, s)
  BY <1>1, SameCall DEF Own
<1>4. \A s \in Sign : ForestOn(P'[s], Own(j, s)')
  <2> TAKE s \in Sign
  <2>1. Own(j, s) \subseteq Block(j) /\ Block(k) \intersect Block(j) = {}
    BY <1>1, OwnInBlock, DifferentBlocks
  <2>2. Own(j, s) \subseteq 0 .. Plength
    BY DEF Own
  <2>3. \A y \in Own(j, s) : P'[s][y] = P[s][y]
    BY <1>1, <2>1, <2>2 DEF LocalChange
  <2>4. ForestOn(P[s], Own(j, s))
    BY DEF SliceForest
  <2>5. ForestOn(P'[s], Own(j, s))
    BY <2>3, <2>4 DEF ForestOn
  <2> QED BY <1>3, <2>5
<1>5. \A c \in Columns(j), r \in 0 .. Rows - 1 : L'[<<r, m_c_i(c)>>] = L[<<r, m_c_i(c)>>]
  BY <1>1, <1>2 DEF LocalChange
<1>6. ASSUME NEW c \in Columns(j), NEW r \in 0 .. Rows - 1, L'[<<r, m_c_i(c)>>] # 0
      PROVE  Polar(L'[<<r, m_c_i(c)>>]) * L'[<<r, m_c_i(c)>>]
               \in {y \in 0 .. Plength' :
                      lunique_start(j)' < y /\ y < lunique'[j][Polar(L'[<<r, m_c_i(c)>>])]}
  <2>1. L'[<<r, m_c_i(c)>>] = L[<<r, m_c_i(c)>>]
    BY <1>5
  <2>2. Polar(L[<<r, m_c_i(c)>>]) * L[<<r, m_c_i(c)>>]
          \in {y \in 0 .. Plength :
                 lunique_start(j) < y /\ y < lunique[j][Polar(L[<<r, m_c_i(c)>>])]}
    BY <1>6, <2>1 DEF SliceForest, Label, Own
  <2>3. Plength' = Plength /\ lunique_start(j)' = lunique_start(j)
    BY <1>1, SameCall
  <2> QED BY <1>1, <2>1, <2>2, <2>3
<1> QED BY <1>1, <1>4, <1>6, SameCall DEF SliceForest, Label, Own, Polar

LEMMA SliceStepKeeps ==
  ASSUME LInv, LabelsFitBlock, NEW k \in SliceStart, SliceStep(k), SliceOutcome(k)
  PROVE  LInv'
<1>1. SliceOutcome(k)
  OBVIOUS
<1>2. /\ LTyped /\ phase = "scan" /\ phase' = phase /\ call' = call
  <2>1. state[k] # "done"
    BY DEF SliceStep, StartSlice, SkipPixel, NewLabel, CopyLabel, MergeLabels, NextRow, EndColumn
  <2> QED BY <1>1, <2>1, Running DEF SliceOutcome, LInv
<1>3. LTyped'
  BY <1>1 DEF SliceOutcome
<1>4. SlicePlace'
  <2> SUFFICES ASSUME NEW j \in SliceStart
               PROVE  /\ c_i'[j] \in Columns(j)
                      /\ state'[j] = "new" => \A s \in Sign : lunique'[j][s] = 0
                      /\ state'[j] # "new" => \A s \in Sign : lunique'[j][s] > lunique_start(j)
    BY <1>2, SameCall DEF SlicePlace
  <2>1. CASE j = k
    BY <1>1, <2>1 DEF SliceOutcome
  <2>2. CASE j # k
    BY <1>1, <2>2 DEF SliceOutcome, OthersWait, LInv, SlicePlace
  <2> QED BY <2>1, <2>2
<1>5. \A p \in Pixel' : L'[p] # 0 => I'[p] # 0
  BY <1>1, <1>2, SameCall DEF SliceOutcome
<1>6. \A j \in SliceStart' : SliceForest(j)'
  <2>1. ASSUME NEW j \in SliceStart PROVE SliceForest(j)'
    <3>1. CASE j = k
      BY <1>1, <3>1 DEF SliceOutcome
    <3>2. CASE j # k
      BY <1>1, <1>2, <3>2, OtherForest DEF LInv
    <3> QED BY <3>1, <3>2
  <2> QED BY <1>2, <2>1, SameCall
<1> QED BY <1>2, <1>3, <1>4, <1>5, <1>6 DEF LInv

------------------------------------------------------------------------------
(***************************************************************************)
(* The calling thread.                                                     *)
(***************************************************************************)

(***************************************************************************)
(* When all slices are done their trees make up one forest, and every      *)
(* column belongs to one of them.                                          *)
(***************************************************************************)
LEMMA ForestFromSlices ==
  ASSUME LTyped, \A k \in SliceStart : SliceForest(k)
  PROVE  WholeForest
<1>1. \A k \in SliceStart, s \in Sign : Own(k, s) \subseteq AllIssued(s)
  BY DEF Own, AllIssued, Issued
<1>2. ASSUME NEW s \in Sign PROVE ForestOn(P[s], AllIssued(s))
  <2> SUFFICES ASSUME NEW x \in AllIssued(s)
               PROVE  P[s][x] \in AllIssued(s) /\ P[s][x] <= x
    BY DEF ForestOn
  <2>1. PICK k \in SliceStart : x \in Own(k, s)
    BY DEF AllIssued, Issued, Own
  <2>2. P[s][x] \in Own(k, s) /\ P[s][x] <= x
    BY <2>1 DEF SliceForest, ForestOn
  <2> QED BY <1>1, <2>2
<1>3. ASSUME NEW p \in Pixel, L[p] # 0 PROVE Label(p) \in AllIssued(Polar(L[p]))
  <2>1. PICK r \in 0 .. Rows - 1, m \in 0 .. Cols - 1 : p = <<r, m>>
    BY DEF Pixel
  <2>2. PICK c \in 0 .. Cols - 1 : m_c_i(c) = m
    BY ColumnStored DEF LTyped
  <2>3. PICK k \in SliceStart : c \in Columns(k)
    BY SliceOfColumn DEF LTyped
  <2>4. Label(p) \in Own(k, Polar(L[p]))
    BY <1>3, <2>1, <2>2, <2>3 DEF SliceForest
  <2>5. Polar(L[p]) \in Sign
    BY DEF Polar, Sign
  <2> QED BY <1>1, <2>4, <2>5
<1> QED BY <1>2, <1>3 DEF WholeForest

LEMMA JoinKeeps ==
  ASSUME LInv, Join
  PROVE  LInv'
<1>1. /\ LTyped /\ phase = "scan" /\ \A k \in SliceStart : state[k] = "done"
      /\ label_data' \in SortedByColumn /\ phase' = "merge" /\ at' = 1
      /\ call' = call /\ L' = L /\ P' = P /\ merge_r_i' = merge_r_i
      /\ state' = state /\ c_i' = c_i /\ m_r_i' = m_r_i /\ lunique' = lunique
  BY DEF Join, scanvars, LInv
<1>2. label_data' \in Seq([col_start : SliceStart, lunique : [Sign -> Nat]])
  <2> DEFINE R == [col_start : SliceStart, lunique : [Sign -> Nat]]
             n == Len(label_data)
  <2>1. label_data \in Seq(R) /\ n \in Nat /\ DOMAIN label_data = 1 .. n
    BY <1>1 DEF LTyped
  <2>2. \A x \in 1 .. n : label_data[x] \in R
    <3> HIDE DEF R
    <3> QED BY <2>1
  <2>3. PICK order \in [1 .. n -> 1 .. n] : label_data' = [x \in 1 .. n |-> label_data[order[x]]]
    BY <1>1, <2>1 DEF SortedByColumn
  <2> HIDE DEF R, n
  <2>4. label_data' \in [1 .. n -> R]
    BY <2>2, <2>3
  <2>5. label_data' \in Seq(R)
    BY <2>1, <2>4
  <2> QED BY <2>5 DEF R
<1>3. LTyped'
  BY <1>1, <1>2, SameCall DEF LTyped
<1>4. SlicePlace'
  BY <1>1, SameCall DEF LInv, SlicePlace
<1>5. WholeForest
  BY <1>1, ForestFromSlices DEF LInv
<1>6. WholeForest'
  <2>1. \A t : AllIssued(t)' = AllIssued(t)
    BY <1>1, SameCall DEF AllIssued, Issued
  <2>2. \A t \in Sign : ForestOn(P'[t], AllIssued(t)')
    BY <1>1, <1>5, <2>1 DEF WholeForest
  <2>3. \A p \in Pixel' : L'[p] # 0 => Label(p)' \in AllIssued(Polar(L[p]))'
    <3> TAKE p \in Pixel'
    <3>1. Polar(L[p])' = Polar(L[p]) /\ Label(p)' = Label(p)
      BY <1>1 DEF Polar, Label
    <3>2. AllIssued(Polar(L[p]))' = AllIssued(Polar(L[p]))
      BY <1>1, <3>1, SameCall DEF AllIssued, Issued
    <3> QED BY <1>1, <1>5, <3>1, <3>2, SameCall DEF WholeForest
  <2> QED BY <2>2, <2>3 DEF WholeForest
<1>7. \A p \in Pixel' : L'[p] # 0 => I'[p] # 0
  BY <1>1, SameCall DEF LInv
<1>8. \A k \in SliceStart' : state'[k] = "done"
  BY <1>1, SameCall
<1> QED BY <1>1, <1>3, <1>4, <1>6, <1>7, <1>8 DEF LInv

LEMMA WholeLabel ==
  ASSUME LTyped, WholeForest, NEW p \in Pixel, NEW s \in Sign, s * L[p] > 0
  PROVE  s * L[p] \in AllIssued(s)
<1>1. L[p] \in Int
  BY DEF LTyped
<1>2. L[p] # 0 /\ Polar(L[p]) = s
  BY <1>1 DEF Polar, Sign
<1> QED BY <1>2 DEF WholeForest, Label

(***************************************************************************)
(* A pixel gets a label of the forest of all slices, which stays one.      *)
(***************************************************************************)
LEMMA WholeLabelled ==
  ASSUME LTyped, WholeForest, \A p \in Pixel : L[p] # 0 => I[p] # 0,
         call' = call, lunique' = lunique,
         NEW q \in Pixel, I[q] # 0, NEW s \in Sign, NEW u,
         GoodUnion(Plength, u, P[s], AllIssued(s)),
         L' = [L EXCEPT ![q] = s * u.root],
         P' = [P EXCEPT ![s] = u.P]
  PROVE  /\ L' \in [Pixel -> Int]
         /\ P' \in [Sign -> [0 .. Plength -> 0 .. Plength]]
         /\ WholeForest'
         /\ \A p \in Pixel : L'[p] # 0 => I[p] # 0
<1> DEFINE x == u.root
           F == u.P
<1>1. x \in AllIssued(s) /\ F \in [0 .. Plength -> 0 .. Plength] /\ ForestOn(F, AllIssued(s))
  BY DEF GoodUnion
<1>2. L' = [L EXCEPT ![q] = s * x] /\ P' = [P EXCEPT ![s] = F]
  OBVIOUS
<1> HIDE DEF x, F
<1>3. \A t : AllIssued(t)' = AllIssued(t)
  BY SameCall DEF AllIssued, Issued
<1>4. x \in Nat /\ x > 0
  <2>1. PICK k \in SliceStart : lunique_start(k) < x /\ x \in 0 .. Plength
    BY <1>1 DEF AllIssued, Issued
  <2>2. lunique_start(k) \in Nat /\ Plength \in Nat
    BY Blocks, CallTyped DEF LTyped
  <2> QED BY <2>1, <2>2
<1>5. s * x \in Int /\ s * x # 0 /\ Polar(s * x) = s /\ s * (s * x) = x
  BY <1>4 DEF Polar, Sign
<1>6. L' \in [Pixel -> Int] /\ L'[q] = s * x /\ \A p \in Pixel : p # q => L'[p] = L[p]
  BY <1>2, <1>5 DEF LTyped
<1>7. /\ P' \in [Sign -> [0 .. Plength -> 0 .. Plength]]
      /\ P'[s] = F /\ \A t \in Sign : t # s => P'[t] = P[t]
  BY <1>1, <1>2 DEF LTyped
<1>8. \A t \in Sign : ForestOn(P'[t], AllIssued(t)')
  <2> TAKE t \in Sign
  <2>1. CASE t = s
    BY <1>1, <1>3, <1>7, <2>1
  <2>2. CASE t # s
    BY <1>3, <1>7, <2>2 DEF WholeForest
  <2> QED BY <2>1, <2>2
<1>9. ASSUME NEW p \in Pixel, L'[p] # 0
      PROVE  Polar(L'[p]) * L'[p] \in AllIssued(Polar(L'[p]))
  <2>1. CASE p = q
    BY <1>1, <1>5, <1>6, <2>1
  <2>2. CASE p # q
    BY <1>6, <1>9, <2>2 DEF WholeForest, Label
  <2> QED BY <2>1, <2>2
<1>10. WholeForest'
  <2>1. \A p \in Pixel' : L'[p] # 0 => Polar(L'[p]) * L'[p] \in AllIssued(Polar(L'[p]))
    BY <1>9, SameCall
  <2>2. \A p : Label(p)' = Polar(L'[p]) * L'[p]
    BY DEF Label, Polar
  <2>3. \A p \in Pixel' : L'[p] # 0 => Label(p)' \in AllIssued(Polar(L[p]))'
    <3> TAKE p \in Pixel'
    <3>1. Polar(L[p])' = Polar(L'[p])
      BY DEF Polar
    <3>2. AllIssued(Polar(L[p]))' = AllIssued(Polar(L'[p]))
      BY <3>1, SameCall DEF AllIssued, Issued
    <3> QED BY <2>1, <2>2, <3>2
  <2> QED BY <1>8, <2>3 DEF WholeForest
<1>11. \A p \in Pixel : L'[p] # 0 => I[p] # 0
  BY <1>6
<1> QED BY <1>6, <1>7, <1>10, <1>11

\* One more neighbour of a pixel that has the label i.
Unite(u, valid, i, y) == IF valid THEN set_union(u.P, i, y) ELSE u

LEMMA UniteGood ==
  ASSUME NEW N \in Nat, NEW u, NEW F, NEW Q \in SUBSET (0 .. N), GoodUnion(N, u, F, Q),
         NEW i \in Q, NEW valid, NEW y, valid => y \in Q
  PROVE  GoodUnion(N, Unite(u, valid, i, y), F, Q)
<1>1. CASE valid
  BY <1>1, UnionGood DEF Unite
<1>2. CASE ~ valid
  BY <1>2 DEF Unite
<1> QED BY <1>1, <1>2

(***************************************************************************)
(* The column border merging of one pixel unites labels the slices have    *)
(* handed out, whatever side of the border they come from.                 *)
(***************************************************************************)
LEMMA MergePixelKeeps ==
  ASSUME LTyped, WholeForest, \A p \in Pixel : L[p] # 0 => I[p] # 0,
         call' = call, lunique' = lunique,
         NEW c \in 0 .. Cols - 1, NEW r \in 0 .. Rows - 1, MergePixel(c, r)
  PROVE  /\ L' \in [Pixel -> Int]
         /\ P' \in [Sign -> [0 .. Plength -> 0 .. Plength]]
         /\ WholeForest'
         /\ \A p \in Pixel : L'[p] # 0 => I[p] # 0
<1>1. PICK m : m = m_c_i(c)
  OBVIOUS
<1>2. PICK prev : prev = m_c_i_prev(m)
  OBVIOUS
<1>3. m \in 0 .. Cols - 1 /\ prev \in 0 .. Cols - 1 /\ Rows \in Nat \ {0} /\ Plength \in Nat
  BY <1>1, <1>2, ColumnStored, CallTyped DEF LTyped
<1>4. CASE L' = L /\ P' = P
  <2>1. L' \in [Pixel -> Int] /\ P' \in [Sign -> [0 .. Plength -> 0 .. Plength]]
    BY <1>4 DEF LTyped
  <2>2. \A t : AllIssued(t)' = AllIssued(t)
    BY SameCall DEF AllIssued, Issued
  <2>3. \A t \in Sign : ForestOn(P'[t], AllIssued(t)')
    BY <1>4, <2>2 DEF WholeForest
  <2>4. \A p \in Pixel' : L'[p] # 0 => Label(p)' \in AllIssued(Polar(L[p]))'
    <3> TAKE p \in Pixel'
    <3>1. Polar(L[p])' = Polar(L[p]) /\ Label(p)' = Label(p)
      BY <1>4 DEF Polar, Label
    <3>2. AllIssued(Polar(L[p]))' = AllIssued(Polar(L[p]))
      BY <3>1, SameCall DEF AllIssued, Issued
    <3> QED BY <1>4, <3>1, <3>2, SameCall DEF WholeForest
  <2>5. WholeForest'
    BY <2>3, <2>4 DEF WholeForest
  <2>6. \A p \in Pixel : L'[p] # 0 => I[p] # 0
    BY <1>4
  <2> QED BY <2>1, <2>5, <2>6
<1>5. CASE L[<<r, m>>] # 0
  <2> DEFINE q       == <<r, m>>
             rowPrev == IF r = 0 THEN (IF FftShift THEN r ELSE Rows - 1) ELSE r - 1
             rowNext == IF r = Rows - 1 THEN (IF FftShift THEN r ELSE 0) ELSE r + 1
             q1      == <<rowPrev, prev>>
             q2      == <<r, prev>>
             q3      == <<rowNext, prev>>
  <2>1. q \in Pixel /\ q1 \in Pixel /\ q2 \in Pixel /\ q3 \in Pixel
    <3>1. rowPrev \in 0 .. Rows - 1 /\ rowNext \in 0 .. Rows - 1
      BY <1>3
    <3> HIDE DEF rowPrev, rowNext
    <3> QED BY <1>3, <3>1 DEF Pixel
  <2>2. PICK s \in Sign : s = Polar(L[q])
    BY DEF Polar, Sign
  <2>3. s * L[q] > 0 /\ I[q] # 0
    <3>1. L[q] \in Int /\ L[q] # 0
      BY <1>5, <2>1 DEF LTyped
    <3> QED BY <2>1, <2>2, <3>1 DEF Polar, Sign
  <2> DEFINE Q  == AllIssued(s)
             i  == s * L[q]
             F0 == P[s]
             v1 == (Conn8 /\ r # TopOfSky) /\ c # 0 /\ s * L[q1] > 0
             v2 == TRUE /\ c # 0 /\ s * L[q2] > 0
             v3 == (Conn8 /\ r # BottomOfSky) /\ c # 0 /\ s * L[q3] > 0
             y1 == s * L[q1]
             y2 == s * L[q2]
             y3 == s * L[q3]
             u0 == [P |-> F0, root |-> i]
             u1 == Unite(u0, v1, i, y1)
             u2 == Unite(u1, v2, i, y2)
             u3 == Unite(u2, v3, i, y3)
  <2>4. L' = [L EXCEPT ![q] = s * u3.root] /\ P' = [P EXCEPT ![s] = u3.P]
    BY <1>1, <1>2, <1>5, <2>2, ZenonT(60) DEF MergePixel, Unite
  <2>5. i \in Q
    BY <2>1, <2>3, WholeLabel
  <2>6. (v1 => y1 \in Q) /\ (v2 => y2 \in Q) /\ (v3 => y3 \in Q)
    <3> HIDE DEF q1, q2, q3
    <3> QED BY <2>1, WholeLabel
  <2>7. Q \in SUBSET (0 .. Plength) /\ Plength \in Nat
    BY <1>3 DEF AllIssued
  <2>8. GoodUnion(Plength, u0, F0, Q)
    <3>1. F0 \in [0 .. Plength -> 0 .. Plength] /\ ForestOn(F0, Q)
      BY DEF LTyped, WholeForest
    <3>2. u0.root = i /\ u0.P = F0
      OBVIOUS
    <3> HIDE DEF u0, Q, F0, i
    <3> QED BY <2>5, <3>1, <3>2 DEF GoodUnion
  <2>9. GoodUnion(Plength, u1, F0, Q)
    <3>1. u1 = Unite(u0, v1, i, y1)
      OBVIOUS
    <3> HIDE DEF u0, u1, F0, Q, i, v1, y1
    <3> QED BY ONLY <2>5, <2>6, <2>7, <2>8, <3>1, UniteGood
  <2>10. GoodUnion(Plength, u2, F0, Q)
    <3>1. u2 = Unite(u1, v2, i, y2)
      OBVIOUS
    <3> HIDE DEF u1, u2, F0, Q, i, v2, y2
    <3> QED BY ONLY <2>5, <2>6, <2>7, <2>9, <3>1, UniteGood
  <2>11. GoodUnion(Plength, u3, F0, Q)
    <3>1. u3 = Unite(u2, v3, i, y3)
      OBVIOUS
    <3> HIDE DEF u2, u3, F0, Q, i, v3, y3
    <3> QED BY ONLY <2>5, <2>6, <2>7, <2>10, <3>1, UniteGood
  <2> HIDE DEF u3, q
  <2> QED BY <2>1, <2>3, <2>4, <2>11, WholeLabelled
<1> QED
  BY <1>1, <1>4, <1>5 DEF MergePixel

LEMMA MergeBorderKeeps ==
  ASSUME LInv, MergeBorder
  PROVE  LInv'
<1>1. /\ LTyped /\ phase = "merge" /\ at <= Len(label_data) /\ at \in Nat /\ at # 0
      /\ MergePixel(label_data[at].col_start, merge_r_i)
      /\ merge_r_i' = (merge_r_i + 1) % Rows
      /\ at' = IF merge_r_i + 1 = Rows THEN at + 1 ELSE at
      /\ call' = call /\ state' = state /\ c_i' = c_i /\ m_r_i' = m_r_i /\ lunique' = lunique
      /\ label_data' = label_data /\ phase' = phase
      /\ WholeForest /\ \A p \in Pixel : L[p] # 0 => I[p] # 0
  BY DEF MergeBorder, scanvars, LInv, LTyped
<1>2. label_data[at].col_start \in SliceStart
  <2> DEFINE R == [col_start : SliceStart, lunique : [Sign -> Nat]]
  <2>1. label_data \in Seq(R) /\ at \in 1 .. Len(label_data)
    BY <1>1 DEF LTyped
  <2>2. label_data[at] \in R
    <3> HIDE DEF R
    <3> QED BY <2>1
  <2> QED BY <2>2
<1>3. PICK c \in 0 .. Cols - 1 : c = label_data[at].col_start
  BY <1>1, <1>2, CallTyped DEF LTyped
<1>4. PICK r \in 0 .. Rows - 1 : r = merge_r_i
  BY <1>1 DEF LTyped
<1>5. MergePixel(c, r)
  BY <1>1, <1>3, <1>4
<1>6. /\ L' \in [Pixel -> Int]
      /\ P' \in [Sign -> [0 .. Plength -> 0 .. Plength]]
      /\ WholeForest'
      /\ \A p \in Pixel : L'[p] # 0 => I[p] # 0
  BY <1>1, <1>5, MergePixelKeeps
<1>7. merge_r_i' \in 0 .. Rows - 1 /\ at' \in Nat /\ at' # 0
  <2>1. Rows \in Nat \ {0} /\ merge_r_i \in 0 .. Rows - 1
    BY <1>1, CallTyped DEF LTyped
  <2>2. (merge_r_i + 1) % Rows \in 0 .. Rows - 1
    <3>1. merge_r_i + 1 \in Int
      BY <2>1
    <3> QED BY <2>1, <3>1
  <2> QED BY <1>1, <2>2
<1>8. LTyped'
  BY <1>1, <1>6, <1>7, SameCall DEF LTyped
<1>9. SlicePlace'
  BY <1>1, SameCall DEF LInv, SlicePlace
<1>10. \A p \in Pixel' : L'[p] # 0 => I'[p] # 0
  BY <1>1, <1>6, SameCall
<1>11. \A k \in SliceStart' : state'[k] = "done"
  BY <1>1, SameCall DEF LInv
<1> QED BY <1>1, <1>6, <1>7, <1>8, <1>9, <1>10, <1>11 DEF LInv

LEMMA StutterKeeps ==
  ASSUME LInv, UNCHANGED vars
  PROVE  LInv'
<1>1. /\ call' = call /\ L' = L /\ P' = P /\ state' = state /\ c_i' = c_i /\ m_r_i' = m_r_i
      /\ lunique' = lunique /\ label_data' = label_data /\ phase' = phase /\ at' = at
      /\ merge_r_i' = merge_r_i
  BY DEF vars
<1>2. LTyped' /\ SlicePlace'
  BY <1>1, SameCall DEF LInv, LTyped, SlicePlace
<1>3. \A k \in SliceStart : SliceForest(k) => SliceForest(k)'
  BY <1>1, SameCall DEF SliceForest, Own, Label, Polar
<1>4. WholeForest => WholeForest'
  <2> SUFFICES ASSUME WholeForest PROVE WholeForest'
    OBVIOUS
  <2>1. \A t : AllIssued(t)' = AllIssued(t)
    BY <1>1, SameCall DEF AllIssued, Issued
  <2>2. \A t \in Sign : ForestOn(P'[t], AllIssued(t)')
    BY <1>1, <2>1 DEF WholeForest
  <2>3. \A p \in Pixel' : L'[p] # 0 => Label(p)' \in AllIssued(Polar(L[p]))'
    <3> TAKE p \in Pixel'
    <3>1. Polar(L[p])' = Polar(L[p]) /\ Label(p)' = Label(p)
      BY <1>1 DEF Polar, Label
    <3>2. AllIssued(Polar(L[p]))' = AllIssued(Polar(L[p]))
      BY <1>1, <3>1, SameCall DEF AllIssued, Issued
    <3> QED BY <1>1, <3>1, <3>2, SameCall DEF WholeForest
  <2> QED BY <2>2, <2>3 DEF WholeForest
<1> QED BY <1>1, <1>2, <1>3, <1>4, SameCall DEF LInv

------------------------------------------------------------------------------
(***************************************************************************)
(* How many labels a slice hands out.                                      *)
(***************************************************************************)

\* The pixel in row q[2] of column q[1] of the sky.
At(q) == <<q[2], m_c_i(q[1])>>

\* The pixels of slice k, and those of them the scan goes through before it
\* comes to row r of column c.
SlicePixels(k) == Columns(k) \X (0 .. Rows - 1)
Before(q, c, r) == q[1] < c \/ (q[1] = c /\ q[2] < r)

\* The pixels of polarity s for which slice k may need a new label: the scan
\* meets none of the polarity above it or on its left.
Beginnings(k, s) ==
  {q \in SlicePixels(k) :
     /\ Polarity(At(q)) = s
     /\ \/ q[2] = 0
        \/ ~ FftShift /\ q[2] = rshift
        \/ Polarity(At(<<q[1], q[2] - 1>>)) # s
     /\ \/ q[1] = k
        \/ Polarity(At(<<q[1] - 1, q[2]>>)) # s}

\* Every slice has a label for each of them, besides the element it reserves.
RoomForLabels ==
  \A k \in SliceStart, s \in Sign :
    lunique_start(k) + 1 + Cardinality(Beginnings(k, s)) <= lunique_start(SliceEnd(k))

\* Those the scan has met when it comes to row r of column c.
BeginningsMet(k, s, c, r) == {q \in Beginnings(k, s) : Before(q, c, r)}

\* The scan has labelled what it has been through, with no more labels than it
\* has met beginnings.
Counted(k, s, c, r) ==
  /\ lunique[k][s] <= lunique_start(k) + 1 + Cardinality(BeginningsMet(k, s, c, r))
  /\ \A q \in SlicePixels(k) :
       Before(q, c, r) /\ Polarity(At(q)) = s => s * L[At(q)] > 0

SliceCounted(k) ==
  /\ state[k] = "new" => m_r_i[k] = 0
  /\ state[k] = "new" => c_i[k] = k
  /\ state[k] = "scan" =>
       \A s \in Sign, c \in Columns(k), r \in 0 .. Rows :
         c = c_i[k] /\ r = m_r_i[k] => Counted(k, s, c, r)
  /\ state[k] = "done" => \A s \in Sign : lunique[k][s] <= lunique_start(SliceEnd(k))

\* The inductive invariant, for calls with room for the labels.
CInv == LInv /\ \A k \in SliceStart : SliceCounted(k)

LEMMA SameCounts ==
  ASSUME call' = call
  PROVE  /\ \A p : Polarity(p)' = Polarity(p)
         /\ \A q : At(q)' = At(q) /\ Polarity(At(q))' = Polarity(At(q))
         /\ \A k : SlicePixels(k)' = SlicePixels(k)
         /\ \A k, s : Beginnings(k, s)' = Beginnings(k, s)
         /\ \A k, s, c, r : BeginningsMet(k, s, c, r)' = BeginningsMet(k, s, c, r)
<1>1. I' = I /\ FindNegative' = FindNegative /\ FftShift' = FftShift /\ rshift' = rshift
  BY DEF I, FindNegative, FftShift, rshift, Rows
<1>2. \A p : Polarity(p)' = Polarity(p)
  BY <1>1 DEF Polarity
<1>3. \A q : At(q)' = At(q)
  BY SameCall DEF At
<1>4. \A k : SlicePixels(k)' = SlicePixels(k)
  BY SameCall DEF SlicePixels
<1>7. \A q : Polarity(At(q))' = Polarity(At(q))
  BY <1>1, SameCall DEF Polarity, At
<1>5. \A k, s : Beginnings(k, s)' = Beginnings(k, s)
  BY <1>1, <1>4, <1>7 DEF Beginnings
<1>6. \A k, s, c, r : BeginningsMet(k, s, c, r)' = BeginningsMet(k, s, c, r)
  BY <1>5 DEF BeginningsMet, Before
<1> QED BY <1>2, <1>3, <1>4, <1>5, <1>6, <1>7

LEMMA SlicePixelStored ==
  ASSUME call \in Calls, NEW k \in SliceStart, NEW q \in SlicePixels(k)
  PROVE  At(q) \in Pixel /\ q[1] \in Columns(k) /\ q[2] \in 0 .. Rows - 1 /\ q = <<q[1], q[2]>>
<1>1. q[1] \in Columns(k) /\ q[2] \in 0 .. Rows - 1 /\ q = <<q[1], q[2]>>
  BY DEF SlicePixels
<1>2. m_c_i(q[1]) \in 0 .. Cols - 1
  BY <1>1, SliceEnds, ColumnStored
<1> QED BY <1>1, <1>2 DEF At, Pixel

(***************************************************************************)
(* The number of beginnings met grows as the scan goes on.                 *)
(***************************************************************************)
LEMMA MeetBeginnings ==
  ASSUME call \in Calls, NEW k \in SliceStart, NEW s \in Sign, NEW c \in Int, NEW r \in Int
  PROVE  /\ Cardinality(Beginnings(k, s)) \in Nat
         /\ Cardinality(BeginningsMet(k, s, c, r)) \in Nat
         /\ Cardinality(BeginningsMet(k, s, c, r)) <= Cardinality(Beginnings(k, s))
         /\ Cardinality(BeginningsMet(k, s, c, r)) <= Cardinality(BeginningsMet(k, s, c, r + 1))
         /\ <<c, r>> \in Beginnings(k, s) =>
              Cardinality(BeginningsMet(k, s, c, r)) + 1
                <= Cardinality(BeginningsMet(k, s, c, r + 1))
         /\ Cardinality(BeginningsMet(k, s, c, Rows))
              <= Cardinality(BeginningsMet(k, s, c + 1, 0))
<1> DEFINE B        == Beginnings(k, s)
           Met(d, u) == BeginningsMet(k, s, d, u)
<1>1. k \in Nat /\ SliceEnd(k) \in Int /\ Rows \in Nat
  <2>1. SliceEnd(k) \in k + 1 .. Cols /\ k \in Nat /\ Cols \in Nat /\ Rows \in Nat
    BY SliceEnds, CallTyped
  <2> QED BY <2>1
<1>2. IsFiniteSet(SlicePixels(k))
  <2>1. IsFiniteSet(Columns(k)) /\ IsFiniteSet(0 .. Rows - 1)
    BY <1>1, FS_Interval DEF Columns
  <2> QED BY <2>1, FS_Product DEF SlicePixels
<1>3. IsFiniteSet(B) /\ B \subseteq SlicePixels(k)
  <2>1. B \in SUBSET SlicePixels(k)
    BY DEF Beginnings
  <2> QED BY <1>2, <2>1, FS_Subset
<1>4. \A q \in B : q[1] \in Int /\ q[2] \in Int /\ q[2] < Rows /\ q = <<q[1], q[2]>>
  <2> TAKE q \in B
  <2>1. q[1] \in Columns(k) /\ q[2] \in 0 .. Rows - 1 /\ q = <<q[1], q[2]>>
    BY <1>3, SlicePixelStored
  <2> QED BY <1>1, <2>1 DEF Columns
<1>5. \A d, u : Met(d, u) = {q \in B : Before(q, d, u)}
  BY DEF BeginningsMet
<1> HIDE DEF B, Met
<1>6. \A d, u : Met(d, u) \in SUBSET B
  BY <1>5
<1>7. \A d, u : IsFiniteSet(Met(d, u)) /\ Cardinality(Met(d, u)) \in Nat
                  /\ Cardinality(Met(d, u)) <= Cardinality(B)
  BY <1>3, <1>6, FS_Subset, FS_CardinalityType
<1>8. Cardinality(B) \in Nat
  BY <1>3, FS_CardinalityType
<1>9. Met(c, r) \in SUBSET Met(c, r + 1)
  BY <1>4, <1>5 DEF Before
<1>10. Cardinality(Met(c, r)) <= Cardinality(Met(c, r + 1))
  BY <1>7, <1>9, FS_Subset
<1>11. ASSUME <<c, r>> \in B
       PROVE  Cardinality(Met(c, r)) + 1 <= Cardinality(Met(c, r + 1))
  <2>1. <<c, r>> \notin Met(c, r) /\ <<c, r>> \in Met(c, r + 1)
    BY <1>5, <1>11 DEF Before
  <2>2. Met(c, r) \union {<<c, r>>} \in SUBSET Met(c, r + 1)
    BY <1>9, <2>1
  <2>3. Cardinality(Met(c, r) \union {<<c, r>>}) = Cardinality(Met(c, r)) + 1
    BY <1>7, <2>1, FS_AddElement
  <2>4. Cardinality(Met(c, r) \union {<<c, r>>}) <= Cardinality(Met(c, r + 1))
    BY <1>7, <2>2, FS_Subset
  <2> QED BY <2>3, <2>4
<1>12. Cardinality(Met(c, Rows)) <= Cardinality(Met(c + 1, 0))
  <2>1. Met(c, Rows) \in SUBSET Met(c + 1, 0)
    BY <1>4, <1>5 DEF Before
  <2> QED BY <1>7, <2>1, FS_Subset
<1> QED BY <1>7, <1>8, <1>10, <1>11, <1>12 DEF B, Met

(***************************************************************************)
(* A slice with room for its labels stays within its block.                *)
(***************************************************************************)
LEMMA CountedFit ==
  ASSUME LTyped, RoomForLabels, NEW k \in SliceStart, NEW s \in Sign,
         NEW c \in Int, NEW r \in Int, Counted(k, s, c, r)
  PROVE  lunique[k][s] <= lunique_start(SliceEnd(k))
<1>1. lunique[k][s] \in Nat /\ lunique_start(k) \in Nat /\ lunique_start(SliceEnd(k)) \in Nat
  BY Blocks DEF LTyped
<1>2. /\ Cardinality(Beginnings(k, s)) \in Nat
      /\ Cardinality(BeginningsMet(k, s, c, r)) \in Nat
      /\ Cardinality(BeginningsMet(k, s, c, r)) <= Cardinality(Beginnings(k, s))
  BY MeetBeginnings DEF LTyped
<1>3. lunique_start(k) + 1 + Cardinality(Beginnings(k, s)) <= lunique_start(SliceEnd(k))
  BY DEF RoomForLabels
<1> QED BY <1>1, <1>2, <1>3 DEF Counted

LEMMA CountsFit ==
  ASSUME CInv, RoomForLabels
  PROVE  LabelsFitBlock
<1> SUFFICES ASSUME NEW k \in SliceStart, NEW s \in Sign
             PROVE  lunique[k][s] <= lunique_start(SliceEnd(k))
  BY DEF LabelsFitBlock
<1>1. LTyped /\ SliceCounted(k) /\ LInv /\ call \in Calls
  BY DEF CInv, LInv, LTyped
<1>2. CASE state[k] = "new"
  <2>1. lunique[k][s] = 0 /\ lunique_start(SliceEnd(k)) \in Nat
    BY <1>1, <1>2, Blocks DEF LInv, SlicePlace
  <2> QED BY <2>1
<1>3. CASE state[k] = "scan"
  <2>1. PICK c \in Columns(k) : c = c_i[k]
    BY <1>1 DEF LInv, SlicePlace
  <2>2. PICK r \in 0 .. Rows : r = m_r_i[k]
    BY <1>1 DEF LTyped
  <2>3. Counted(k, s, c, r)
    BY <1>1, <1>3, <2>1, <2>2 DEF SliceCounted
  <2>4. c \in Int /\ r \in Int
    BY <1>1, <2>1, <2>2, SliceEnds
  <2> QED BY <1>1, <2>3, <2>4, CountedFit
<1>4. CASE state[k] = "done"
  BY <1>1, <1>4 DEF SliceCounted
<1> QED BY <1>1, <1>2, <1>3, <1>4 DEF LTyped

(***************************************************************************)
(* A new label is due only at a beginning: had the scan met the polarity   *)
(* above the pixel or on its left, it would have labelled it.              *)
(***************************************************************************)
LEMMA NewLabelBegins ==
  ASSUME LInv, NEW k \in SliceStart, state[k] = "scan", NEW s \in Sign,
         NEW c \in Columns(k), c = c_i[k], NEW r \in 0 .. Rows - 1, r = m_r_i[k],
         Counted(k, s, c, r), Polarity(At(<<c, r>>)) = s, Decision(k, s) = <<>>
  PROVE  <<c, r>> \in Beginnings(k, s)
<1> DEFINE nb    == ScanNeighbours(k, s)
           q     == <<c, r>>
           above == r # 0 /\ (FftShift \/ r # rshift)
<1>1. /\ call \in Calls /\ c \in 0 .. Cols - 1 /\ k \in Nat /\ Rows \in Nat /\ q \in SlicePixels(k)
      /\ SliceEnd(k) \in Int
  <2>1. call \in Calls
    BY DEF LInv, LTyped
  <2>2. SliceEnd(k) \in k + 1 .. Cols /\ Cols \in Nat /\ k \in Nat /\ Rows \in Nat
    BY <2>1, SliceEnds, CallTyped
  <2>3. c \in 0 .. Cols - 1
    BY <2>1, SliceEnds
  <2>4. SliceEnd(k) \in Int
    BY <2>2
  <2> QED BY <2>1, <2>2, <2>3, <2>4 DEF SlicePixels
<1>2. /\ nb.left = Connected(s, c # k, r, m_c_i_prev(m_c_i(c)))
      /\ nb.top = Connected(s, above, r - 1, m_c_i(c))
  BY DEF ScanNeighbours, LeftCol_valid
<1>3. (nb.left = 0 \/ nb.left \in Own(k, s)) /\ (nb.top = 0 \/ nb.top \in Own(k, s))
      /\ (nb.topleft = 0 \/ nb.topleft \in Own(k, s))
      /\ (nb.bottomleft = 0 \/ nb.bottomleft \in Own(k, s))
  <2>1. m_r_i[k] < Rows
    BY <1>1
  <2> QED BY <2>1, NeighboursOwn
<1>4. nb.left = 0 /\ nb.top = 0
  <2>1. \A x \in Own(k, s) : x \in Nat /\ x > 0
    <3>1. lunique_start(k) \in Nat /\ Plength \in Nat
      BY <1>1, Blocks, CallTyped
    <3> QED BY <3>1 DEF Own
  <2>2. Decision(k, s) = IF Conn8 THEN Decision8(nb) ELSE Decision4(nb)
    BY DEF Decision
  <2> HIDE DEF nb
  <2>3. /\ (nb.left = 0 \/ nb.left > 0) /\ (nb.top = 0 \/ nb.top > 0)
        /\ (nb.topleft = 0 \/ nb.topleft > 0) /\ (nb.bottomleft = 0 \/ nb.bottomleft > 0)
    BY <1>3, <2>1
  <2>4. Decision4(nb) = <<>> => nb.left = 0 /\ nb.top = 0
    BY <2>3 DEF Decision4
  <2>5. Decision8(nb) = <<>> => nb.left = 0 /\ nb.top = 0
    BY <2>3 DEF Decision8
  <2> QED BY <2>2, <2>4, <2>5
<1>5. above => Polarity(At(<<c, r - 1>>)) # s
  <2> SUFFICES ASSUME above, Polarity(At(<<c, r - 1>>)) = s PROVE FALSE
    OBVIOUS
  <2>1. <<c, r - 1>> \in SlicePixels(k) /\ Before(<<c, r - 1>>, c, r)
    BY <1>1 DEF SlicePixels, Before
  <2>2. s * L[At(<<c, r - 1>>)] > 0
    BY <2>1 DEF Counted
  <2>3. At(<<c, r - 1>>) = <<r - 1, m_c_i(c)>>
    BY DEF At
  <2>4. nb.top > 0
    BY <1>2, <2>2, <2>3 DEF Connected
  <2> QED BY <1>4, <2>4
<1>6. c # k => Polarity(At(<<c - 1, r>>)) # s
  <2> SUFFICES ASSUME c # k, Polarity(At(<<c - 1, r>>)) = s PROVE FALSE
    OBVIOUS
  <2>1. c - 1 \in Columns(k) /\ c # 0
    BY <1>1 DEF Columns
  <2>2. <<c - 1, r>> \in SlicePixels(k) /\ Before(<<c - 1, r>>, c, r)
    BY <1>1, <2>1 DEF SlicePixels, Before
  <2>3. s * L[At(<<c - 1, r>>)] > 0
    BY <2>2 DEF Counted
  <2>4. At(<<c - 1, r>>) = <<r, m_c_i_prev(m_c_i(c))>>
    BY <1>1, <2>1, ColumnStored DEF At
  <2>5. nb.left > 0
    BY <1>2, <2>3, <2>4 DEF Connected
  <2> QED BY <1>4, <2>5
<1> QED
  BY <1>1, <1>5, <1>6 DEF Beginnings

(***************************************************************************)
(* Once the scan has come from row r to the next, it has labelled the      *)
(* pixel, and counted it if it began there.                                *)
(***************************************************************************)
LEMMA CountRow ==
  ASSUME LInv, NEW k \in SliceStart, SliceCounted(k), NextRow(k),
         NEW c \in Columns(k), c = c_i[k], NEW r \in 0 .. Rows - 1, r = m_r_i[k],
         \A t \in Sign : \/ lunique'[k][t] = lunique[k][t]
                         \/ /\ lunique'[k][t] = lunique[k][t] + 1
                            /\ <<c, r>> \in Beginnings(k, t),
         \A q \in SlicePixels(k) : q # <<c, r>> => L'[At(q)] = L[At(q)],
         \A t \in Sign : Polarity(At(<<c, r>>)) = t => t * L'[At(<<c, r>>)] > 0
  PROVE  SliceCounted(k)'
<1>1. /\ state[k] = "scan" /\ m_r_i' = [m_r_i EXCEPT ![k] = m_r_i[k] + 1]
      /\ call' = call /\ state' = state /\ c_i' = c_i
  BY DEF NextRow
<1>2. LTyped /\ call \in Calls
  BY DEF LInv, LTyped
<1>3. m_r_i'[k] = r + 1 /\ c_i'[k] = c
  BY <1>1, <1>2 DEF LTyped
<1>4. Rows \in Nat /\ r \in 0 .. Rows /\ c \in Int /\ r \in Int
  <2>1. Rows \in Nat /\ Columns(k) \subseteq 0 .. Cols - 1
    BY <1>2, CallTyped, SliceEnds
  <2> QED BY <2>1
<1>5. \A t \in Sign : Counted(k, t, c, r)
  BY <1>1, <1>4 DEF SliceCounted
<1>6. ASSUME NEW s \in Sign, NEW d \in Columns(k), NEW u \in 0 .. Rows, d = c, u = r + 1
      PROVE  Counted(k, s, d, u)'
  <2>1. lunique'[k][s] <= lunique_start(k) + 1 + Cardinality(BeginningsMet(k, s, d, u))
    <3>1. /\ Cardinality(BeginningsMet(k, s, c, r)) \in Nat
          /\ Cardinality(BeginningsMet(k, s, c, r + 1)) \in Nat
          /\ Cardinality(BeginningsMet(k, s, c, r)) <= Cardinality(BeginningsMet(k, s, c, r + 1))
          /\ <<c, r>> \in Beginnings(k, s) =>
               Cardinality(BeginningsMet(k, s, c, r)) + 1
                 <= Cardinality(BeginningsMet(k, s, c, r + 1))
      <4>1. c \in Int /\ r \in Int /\ r + 1 \in Int /\ call \in Calls
        BY <1>2, <1>4
      <4>2. Cardinality(BeginningsMet(k, s, c, r + 1)) \in Nat
        BY <4>1, MeetBeginnings
      <4> QED BY <4>1, <4>2, MeetBeginnings
    <3>2. lunique[k][s] \in Nat /\ lunique_start(k) \in Nat
      BY <1>2, Blocks DEF LTyped
    <3>3. lunique[k][s] <= lunique_start(k) + 1 + Cardinality(BeginningsMet(k, s, c, r))
      BY <1>5 DEF Counted
    <3>4. \/ lunique'[k][s] = lunique[k][s]
          \/ lunique'[k][s] = lunique[k][s] + 1 /\ <<c, r>> \in Beginnings(k, s)
      OBVIOUS
    <3>5. lunique'[k][s] <= lunique_start(k) + 1 + Cardinality(BeginningsMet(k, s, c, r + 1))
      BY <3>1, <3>2, <3>3, <3>4
    <3> QED BY <1>6, <3>5
  <2>2. ASSUME NEW q \in SlicePixels(k), Before(q, d, u), Polarity(At(q)) = s
        PROVE  s * L'[At(q)] > 0
    <3>1. CASE q = <<c, r>>
      BY <2>2, <3>1
    <3>2. CASE q # <<c, r>>
      <4>1. q[1] \in Columns(k) /\ q[2] \in 0 .. Rows - 1 /\ q = <<q[1], q[2]>>
        BY <1>2, SlicePixelStored
      <4>2. Before(q, c, r)
        BY <1>4, <1>6, <2>2, <3>2, <4>1 DEF Before
      <4>3. s * L[At(q)] > 0
        BY <1>5, <2>2, <4>2 DEF Counted
      <4> QED BY <3>2, <4>3
    <3> QED BY <3>1, <3>2
  <2>3. \A q \in SlicePixels(k)' : Before(q, d, u) /\ Polarity(At(q))' = s => s * L'[At(q)'] > 0
    BY <1>1, <2>2, SameCounts
  <2>4. lunique'[k][s] <= lunique_start(k)' + 1 + Cardinality(BeginningsMet(k, s, d, u)')
    BY <1>1, <2>1, SameCall, SameCounts
  <2> QED BY <2>3, <2>4 DEF Counted
<1>7. \A s \in Sign, d \in Columns(k)', u \in 0 .. Rows' :
        d = c_i'[k] /\ u = m_r_i'[k] => Counted(k, s, d, u)'
  BY <1>1, <1>3, <1>6, SameCall
<1> QED BY <1>1, <1>7 DEF SliceCounted

(***************************************************************************)
(* The same for the pixels a step labels.                                  *)
(***************************************************************************)
LEMMA CountPixel ==
  ASSUME LInv, NEW k \in SliceStart, SliceCounted(k), NextRow(k), NEW s \in Sign,
         Polarity(Here(k)) = s, NEW x \in Nat \ {0},
         L' = [L EXCEPT ![Here(k)] = s * x],
         \A t \in Sign : \/ lunique'[k][t] = lunique[k][t]
                         \/ /\ lunique'[k][t] = lunique[k][t] + 1
                            /\ t = s /\ Decision(k, s) = <<>>
  PROVE  SliceCounted(k)'
<1>1. LTyped /\ call \in Calls /\ state[k] = "scan" /\ m_r_i[k] < Rows
  BY DEF LInv, LTyped, NextRow
<1>2. PICK c \in Columns(k) : c = c_i[k]
  BY DEF LInv, SlicePlace
<1>3. PICK r \in 0 .. Rows - 1 : r = m_r_i[k]
  BY <1>1, HerePixel
<1>4. Here(k) = At(<<c, r>>)
  BY <1>2, <1>3 DEF Here, At
<1>5. Counted(k, s, c, r)
  <2>1. r \in 0 .. Rows
    BY <1>1, CallTyped
  <2> QED BY <1>1, <1>2, <1>3, <2>1 DEF SliceCounted
<1>6. Decision(k, s) = <<>> => <<c, r>> \in Beginnings(k, s)
  BY <1>1, <1>2, <1>3, <1>4, <1>5, NewLabelBegins
<1>7. \A t \in Sign : \/ lunique'[k][t] = lunique[k][t]
                      \/ /\ lunique'[k][t] = lunique[k][t] + 1
                         /\ <<c, r>> \in Beginnings(k, t)
  BY <1>6
<1>8. \A q \in SlicePixels(k) : q # <<c, r>> => L'[At(q)] = L[At(q)]
  <2> TAKE q \in SlicePixels(k)
  <2>1. /\ q[1] \in 0 .. Cols - 1 /\ q[2] \in 0 .. Rows - 1 /\ q = <<q[1], q[2]>>
        /\ At(q) \in Pixel /\ c \in 0 .. Cols - 1
    BY <1>1, SlicePixelStored, SliceEnds
  <2>2. At(q) = At(<<c, r>>) => q[1] = c /\ q[2] = r
    BY <1>1, <2>1, DifferentColumns DEF At
  <2> QED BY <1>1, <1>4, <2>1, <2>2 DEF LTyped
<1>9. s * L'[At(<<c, r>>)] > 0
  <2>1. At(<<c, r>>) \in Pixel
    BY <1>1, SlicePixelStored DEF SlicePixels
  <2>2. L'[At(<<c, r>>)] = s * x
    BY <1>1, <1>4, <2>1 DEF LTyped
  <2>3. s * (s * x) > 0
    BY DEF Sign
  <2> QED BY <2>2, <2>3
<1>10. \A t \in Sign : Polarity(At(<<c, r>>)) = t => t * L'[At(<<c, r>>)] > 0
  BY <1>4, <1>9
<1> QED BY <1>2, <1>3, <1>7, <1>8, <1>10, CountRow

LEMMA OwnPositive ==
  ASSUME LTyped, NEW k \in SliceStart, NEW s \in Sign, NEW x \in Own(k, s)
  PROVE  x \in Nat \ {0}
<1>1. lunique_start(k) \in Nat /\ Plength \in Nat
  BY Blocks, CallTyped DEF LTyped
<1> QED BY <1>1 DEF Own

LEMMA RowStepCounts ==
  ASSUME LInv, LabelsFitBlock, NEW k \in SliceStart, SliceCounted(k),
         \/ SkipPixel(k)
         \/ \E s \in Sign : NewLabel(k, s) \/ CopyLabel(k, s) \/ MergeLabels(k, s)
  PROVE  SliceCounted(k)'
<1>1. LTyped /\ call \in Calls /\ state[k] = "scan" /\ m_r_i[k] < Rows /\ NextRow(k)
  BY DEF LInv, LTyped, NextRow, SkipPixel, NewLabel, CopyLabel, MergeLabels
<1>2. CASE SkipPixel(k)
  <2>1. PICK c \in Columns(k) : c = c_i[k]
    BY DEF LInv, SlicePlace
  <2>2. PICK r \in 0 .. Rows - 1 : r = m_r_i[k]
    BY <1>1, HerePixel
  <2>3. Here(k) = At(<<c, r>>)
    BY <2>1, <2>2 DEF Here, At
  <2>4. L' = L /\ lunique' = lunique /\ Polarity(Here(k)) = 0
    BY <1>2 DEF SkipPixel
  <2>5. \A t \in Sign : ~ (Polarity(At(<<c, r>>)) = t)
    BY <2>3, <2>4 DEF Sign
  <2> QED BY <1>1, <2>1, <2>2, <2>4, <2>5, CountRow
<1>3. ASSUME NEW s \in Sign, NewLabel(k, s) PROVE SliceCounted(k)'
  <2>1. PICK x : x = lunique[k][s]
    OBVIOUS
  <2>2. /\ Polarity(Here(k)) = s /\ Decision(k, s) = <<>>
        /\ L' = [L EXCEPT ![Here(k)] = s * x]
        /\ lunique' = [lunique EXCEPT ![k] = [lunique[k] EXCEPT ![s] = x + 1]]
    BY <1>1, <1>3, <2>1 DEF NewLabel, LTyped
  <2>3. x \in Nat \ {0}
    <3>1. lunique_start(k) \in Nat /\ x \in Nat
      BY <1>1, <2>1, Blocks DEF LTyped
    <3>2. x > lunique_start(k)
      BY <1>1, <2>1 DEF LInv, SlicePlace
    <3> QED BY <3>1, <3>2
  <2>4. \A t \in Sign : \/ lunique'[k][t] = lunique[k][t]
                        \/ /\ lunique'[k][t] = lunique[k][t] + 1
                           /\ t = s /\ Decision(k, s) = <<>>
    BY <1>1, <2>1, <2>2 DEF LTyped
  <2> QED BY <1>1, <2>2, <2>3, <2>4, CountPixel
<1>4. ASSUME NEW s \in Sign, CopyLabel(k, s) PROVE SliceCounted(k)'
  <2>1. PICK x : x = Decision(k, s)[1]
    OBVIOUS
  <2>2. /\ Polarity(Here(k)) = s /\ Len(Decision(k, s)) = 1
        /\ L' = [L EXCEPT ![Here(k)] = s * x] /\ lunique' = lunique
    BY <1>4, <2>1 DEF CopyLabel
  <2>3. x \in Nat \ {0}
    BY <1>1, <2>1, <2>2, DecisionOwn, OwnPositive
  <2> QED BY <1>1, <2>2, <2>3, CountPixel
<1>5. ASSUME NEW s \in Sign, MergeLabels(k, s) PROVE SliceCounted(k)'
  <2>1. PICK x : x = set_union(P[s], Decision(k, s)[1], Decision(k, s)[2]).root
    OBVIOUS
  <2>2. /\ Polarity(Here(k)) = s /\ Len(Decision(k, s)) = 2
        /\ L' = [L EXCEPT ![Here(k)] = s * x] /\ lunique' = lunique
    BY <1>5, <2>1 DEF MergeLabels
  <2>3. x \in Nat \ {0}
    <3>1. x \in Own(k, s)
      BY <1>1, <2>1, <2>2, MergedRoot DEF GoodUnion
    <3> QED BY <1>1, <3>1, OwnPositive
  <2> QED BY <1>1, <2>2, <2>3, CountPixel
<1> QED BY <1>2, <1>3, <1>4, <1>5

LEMMA StartCounts ==
  ASSUME LInv, NEW k \in SliceStart, SliceCounted(k), StartSlice(k)
  PROVE  SliceCounted(k)'
<1>1. /\ state[k] = "new" /\ call' = call /\ c_i' = c_i /\ m_r_i' = m_r_i
      /\ lunique' = [lunique EXCEPT ![k] = [s \in Sign |-> lunique_start(k) + 1]]
      /\ state' = [state EXCEPT ![k] = "scan"]
  BY DEF StartSlice
<1>2. LTyped /\ call \in Calls
  BY DEF LInv, LTyped
<1>3. /\ state'[k] = "scan" /\ c_i'[k] = k /\ m_r_i'[k] = 0
      /\ \A s \in Sign : lunique'[k][s] = lunique_start(k) + 1
  BY <1>1, <1>2 DEF LTyped, SliceCounted
<1>4. Rows \in Nat /\ k \in Nat /\ SliceEnd(k) \in Int /\ lunique_start(k) \in Nat
  <2>1. Rows \in Nat /\ k \in Nat /\ Cols \in Nat /\ SliceEnd(k) \in k + 1 .. Cols
        /\ lunique_start(k) \in Nat
    BY <1>2, CallTyped, SliceEnds, Blocks
  <2> QED BY <2>1
<1>5. ASSUME NEW s \in Sign, NEW d \in Columns(k), NEW u \in 0 .. Rows, d = k, u = 0
      PROVE  Counted(k, s, d, u)'
  <2>1. Cardinality(BeginningsMet(k, s, d, u)) \in Nat
    <3>1. d \in Int /\ u \in Int
      BY <1>4, <1>5
    <3> QED BY <1>2, <3>1, MeetBeginnings
  <2>2. lunique'[k][s] <= lunique_start(k)' + 1 + Cardinality(BeginningsMet(k, s, d, u)')
    <3>1. /\ lunique_start(k)' = lunique_start(k)
          /\ BeginningsMet(k, s, d, u)' = BeginningsMet(k, s, d, u)
      BY <1>1, SameCall, SameCounts
    <3> QED BY <1>3, <1>4, <2>1, <3>1
  <2>3. \A q \in SlicePixels(k) : ~ Before(q, d, u)
    BY <1>2, <1>4, <1>5, SlicePixelStored DEF Before, Columns
  <2>4. \A q \in SlicePixels(k)' : ~ Before(q, d, u)
    BY <1>1, <2>3, SameCounts
  <2> QED BY <2>2, <2>4 DEF Counted
<1>6. \A s \in Sign, d \in Columns(k)', u \in 0 .. Rows' :
        d = c_i'[k] /\ u = m_r_i'[k] => Counted(k, s, d, u)'
  BY <1>1, <1>3, <1>5, SameCall
<1> QED BY <1>3, <1>6 DEF SliceCounted

(***************************************************************************)
(* The row border merging leaves every label of the slice its sign.        *)
(***************************************************************************)
LEMMA RowBorderSigns ==
  ASSUME LInv, LabelsFitBlock, SeamClear, NEW k \in SliceStart, state[k] = "scan",
         RowBorder(m_c_i(c_i[k])), call' = call, lunique' = lunique,
         NEW q \in SlicePixels(k), NEW t \in Sign, t * L[At(q)] > 0
  PROVE  t * L'[At(q)] > 0
<1>1. LTyped /\ SliceForest(k)
  BY Running DEF LInv
<1>2. PICK c \in Columns(k) : c = c_i[k]
  BY DEF LInv, SlicePlace
<1>3. PICK m : m = m_c_i(c) /\ RowBorder(m)
  BY <1>2
<1>4. CASE L' = L
  BY <1>4
<1>5. CASE ~ FftShift /\ L[<<0, m>>] # 0
  <2>1. PICK s \in Sign : s = Polar(L[<<0, m>>])
    BY DEF Polar, Sign
  <2>2. PICK x, F : Labelled(k, c, 0, s, x, F)
    BY <1>1, <1>3, <1>5, <2>1, RowBorderLabels
  <2>3. L' = [L EXCEPT ![<<0, m>>] = s * x] /\ x \in Own(k, s)'
    BY <1>3, <2>2 DEF Labelled
  <2>4. x \in Nat \ {0}
    <3>1. Own(k, s)' = Own(k, s)
      BY SameCall DEF Own
    <3> QED BY <1>1, <2>3, <3>1, OwnPositive
  <2>5. At(q) \in Pixel /\ L[At(q)] \in Int
    BY <1>1, SlicePixelStored DEF LTyped
  <2>6. CASE At(q) = <<0, m>>
    <3>1. t = s
      BY <2>1, <2>5, <2>6 DEF Polar, Sign
    <3>2. L'[At(q)] = s * x
      BY <1>1, <2>3, <2>5, <2>6 DEF LTyped
    <3>3. s * (s * x) > 0
      BY <2>4 DEF Sign
    <3> QED BY <3>1, <3>2, <3>3
  <2>7. CASE At(q) # <<0, m>>
    <3>1. L'[At(q)] = L[At(q)]
      BY <1>1, <2>3, <2>5, <2>7 DEF LTyped
    <3> QED BY <3>1
  <2> QED BY <2>6, <2>7
<1> QED
  BY <1>3, <1>4, <1>5 DEF RowBorder

LEMMA EndColumnCounts ==
  ASSUME LInv, LabelsFitBlock, SeamClear, RoomForLabels, NEW k \in SliceStart,
         SliceCounted(k), EndColumn(k)
  PROVE  SliceCounted(k)'
<1>1. /\ state[k] = "scan" /\ m_r_i[k] = Rows /\ RowBorder(m_c_i(c_i[k]))
      /\ call' = call /\ lunique' = lunique
  BY DEF EndColumn
<1>2. LTyped /\ call \in Calls
  BY DEF LInv, LTyped
<1>3. PICK c \in Columns(k) : c = c_i[k]
  BY DEF LInv, SlicePlace
<1>4. Rows \in Nat \ {0} /\ Rows \in 0 .. Rows /\ Rows \in Int /\ c \in Int /\ k \in Int
  <2>1. Rows \in Nat \ {0} /\ Columns(k) \subseteq 0 .. Cols - 1 /\ k \in Nat
    BY <1>2, CallTyped, SliceEnds
  <2> QED BY <2>1
<1>5. \A t \in Sign : Counted(k, t, c, Rows)
  BY <1>1, <1>3, <1>4 DEF SliceCounted
<1>6. CASE /\ c_i' = [c_i EXCEPT ![k] = c_i[k] + 1] /\ m_r_i' = [m_r_i EXCEPT ![k] = 0]
           /\ state' = state
  <2>1. c_i'[k] = c + 1 /\ m_r_i'[k] = 0
    BY <1>2, <1>3, <1>6 DEF LTyped
  <2>2. ASSUME NEW s \in Sign, NEW d \in Columns(k), NEW u \in 0 .. Rows, d = c + 1, u = 0
        PROVE  Counted(k, s, d, u)'
    <3>1. lunique'[k][s] <= lunique_start(k)' + 1 + Cardinality(BeginningsMet(k, s, d, u)')
      <4>1. /\ Cardinality(BeginningsMet(k, s, c, Rows)) \in Nat
            /\ Cardinality(BeginningsMet(k, s, c, Rows))
                 <= Cardinality(BeginningsMet(k, s, c + 1, 0))
        BY <1>2, <1>4, MeetBeginnings
      <4>2. Cardinality(BeginningsMet(k, s, c + 1, 0)) \in Nat
        <5>1. c + 1 \in Int /\ 0 \in Int
          BY <1>4
        <5> QED BY <1>2, <5>1, MeetBeginnings
      <4>3. lunique[k][s] <= lunique_start(k) + 1 + Cardinality(BeginningsMet(k, s, c, Rows))
        BY <1>5 DEF Counted
      <4>4. lunique[k][s] \in Nat /\ lunique_start(k) \in Nat
        BY <1>2, Blocks DEF LTyped
      <4>5. lunique[k][s] <= lunique_start(k) + 1 + Cardinality(BeginningsMet(k, s, c + 1, 0))
        BY <4>1, <4>2, <4>3, <4>4
      <4>6. /\ lunique_start(k)' = lunique_start(k)
            /\ BeginningsMet(k, s, d, u)' = BeginningsMet(k, s, c + 1, 0)
        BY <1>1, <2>2, SameCall, SameCounts
      <4> QED BY <1>1, <4>5, <4>6
    <3>2. ASSUME NEW q \in SlicePixels(k), Before(q, d, u), Polarity(At(q)) = s
          PROVE  s * L'[At(q)] > 0
      <4>1. q[1] \in Columns(k) /\ q[2] \in 0 .. Rows - 1 /\ Columns(k) \subseteq 0 .. Cols - 1
            /\ q[1] \in Int /\ q[2] \in Int /\ q[2] < Rows
        <5>1. q[1] \in Columns(k) /\ q[2] \in 0 .. Rows - 1 /\ Columns(k) \subseteq 0 .. Cols - 1
          BY <1>2, SlicePixelStored, SliceEnds
        <5> QED BY <1>4, <5>1
      <4>2. Before(q, c, Rows)
        BY <1>4, <2>2, <3>2, <4>1 DEF Before
      <4>3. s * L[At(q)] > 0
        BY <1>5, <3>2, <4>2 DEF Counted
      <4> QED BY <1>1, <4>3, RowBorderSigns
    <3>3. \A q \in SlicePixels(k)' : Before(q, d, u) /\ Polarity(At(q))' = s => s * L'[At(q)'] > 0
      BY <1>1, <3>2, SameCounts
    <3> QED BY <3>1, <3>3 DEF Counted
  <2>3. \A s \in Sign, d \in Columns(k)', u \in 0 .. Rows' :
          d = c_i'[k] /\ u = m_r_i'[k] => Counted(k, s, d, u)'
    BY <1>1, <2>1, <2>2, SameCall
  <2> QED BY <1>1, <1>6, <2>3 DEF SliceCounted
<1>7. CASE state' = [state EXCEPT ![k] = "done"]
  <2>1. state'[k] = "done"
    BY <1>2, <1>7 DEF LTyped
  <2>2. \A t \in Sign : lunique'[k][t] <= lunique_start(SliceEnd(k))
    BY <1>1, <1>2, <1>4, <1>5, CountedFit
  <2>3. lunique_start(SliceEnd(k))' = lunique_start(SliceEnd(k))
    BY <1>1 DEF lunique_start, SliceEnd, Rows, Cols, SliceStart
  <2> QED BY <2>1, <2>2, <2>3 DEF SliceCounted
<1> QED
  BY <1>6, <1>7 DEF EndColumn

(***************************************************************************)
(* A step of slice k does not disturb the counts of the others.            *)
(***************************************************************************)
LEMMA OtherCounts ==
  ASSUME LInv, NEW k \in SliceStart, SliceOutcome(k),
         NEW j \in SliceStart, j # k, SliceCounted(j)
  PROVE  SliceCounted(j)'
<1>1. /\ LTyped /\ call \in Calls /\ call' = call /\ LocalChange(k)
      /\ state'[j] = state[j] /\ c_i'[j] = c_i[j] /\ m_r_i'[j] = m_r_i[j]
      /\ lunique'[j] = lunique[j]
  BY DEF SliceOutcome, OthersWait, LInv, LTyped
<1>2. \A q \in SlicePixels(j) : L'[At(q)] = L[At(q)]
  <2> TAKE q \in SlicePixels(j)
  <2>1. /\ q[1] \in Columns(j) /\ q[1] \in 0 .. Cols - 1 /\ q[2] \in 0 .. Rows - 1
        /\ q[1] \notin Columns(k)
    BY <1>1, SlicePixelStored, SliceEnds, DifferentSlices
  <2> QED BY <1>1, <2>1 DEF LocalChange, At
<1>3. ASSUME NEW s \in Sign, NEW d \in Columns(j), NEW u \in 0 .. Rows, Counted(j, s, d, u)
      PROVE  Counted(j, s, d, u)'
  <2>1. lunique'[j][s] <= lunique_start(j)' + 1 + Cardinality(BeginningsMet(j, s, d, u)')
    BY <1>1, <1>3, SameCall, SameCounts DEF Counted
  <2>2. \A q \in SlicePixels(j) : Before(q, d, u) /\ Polarity(At(q)) = s => s * L'[At(q)] > 0
    BY <1>2, <1>3 DEF Counted
  <2>3. \A q \in SlicePixels(j)' : Before(q, d, u) /\ Polarity(At(q))' = s => s * L'[At(q)'] > 0
    BY <1>1, <2>2, SameCounts
  <2> QED BY <2>1, <2>3 DEF Counted
<1>4. lunique_start(SliceEnd(j))' = lunique_start(SliceEnd(j))
  BY <1>1 DEF lunique_start, SliceEnd, Rows, Cols, SliceStart
<1>5. state'[j] = "scan" =>
        \A s \in Sign, d \in Columns(j)', u \in 0 .. Rows' :
          d = c_i'[j] /\ u = m_r_i'[j] => Counted(j, s, d, u)'
  BY <1>1, <1>3, SameCall DEF SliceCounted
<1> QED BY <1>1, <1>4, <1>5 DEF SliceCounted

(***************************************************************************)
(* A new label fits the block.                                             *)
(***************************************************************************)
LEMMA NewLabelFits ==
  ASSUME CInv, RoomForLabels, NEW k \in SliceStart, NEW s \in Sign, NewLabel(k, s)
  PROVE  LabelsFitBlock'
<1>1. /\ LInv /\ LTyped /\ call \in Calls /\ SliceCounted(k) /\ NextRow(k)
      /\ state[k] = "scan" /\ m_r_i[k] < Rows /\ call' = call
      /\ Polarity(Here(k)) = s /\ Decision(k, s) = <<>>
      /\ lunique' = [lunique EXCEPT ![k] = [lunique[k] EXCEPT ![s] = lunique[k][s] + 1]]
  BY DEF CInv, LInv, LTyped, NewLabel, NextRow
<1>2. PICK c \in Columns(k) : c = c_i[k]
  BY <1>1 DEF LInv, SlicePlace
<1>3. PICK r \in 0 .. Rows - 1 : r = m_r_i[k]
  BY <1>1, HerePixel
<1>4. r \in 0 .. Rows /\ c \in Int /\ r \in Int /\ r + 1 \in Int
  <2>1. Rows \in Nat /\ Columns(k) \subseteq 0 .. Cols - 1
    BY <1>1, CallTyped, SliceEnds
  <2> QED BY <2>1
<1>5. Counted(k, s, c, r)
  BY <1>1, <1>2, <1>3, <1>4 DEF SliceCounted
<1>6. <<c, r>> \in Beginnings(k, s)
  <2>1. Here(k) = At(<<c, r>>)
    BY <1>2, <1>3 DEF Here, At
  <2> QED BY <1>1, <1>2, <1>3, <1>5, <2>1, NewLabelBegins
<1>7. lunique[k][s] + 1 <= lunique_start(SliceEnd(k))
  <2>1. /\ Cardinality(BeginningsMet(k, s, c, r)) \in Nat
        /\ Cardinality(BeginningsMet(k, s, c, r)) + 1
             <= Cardinality(BeginningsMet(k, s, c, r + 1))
    BY <1>1, <1>4, <1>6, MeetBeginnings
  <2>2. /\ Cardinality(BeginningsMet(k, s, c, r + 1)) \in Nat
        /\ Cardinality(Beginnings(k, s)) \in Nat
        /\ Cardinality(BeginningsMet(k, s, c, r + 1)) <= Cardinality(Beginnings(k, s))
    BY <1>1, <1>4, MeetBeginnings
  <2>3. lunique[k][s] <= lunique_start(k) + 1 + Cardinality(BeginningsMet(k, s, c, r))
    BY <1>5 DEF Counted
  <2>4. lunique_start(k) + 1 + Cardinality(Beginnings(k, s)) <= lunique_start(SliceEnd(k))
    BY DEF RoomForLabels
  <2>5. lunique[k][s] \in Nat /\ lunique_start(k) \in Nat /\ lunique_start(SliceEnd(k)) \in Nat
    BY <1>1, Blocks DEF LTyped
  <2> QED BY <2>1, <2>2, <2>3, <2>4, <2>5
<1>8. \A j \in SliceStart, t \in Sign : lunique'[j][t] <= lunique_start(SliceEnd(j))
  <2> TAKE j \in SliceStart, t \in Sign
  <2>1. lunique[j][t] <= lunique_start(SliceEnd(j))
    BY CountsFit DEF LabelsFitBlock
  <2>2. lunique'[j][t] = IF j = k /\ t = s THEN lunique[k][s] + 1 ELSE lunique[j][t]
    BY <1>1 DEF LTyped
  <2> QED BY <1>7, <2>1, <2>2
<1>9. \A j : lunique_start(SliceEnd(j))' = lunique_start(SliceEnd(j))
  BY <1>1 DEF lunique_start, SliceEnd, Rows, Cols, SliceStart
<1> QED BY <1>1, <1>8, <1>9, SameCall DEF LabelsFitBlock

(***************************************************************************)
(* A step of a slice keeps the invariant.                                  *)
(***************************************************************************)
LEMMA SliceKeeps ==
  ASSUME CInv, SeamClear, RoomForLabels, NEW k \in SliceStart, SliceStep(k)
  PROVE  CInv' /\ SliceOutcome(k)
<1>1. LInv /\ LabelsFitBlock /\ SliceCounted(k) /\ \A j \in SliceStart : SliceCounted(j)
  BY CountsFit DEF CInv
<1>2. SliceOutcome(k)
  BY <1>1, NewLabelFits, SliceStepOutcome
<1>3. LInv'
  BY <1>1, <1>2, SliceStepKeeps
<1>4. SliceCounted(k)'
  BY <1>1, StartCounts, RowStepCounts, EndColumnCounts DEF SliceStep
<1>5. \A j \in SliceStart : SliceCounted(j)'
  BY <1>1, <1>2, <1>4, OtherCounts
<1>6. \A j \in SliceStart' : SliceCounted(j)'
  BY <1>2, <1>5, SameCall DEF SliceOutcome
<1> QED BY <1>2, <1>3, <1>6 DEF CInv

(***************************************************************************)
(* When the slices are done, the counts are over.                          *)
(***************************************************************************)
LEMMA DoneCounts ==
  ASSUME CInv, \A k \in SliceStart : state[k] = "done",
         call' = call, state' = state, lunique' = lunique
  PROVE  \A k \in SliceStart' : SliceCounted(k)'
<1> SUFFICES ASSUME NEW k \in SliceStart PROVE SliceCounted(k)'
  BY SameCall
<1>1. \A s \in Sign : lunique'[k][s] <= lunique_start(SliceEnd(k))
  BY DEF CInv, SliceCounted
<1>2. lunique_start(SliceEnd(k))' = lunique_start(SliceEnd(k))
  BY DEF lunique_start, SliceEnd, Rows, Cols, SliceStart
<1> QED BY <1>1, <1>2 DEF SliceCounted

LEMMA StutterCounts ==
  ASSUME CInv, UNCHANGED vars
  PROVE  \A k \in SliceStart' : SliceCounted(k)'
<1>1. call' = call /\ L' = L /\ state' = state /\ c_i' = c_i /\ m_r_i' = m_r_i /\ lunique' = lunique
  BY DEF vars
<1> SUFFICES ASSUME NEW k \in SliceStart PROVE SliceCounted(k)'
  BY <1>1, SameCall
<1>2. SliceCounted(k)
  BY DEF CInv
<1>3. ASSUME NEW s \in Sign, NEW d \in Columns(k), NEW u \in 0 .. Rows, Counted(k, s, d, u)
      PROVE  Counted(k, s, d, u)'
  <2>1. lunique'[k][s] <= lunique_start(k)' + 1 + Cardinality(BeginningsMet(k, s, d, u)')
    BY <1>1, <1>3, SameCall, SameCounts DEF Counted
  <2>2. \A q \in SlicePixels(k)' : Before(q, d, u) /\ Polarity(At(q))' = s => s * L'[At(q)'] > 0
    BY <1>1, <1>3, SameCounts DEF Counted
  <2> QED BY <2>1, <2>2 DEF Counted
<1>4. lunique_start(SliceEnd(k))' = lunique_start(SliceEnd(k))
  BY <1>1 DEF lunique_start, SliceEnd, Rows, Cols, SliceStart
<1>5. state'[k] = "scan" =>
        \A s \in Sign, d \in Columns(k)', u \in 0 .. Rows' :
          d = c_i'[k] /\ u = m_r_i'[k] => Counted(k, s, d, u)'
  BY <1>1, <1>2, <1>3, SameCall DEF SliceCounted
<1> QED BY <1>1, <1>2, <1>4, <1>5 DEF SliceCounted

------------------------------------------------------------------------------
(***************************************************************************)
(* The specification.                                                      *)
(***************************************************************************)

\* The invariant of a call whose labels fit and whose seam is clear.  Of the
\* numbering of the classes, which ends the call, it says nothing.
LabelingInv ==
  /\ SeamClear /\ RoomForLabels
  /\ phase # "done" => CInv
  /\ phase = "done" => LabelsFitBlock /\ \A k \in SliceStart : state[k] = "done"

LEMMA CallKept ==
  ASSUME [Next]_vars
  PROVE  call' = call
<1>1. CASE UNCHANGED vars \/ Returned
  BY <1>1 DEF vars, Returned
<1>2. CASE MainStep
  BY <1>2 DEF MainStep, Join, MergeBorder, Analysis
<1>3. ASSUME NEW k \in SliceStart, SliceStep(k) PROVE call' = call
  BY <1>3 DEF SliceStep, StartSlice, SkipPixel, NewLabel, CopyLabel, MergeLabels, NextRow, EndColumn
<1> QED BY <1>1, <1>2, <1>3 DEF Next

LEMMA HypothesesKept ==
  ASSUME SeamClear, RoomForLabels, call' = call
  PROVE  SeamClear' /\ RoomForLabels'
<1>1. SeamClear'
  BY SameCall DEF SeamClear
<1>2. \A k : lunique_start(SliceEnd(k))' = lunique_start(SliceEnd(k))
  BY DEF lunique_start, SliceEnd, Rows, Cols, SliceStart
<1>3. RoomForLabels'
  BY <1>2, SameCall, SameCounts DEF RoomForLabels
<1> QED BY <1>1, <1>3

LEMMA InitInv ==
  ASSUME Init, SeamClear, RoomForLabels
  PROVE  LabelingInv
<1>1. /\ call \in Calls /\ L = [p \in Pixel |-> 0]
      /\ P = [s \in Sign |-> [x \in 0 .. Plength |-> 0]]
      /\ state = [k \in SliceStart |-> "new"] /\ c_i = [k \in SliceStart |-> k]
      /\ m_r_i = [k \in SliceStart |-> 0]
      /\ lunique = [k \in SliceStart |-> [s \in Sign |-> 0]]
      /\ label_data = <<>> /\ phase = "scan" /\ at = 0 /\ merge_r_i = 0
  BY DEF Init
<1>2. /\ Rows \in Nat \ {0} /\ Plength \in Nat /\ Cols \in Nat
      /\ 0 \in 0 .. Rows /\ 0 \in 0 .. Rows - 1 /\ 0 \in 0 .. Plength
      /\ SliceStart \subseteq Int
  <2>1. Rows \in Nat \ {0} /\ Plength \in Nat /\ Cols \in Nat /\ SliceStart \subseteq 0 .. Cols - 1
    BY <1>1, CallTyped
  <2> QED BY <2>1
<1>3. LTyped
  <2>1. L \in [Pixel -> Int] /\ P \in [Sign -> [0 .. Plength -> 0 .. Plength]]
    BY <1>1, <1>2
  <2>2. c_i \in [SliceStart -> Int] /\ m_r_i \in [SliceStart -> 0 .. Rows]
    BY <1>1, <1>2
  <2>3. lunique \in [SliceStart -> [Sign -> Nat]]
    BY <1>1
  <2>4. state \in [SliceStart -> {"new", "scan", "done"}]
    BY <1>1
  <2>5. label_data \in Seq([col_start : SliceStart, lunique : [Sign -> Nat]])
    <3> DEFINE R == [col_start : SliceStart, lunique : [Sign -> Nat]]
    <3>1. label_data \in Seq(R)
      <4> HIDE DEF R
      <4> QED BY <1>1
    <3> QED BY <3>1
  <2> QED BY <1>1, <1>2, <2>1, <2>2, <2>3, <2>4, <2>5 DEF LTyped
<1>4. SlicePlace
  BY <1>1, SliceEnds DEF SlicePlace
<1>5. \A p \in Pixel : L[p] = 0
  BY <1>1
<1>6. ASSUME NEW k \in SliceStart PROVE SliceForest(k)
  <2>1. \A s \in Sign : Own(k, s) = {}
    <3>1. lunique_start(k) \in Nat
      BY <1>1, Blocks
    <3> QED BY <1>1, <1>2, <3>1 DEF Own
  <2>2. \A c \in Columns(k), r \in 0 .. Rows - 1 : <<r, m_c_i(c)>> \in Pixel
    BY <1>1, SliceEnds, ColumnStored DEF Pixel
  <2> QED BY <1>5, <2>1, <2>2 DEF SliceForest, ForestOn
<1>7. LInv
  BY <1>1, <1>3, <1>4, <1>5, <1>6 DEF LInv
<1>8. \A k \in SliceStart : SliceCounted(k)
  BY <1>1 DEF SliceCounted
<1> QED BY <1>1, <1>7, <1>8 DEF LabelingInv, CInv

LEMMA NextInv ==
  ASSUME LabelingInv, [Next]_vars
  PROVE  LabelingInv'
<1>1. call' = call /\ SeamClear' /\ RoomForLabels' /\ SeamClear /\ RoomForLabels
  BY CallKept, HypothesesKept DEF LabelingInv
<1>2. CASE UNCHANGED vars \/ Returned
  <2>1. UNCHANGED vars
    BY <1>2 DEF Returned
  <2>2. phase' = phase /\ state' = state /\ lunique' = lunique
    BY <2>1 DEF vars
  <2>3. CASE phase # "done"
    <3>1. CInv'
      BY <2>1, <2>3, StutterKeeps, StutterCounts DEF LabelingInv, CInv
    <3> QED BY <1>1, <2>2, <2>3, <3>1 DEF LabelingInv
  <2>4. CASE phase = "done"
    <3>1. \A k : lunique_start(SliceEnd(k))' = lunique_start(SliceEnd(k))
      BY <1>1 DEF lunique_start, SliceEnd, Rows, Cols, SliceStart
    <3>2. LabelsFitBlock'
      BY <1>1, <2>2, <2>4, <3>1, SameCall DEF LabelingInv, LabelsFitBlock
    <3>3. \A k \in SliceStart' : state'[k] = "done"
      BY <1>1, <2>2, <2>4, SameCall DEF LabelingInv
    <3> QED BY <1>1, <2>2, <2>4, <3>2, <3>3 DEF LabelingInv
  <2> QED BY <2>3, <2>4
<1>3. ASSUME NEW k \in SliceStart, SliceStep(k) PROVE LabelingInv'
  <2>1. state[k] # "done"
    BY <1>3 DEF SliceStep, StartSlice, SkipPixel, NewLabel, CopyLabel, MergeLabels, NextRow,
                EndColumn
  <2>2. CInv /\ phase # "done"
    BY <2>1 DEF LabelingInv
  <2>3. CInv' /\ phase' = phase
    BY <1>1, <1>3, <2>2, SliceKeeps DEF SliceOutcome
  <2> QED BY <1>1, <2>2, <2>3 DEF LabelingInv
<1>4. CASE Join
  <2>1. /\ phase = "scan" /\ phase' = "merge" /\ \A k \in SliceStart : state[k] = "done"
        /\ state' = state /\ lunique' = lunique
    BY <1>4 DEF Join, scanvars
  <2>2. CInv
    BY <2>1 DEF LabelingInv
  <2>3. CInv'
    BY <1>1, <1>4, <2>1, <2>2, JoinKeeps, DoneCounts DEF CInv
  <2> QED BY <1>1, <2>1, <2>3 DEF LabelingInv
<1>5. CASE MergeBorder
  <2>1. phase = "merge" /\ phase' = "merge" /\ state' = state /\ lunique' = lunique
    BY <1>5 DEF MergeBorder, scanvars
  <2>2. CInv
    BY <2>1 DEF LabelingInv
  <2>3. \A k \in SliceStart : state[k] = "done"
    BY <2>1, <2>2 DEF CInv, LInv
  <2>4. CInv'
    BY <1>1, <1>5, <2>1, <2>2, <2>3, MergeBorderKeeps, DoneCounts DEF CInv
  <2> QED BY <1>1, <2>1, <2>4 DEF LabelingInv
<1>6. CASE Analysis
  <2>1. phase = "merge" /\ phase' = "done" /\ state' = state /\ lunique' = lunique
    BY <1>6 DEF Analysis, scanvars
  <2>2. LabelsFitBlock /\ \A k \in SliceStart : state[k] = "done"
    BY <1>1, <2>1, CountsFit DEF LabelingInv, CInv, LInv
  <2>3. \A k : lunique_start(SliceEnd(k))' = lunique_start(SliceEnd(k))
    BY <1>1 DEF lunique_start, SliceEnd, Rows, Cols, SliceStart
  <2>4. LabelsFitBlock' /\ \A k \in SliceStart' : state'[k] = "done"
    BY <1>1, <2>1, <2>2, <2>3, SameCall DEF LabelsFitBlock
  <2> QED BY <1>1, <2>1, <2>4 DEF LabelingInv
<1> QED BY <1>2, <1>3, <1>4, <1>5, <1>6 DEF Next, MainStep

LEMMA LabelingInvariant == Spec /\ SeamClear /\ RoomForLabels => []LabelingInv
<1>1. Init /\ SeamClear /\ RoomForLabels => LabelingInv
  BY InitInv
<1>2. LabelingInv /\ [Next]_vars => LabelingInv'
  BY NextInv
<1> QED BY <1>1, <1>2, PTL DEF Spec

(***************************************************************************)
(* The block of P that labeling_4con and labeling_8con give a slice, half  *)
(* an element per pixel, holds all the labels the slice hands out, if it   *)
(* holds one for every pixel that has no neighbour of its polarity above   *)
(* it or on its left in the slice.                                         *)
(***************************************************************************)
THEOREM BlocksHoldLabels == Spec /\ SeamClear /\ RoomForLabels => []LabelsFitBlock
<1>1. LabelingInv => LabelsFitBlock
  BY CountsFit DEF LabelingInv
<1> QED BY <1>1, LabelingInvariant, PTL

(***************************************************************************)
(* Then, through all interleavings of the slices and all their unions, and *)
(* through the merging of the borders, the array of equivalences points    *)
(* from labels handed out to labels handed out, never upwards, and every   *)
(* pixel carries a label that was handed out.                              *)
(***************************************************************************)
THEOREM ForestKept == Spec /\ SeamClear /\ RoomForLabels => []LabelForest
<1>1. LabelingInv => LabelForest
  <2> SUFFICES ASSUME LabelingInv, phase # "done" PROVE LabelForest
    BY DEF LabelForest
  <2>1. LInv /\ LTyped
    BY DEF LabelingInv, CInv, LInv
  <2>2. WholeForest
    BY <2>1, ForestFromSlices DEF LInv, LTyped
  <2>3. \A s \in Sign, x \in 0 .. Plength : Issued(s, x) => P[s][x] <= x /\ Issued(s, P[s][x])
    BY <2>2 DEF WholeForest, ForestOn, AllIssued
  <2>4. \A p \in Pixel : L[p] # 0 => Issued(Polar(L[p]), Polar(L[p]) * L[p])
    BY <2>2 DEF WholeForest, AllIssued, Label
  <2> QED BY <2>3, <2>4 DEF LabelForest
<1> QED BY <1>1, LabelingInvariant, PTL

(***************************************************************************)
(* And no slice ever writes a label or an element of P that belongs to     *)
(* another: the tasks of parallel_for need no lock.                        *)
(***************************************************************************)
THEOREM SlicesApart == Spec /\ SeamClear /\ RoomForLabels => SlicesIndependent
<1> DEFINE Apart ==
      \A k \in SliceStart :
        \/ UNCHANGED <<state[k], c_i[k], m_r_i[k]>>
        \/ /\ \A c \in 0 .. Cols - 1, r \in 0 .. Rows - 1 :
                L'[<<r, m_c_i(c)>>] # L[<<r, m_c_i(c)>>] => c \in k .. SliceEnd(k) - 1
           /\ \A s \in Sign, x \in 0..Plength :
                P'[s][x] # P[s][x] =>
                  x \in lunique_start(k) .. lunique_start(SliceEnd(k)) - 1
<1>1. LabelingInv /\ [Next]_vars => [Apart]_vars
  <2> SUFFICES ASSUME LabelingInv, Next, NEW k \in SliceStart,
                      ~ UNCHANGED <<state[k], c_i[k], m_r_i[k]>>
               PROVE  LocalChange(k)
    BY DEF LocalChange, Columns, Block
  <2>1. ~ Returned /\ ~ MainStep
    BY DEF Returned, vars, MainStep, Join, MergeBorder, Analysis, scanvars
  <2>2. PICK j \in SliceStart : SliceStep(j)
    BY <2>1 DEF Next
  <2>3. state[j] # "done"
    BY <2>2 DEF SliceStep, StartSlice, SkipPixel, NewLabel, CopyLabel, MergeLabels, NextRow,
                EndColumn
  <2>4. SliceOutcome(j)
    BY <2>2, <2>3, SliceKeeps DEF LabelingInv
  <2>5. j = k
    BY <2>4 DEF SliceOutcome, OthersWait
  <2> QED BY <2>4, <2>5 DEF SliceOutcome
<1>2. Spec => [][Next]_vars
  BY PTL DEF Spec
<1>3. [][Apart]_vars => SlicesIndependent
  BY DEF SlicesIndependent
<1> QED BY <1>1, <1>2, <1>3, LabelingInvariant, PTL
==============================================================================
