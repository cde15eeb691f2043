---------------------------- MODULE UnionFindOps -----------------------------
(***************************************************************************)
(* find_root, set_root and set_union of src/stp/common/ccl.h as operators: *)
(* what one uninterrupted call computes from the array P.  UnionFind takes *)
(* the same functions loop iteration by loop iteration.                    *)
(***************************************************************************)
EXTENDS Naturals

\* The root of the tree of node i.
find_root(P, i) ==
  LET root[n \in DOMAIN P] == IF P[n] < n THEN root[P[n]] ELSE n
  IN  root[i]

\* The nodes from i to its root.
PathToRoot(P, i) ==
  LET path[n \in DOMAIN P] == IF P[n] < n THEN {n} \union path[P[n]] ELSE {n}
  IN  path[i]

\* All nodes in the path of node i point to root.
set_root(P, i, root) ==
  [x \in DOMAIN P |-> IF x \in PathToRoot(P, i) THEN root ELSE P[x]]

\* Mutant of set_union: only the tree of i is redirected to the new root.
set_union_one_sided(P, i, j) ==
  LET ri   == find_root(P, i)
      rj   == find_root(P, j)
      root == IF i # j /\ ri > rj THEN rj ELSE ri
  IN  [P |-> set_root(P, i, root), root |-> root]

\* The two trees containing nodes i and j united, and the root of the result.
set_union(P, i, j) ==
  LET ri   == find_root(P, i)
      rj   == find_root(P, j)
      root == IF i # j /\ ri > rj THEN rj ELSE ri
      Pj   == IF i # j THEN set_root(P, j, root) ELSE P
  IN  [P |-> set_root(Pj, i, root), root |-> root]
==============================================================================
