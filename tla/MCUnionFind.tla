----------------------------- MODULE MCUnionFind -----------------------------
(* Two slices with a block of labels each; t1 is also the calling thread.   *)
EXTENDS UnionFind, UnionFindOps

CONSTANTS t1, t2

MCThread == {t1, t2}
MCBlock  == [x \in 1..N |-> IF 2 * x <= N + 1 THEN t1 ELSE t2]

(***************************************************************************)
(* The operators Labeling uses for a whole call of find_root or set_union  *)
(* agree with the calls taken step by step: on every array the threads can *)
(* leave behind, find_root answers the class of a label, and set_union the *)
(* smallest label of the joined class with an array that encodes exactly   *)
(* the joined classes.                                                     *)
(***************************************************************************)
OperatorsAgree ==
  (\A t \in Thread : Idle(t)) =>
    \A x \in used :
      /\ find_root(P, x) = rep[x]
      /\ \A y \in used :
           LET u      == set_union(P, x, y)
               joined == E!Joined(x, y)
           IN  /\ u.root = joined[x]
               /\ \A z \in used : find_root(u.P, z) = joined[z]
==============================================================================
