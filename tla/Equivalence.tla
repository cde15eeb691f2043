----------------------------- MODULE Equivalence -----------------------------
(***************************************************************************)
(* What the label equivalence array of the connected component labelling   *)
(* (src/stp/common/ccl.h) promises its users: a set of labels partitioned  *)
(* into classes, each known by its smallest label.  A label starts as a    *)
(* class of its own; uniting two labels joins their classes and answers    *)
(* the smallest label of the result.                                       *)
(***************************************************************************)
EXTENDS Naturals

CONSTANT N      \* labels are 1..N

VARIABLES
  used,         \* the labels handed out so far
  rep,          \* rep[x]: smallest label of the class of x
  answer        \* last union and what it answered, or NoAnswer

avars == <<used, rep, answer>>

Node == 1..N

NoAnswer == <<0, 0, 0>>

Smaller(x, y) == IF x < y THEN x ELSE y

\* The classes once the classes of i and j are one.
Joined(i, j) ==
  [x \in Node |-> IF rep[x] \in {rep[i], rep[j]}
                  THEN Smaller(rep[i], rep[j])
                  ELSE rep[x]]

AInit ==
  /\ used = {}
  /\ rep = [x \in Node |-> x]
  /\ answer = NoAnswer

ANewLabel(x) ==
  /\ x \notin used
  /\ used' = used \union {x}
  /\ UNCHANGED <<rep, answer>>

AUnion(i, j) ==
  /\ {i, j} \subseteq used
  /\ rep' = Joined(i, j)
  /\ answer' = <<i, j, Smaller(rep[i], rep[j])>>
  /\ UNCHANGED used

ANext ==
  \/ \E x \in Node : ANewLabel(x)
  \/ \E i, j \in Node : AUnion(i, j)

ASpec == AInit /\ [][ANext]_avars
==============================================================================
