------------------------------ MODULE UnionFind ------------------------------
(***************************************************************************)
(* find_root, set_root and set_union of src/stp/common/ccl.h, one loop     *)
(* iteration per step, executed by several threads on one shared array P.  *)
(* A thread works on the labels it owns: while the image is scanned each   *)
(* slice owns its own block of labels, and once the slices have joined the *)
(* calling thread owns them all.                                           *)
(*                                                                         *)
(* rep and answer are history variables: they never influence a step, and  *)
(* record the classes and the last answer of the abstract specification.   *)
(***************************************************************************)
EXTENDS Naturals

CONSTANTS
  N,            \* labels are 1..N
  Thread,       \* the slices' tasks and the calling thread
  Main,         \* the thread that called the labelling
  Block         \* Block[x]: the thread whose slice hands out label x

ASSUME ConstantsAssumption ==
  /\ N \in Nat
  /\ Main \in Thread
  /\ Block \in [1..N -> Thread]

VARIABLES
  P,            \* the label equivalence array, 0 where nothing is stored yet
  used,         \* labels handed out
  owner,        \* who may work on a label
  pc,           \* where each thread is in set_union
  i, j,         \* its arguments
  root, rootj,  \* its local variables
  cur,          \* the variable i of set_root
  rep, answer   \* history

vars == <<P, used, owner, pc, i, j, root, rootj, cur, rep, answer>>

Node == 1..N

E == INSTANCE Equivalence

Idle(t) == pc[t] = "idle"

------------------------------------------------------------------------------
Init ==
  /\ P = [x \in Node |-> 0]
  /\ used = {}
  /\ owner = Block
  /\ pc = [t \in Thread |-> "idle"]
  /\ i = [t \in Thread |-> 0]
  /\ j = [t \in Thread |-> 0]
  /\ root = [t \in Thread |-> 0]
  /\ rootj = [t \in Thread |-> 0]
  /\ cur = [t \in Thread |-> 0]
  /\ rep = [x \in Node |-> x]
  /\ answer = E!NoAnswer

\* Mutant of NewLabel: the label is counted before it is stored.
NewLabelLate(t, x) ==
  /\ Idle(t)
  /\ owner[x] = t
  /\ x \notin used
  /\ P' = [P EXCEPT ![x] = x + 1]
  /\ used' = used \union {x}
  /\ UNCHANGED <<owner, pc, i, j, root, rootj, cur, rep, answer>>

\* A pixel without labelled neighbours: Pp[lunique_p] = lunique_p.
NewLabel(t, x) ==
  /\ Idle(t)
  /\ owner[x] = t
  /\ x \notin used
  /\ P' = [P EXCEPT ![x] = x]
  /\ used' = used \union {x}
  /\ UNCHANGED <<owner, pc, i, j, root, rootj, cur, rep, answer>>

\* parallel_for has returned: every label belongs to the calling thread.
Join ==
  /\ \A t \in Thread : Idle(t)
  /\ owner' = [x \in Node |-> Main]
  /\ UNCHANGED <<P, used, pc, i, j, root, rootj, cur, rep, answer>>

\* Mutant of Call: a slice also unites labels of the slice on its left.
CallAcross(t, x, y) ==
  /\ Idle(t)
  /\ {x, y} \subseteq used
  /\ owner[x] = t
  /\ pc' = [pc EXCEPT ![t] = "find_i"]
  /\ i' = [i EXCEPT ![t] = x]
  /\ j' = [j EXCEPT ![t] = y]
  /\ root' = [root EXCEPT ![t] = x]
  /\ UNCHANGED <<P, used, owner, rootj, cur, rep, answer>>

\* set_union(P, x, y) is called, and find_root(P, x) starts.
Call(t, x, y) ==
  /\ Idle(t)
  /\ {x, y} \subseteq used
  /\ owner[x] = t
  /\ owner[y] = t
  /\ pc' = [pc EXCEPT ![t] = "find_i"]
  /\ i' = [i EXCEPT ![t] = x]
  /\ j' = [j EXCEPT ![t] = y]
  /\ root' = [root EXCEPT ![t] = x]
  /\ UNCHANGED <<P, used, owner, rootj, cur, rep, answer>>

\* One iteration of find_root(P, i).
FindI(t) ==
  /\ pc[t] = "find_i"
  /\ P[root[t]] < root[t]
  /\ root' = [root EXCEPT ![t] = P[root[t]]]
  /\ UNCHANGED <<P, used, owner, pc, i, j, rootj, cur, rep, answer>>

\* find_root(P, i) returns and i # j: find_root(P, j) starts.
FoundI(t) ==
  /\ pc[t] = "find_i"
  /\ ~ (P[root[t]] < root[t])
  /\ i[t] # j[t]
  /\ pc' = [pc EXCEPT ![t] = "find_j"]
  /\ rootj' = [rootj EXCEPT ![t] = j[t]]
  /\ UNCHANGED <<P, used, owner, i, j, root, cur, rep, answer>>

\* find_root(P, i) returns and i = j: only set_root(P, i, root) is left.
FoundSame(t) ==
  /\ pc[t] = "find_i"
  /\ ~ (P[root[t]] < root[t])
  /\ i[t] = j[t]
  /\ pc' = [pc EXCEPT ![t] = "set_i"]
  /\ cur' = [cur EXCEPT ![t] = i[t]]
  /\ UNCHANGED <<P, used, owner, i, j, root, rootj, rep, answer>>

\* One iteration of find_root(P, j).
FindJ(t) ==
  /\ pc[t] = "find_j"
  /\ P[rootj[t]] < rootj[t]
  /\ rootj' = [rootj EXCEPT ![t] = P[rootj[t]]]
  /\ UNCHANGED <<P, used, owner, pc, i, j, root, cur, rep, answer>>

\* Mutants of FoundJ: the larger root is kept; the root of i is kept.
FoundJLarger(t) ==
  /\ pc[t] = "find_j"
  /\ ~ (P[rootj[t]] < rootj[t])
  /\ root' = [root EXCEPT ![t] = IF root[t] < rootj[t] THEN rootj[t] ELSE root[t]]
  /\ pc' = [pc EXCEPT ![t] = "set_j"]
  /\ cur' = [cur EXCEPT ![t] = j[t]]
  /\ UNCHANGED <<P, used, owner, i, j, rootj, rep, answer>>

FoundJFirst(t) ==
  /\ pc[t] = "find_j"
  /\ ~ (P[rootj[t]] < rootj[t])
  /\ pc' = [pc EXCEPT ![t] = "set_j"]
  /\ cur' = [cur EXCEPT ![t] = j[t]]
  /\ UNCHANGED <<P, used, owner, i, j, root, rootj, rep, answer>>

\* find_root(P, j) returns; the smaller root is kept and set_root(P, j, root)
\* starts.
FoundJ(t) ==
  /\ pc[t] = "find_j"
  /\ ~ (P[rootj[t]] < rootj[t])
  /\ root' = [root EXCEPT ![t] = IF root[t] > rootj[t] THEN rootj[t] ELSE root[t]]
  /\ pc' = [pc EXCEPT ![t] = "set_j"]
  /\ cur' = [cur EXCEPT ![t] = j[t]]
  /\ UNCHANGED <<P, used, owner, i, j, rootj, rep, answer>>

\* Mutants of Compress: the next node is read after it has been overwritten;
\* the node is never advanced.
CompressReread(t) ==
  /\ pc[t] \in {"set_i", "set_j"}
  /\ P[cur[t]] < cur[t]
  /\ cur' = [cur EXCEPT ![t] = root[t]]
  /\ P' = [P EXCEPT ![cur[t]] = root[t]]
  /\ UNCHANGED <<used, owner, pc, i, j, root, rootj, rep, answer>>

CompressInPlace(t) ==
  /\ pc[t] \in {"set_i", "set_j"}
  /\ P[cur[t]] < cur[t]
  /\ P' = [P EXCEPT ![cur[t]] = root[t]]
  /\ UNCHANGED <<used, owner, pc, i, j, root, rootj, cur, rep, answer>>

\* One iteration of set_root, of either call.
Compress(t) ==
  /\ pc[t] \in {"set_i", "set_j"}
  /\ P[cur[t]] < cur[t]
  /\ cur' = [cur EXCEPT ![t] = P[cur[t]]]
  /\ P' = [P EXCEPT ![cur[t]] = root[t]]
  /\ UNCHANGED <<used, owner, pc, i, j, root, rootj, rep, answer>>

\* Mutant of AttachJ: the root itself is not redirected.
AttachJPathOnly(t) ==
  /\ pc[t] = "set_j"
  /\ ~ (P[cur[t]] < cur[t])
  /\ pc' = [pc EXCEPT ![t] = "set_i"]
  /\ cur' = [cur EXCEPT ![t] = i[t]]
  /\ UNCHANGED <<P, used, owner, i, j, root, rootj, rep, answer>>

\* The last assignment of set_root(P, j, root); set_root(P, i, root) starts.
AttachJ(t) ==
  /\ pc[t] = "set_j"
  /\ ~ (P[cur[t]] < cur[t])
  /\ P' = [P EXCEPT ![cur[t]] = root[t]]
  /\ pc' = [pc EXCEPT ![t] = "set_i"]
  /\ cur' = [cur EXCEPT ![t] = i[t]]
  /\ UNCHANGED <<used, owner, i, j, root, rootj, rep, answer>>

\* The last assignment of set_root(P, i, root), and set_union returns root:
\* its frame is gone (0 in every local).
Return(t) ==
  /\ pc[t] = "set_i"
  /\ ~ (P[cur[t]] < cur[t])
  /\ P' = [P EXCEPT ![cur[t]] = root[t]]
  /\ pc' = [pc EXCEPT ![t] = "idle"]
  /\ rep' = E!Joined(i[t], j[t])
  /\ answer' = <<i[t], j[t], root[t]>>
  /\ i' = [i EXCEPT ![t] = 0]
  /\ j' = [j EXCEPT ![t] = 0]
  /\ root' = [root EXCEPT ![t] = 0]
  /\ rootj' = [rootj EXCEPT ![t] = 0]
  /\ cur' = [cur EXCEPT ![t] = 0]
  /\ UNCHANGED <<used, owner>>

------------------------------------------------------------------------------
\* The steps set_union takes on its own once it is called.
SetUnion(t) ==
  \/ FindI(t)
  \/ FoundI(t)
  \/ FoundSame(t)
  \/ FindJ(t)
  \/ FoundJ(t)
  \/ Compress(t)
  \/ AttachJ(t)
  \/ Return(t)

Next ==
  \/ Join
  \/ \E t \in Thread :
       \/ \E x \in Node : NewLabel(t, x)
       \/ \E x, y \in Node : Call(t, x, y)
       \/ SetUnion(t)

\* A thread inside set_union never waits for anybody.
Fairness == \A t \in Thread : WF_vars(SetUnion(t))

Spec == Init /\ [][Next]_vars

FairSpec == Spec /\ Fairness

------------------------------------------------------------------------------
TypeOK ==
  /\ P \in [Node -> 0..N]
  /\ used \in SUBSET Node
  /\ owner \in [Node -> Thread]
  /\ pc \in [Thread -> {"idle", "find_i", "find_j", "set_i", "set_j"}]
  /\ i \in [Thread -> 0..N]
  /\ j \in [Thread -> 0..N]
  /\ root \in [Thread -> 0..N]
  /\ rootj \in [Thread -> 0..N]
  /\ cur \in [Thread -> 0..N]
  /\ rep \in [Node -> Node]
  /\ answer \in (0..N) \X (0..N) \X (0..N)

(***************************************************************************)
(* The shape the rest of the labelling relies on (the analysis loop reads  *)
(* P[P[x]] in increasing order of x): whatever the threads are in the      *)
(* middle of, the parent of a label is a label that was handed out, is not *)
(* larger, and belongs to the same thread.                                 *)
(***************************************************************************)
Forest ==
  \A x \in used : /\ P[x] \in used
                  /\ P[x] <= x
                  /\ owner[P[x]] = owner[x]

(***************************************************************************)
(* When no thread is inside set_union the array encodes the classes        *)
(* exactly: an edge never leaves its class, and the only root of a class   *)
(* is its smallest label.                                                  *)
(***************************************************************************)
ArrayIsPartition ==
  (\A t \in Thread : Idle(t)) =>
     \A x \in used : /\ rep[P[x]] = rep[x]
                     /\ (P[x] = x) <=> (rep[x] = x)

(***************************************************************************)
(* The parent of a label that was handed out is only ever changed by a     *)
(* step of its owner's own set_union: this is what lets the slices work on *)
(* the shared array without a lock.                                        *)
(***************************************************************************)
OwnLabelsOnly ==
  [][\A x \in used : P'[x] # P[x] =>
        \/ pc'[owner[x]] # pc[owner[x]]
        \/ cur'[owner[x]] # cur[owner[x]]]_vars

(***************************************************************************)
(* Every union answers the smallest label of the two classes it was asked  *)
(* to join, and joins nothing else, however the threads interleave.        *)
(***************************************************************************)
ImplementsEquivalence == E!ASpec

------------------------------------------------------------------------------
(***************************************************************************)
(* Why it works.  The history variable rep keeps the classes as they were  *)
(* when the call began, and changes when the call returns.                 *)
(***************************************************************************)
\* The smallest label of a class stands for the class.
RepIsSmallest ==
  \A x \in Node : /\ rep[x] <= x
                  /\ rep[rep[x]] = rep[x]
                  /\ owner[rep[x]] = owner[x]
                  /\ IF x \in used THEN rep[x] \in used ELSE rep[x] = x

\* A root of the array is the representative of its class.
RootsAreReps == \A x \in used : P[x] = x => rep[x] = x

\* The classes a thread is joining.
Joining(t) == {rep[i[t]], rep[j[t]]}

\* An edge stays in its class, or has been redirected by the set_root that is
\* under way to the smaller root of the two classes being joined.
EdgesInClass ==
  \A x \in used :
    LET t == owner[x] IN
    \/ rep[P[x]] = rep[x]
    \/ /\ pc[t] \in {"set_i", "set_j"}
       /\ rep[x] \in Joining(t)
       /\ P[x] = root[t]

\* The edges of the class of c that start at or below b are untouched.
Untouched(c, b) ==
  \A y \in used : y <= b /\ rep[y] = rep[c] => rep[P[y]] = rep[c]

Mine(t, x) == x \in used /\ owner[x] = t

ThreadInv(t) ==
  /\ pc[t] # "idle" => Mine(t, i[t]) /\ Mine(t, j[t])
  /\ pc[t] = "find_i" => Mine(t, root[t]) /\ rep[root[t]] = rep[i[t]]
  /\ pc[t] = "find_j" => /\ root[t] = rep[i[t]]
                         /\ Mine(t, rootj[t])
                         /\ rep[rootj[t]] = rep[j[t]]
  /\ pc[t] \in {"set_i", "set_j"} =>
        /\ Mine(t, cur[t])
        /\ root[t] = E!Smaller(rep[i[t]], rep[j[t]])
  /\ pc[t] = "set_j" => /\ rep[cur[t]] = rep[j[t]]
                        /\ Untouched(j[t], cur[t])
                        /\ rep[i[t]] # rep[j[t]] => Untouched(i[t], N)
  /\ pc[t] = "set_i" => /\ rep[cur[t]] = rep[i[t]]
                        /\ Untouched(i[t], cur[t])
                        /\ rep[j[t]] # root[t] => P[rep[j[t]]] = root[t]

(***************************************************************************)
(* The inductive invariant: how far every thread inside set_union has come *)
(* and what it has left untouched of the classes it is joining.            *)
(***************************************************************************)
IInv ==
  /\ TypeOK
  /\ Forest
  /\ RepIsSmallest
  /\ RootsAreReps
  /\ EdgesInClass
  /\ \A t \in Thread : ThreadInv(t)

(***************************************************************************)
(* set_union returns: its four loops follow parents that get smaller.      *)
(***************************************************************************)
CallsReturn == \A t \in Thread : ~ Idle(t) ~> Idle(t)
==============================================================================
