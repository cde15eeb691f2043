--------------------------- MODULE UnionFind_proofs --------------------------
(***************************************************************************)
(* Proofs, for any number of labels and of threads, that the label         *)
(* equivalence array is a forest of classes and that set_union implements  *)
(* the abstract specification Equivalence.                                 *)
(***************************************************************************)
EXTENDS UnionFind, TLAPS

\* Before the first label is handed out every class is a label of its own.
LEMMA InitInv == Init => IInv
<1> SUFFICES ASSUME Init PROVE IInv
  OBVIOUS
<1> USE DEF Init, Node
<1>1. TypeOK
  BY ConstantsAssumption DEF TypeOK, E!NoAnswer
<1>2. Forest /\ RootsAreReps /\ EdgesInClass
  BY DEF Forest, RootsAreReps, EdgesInClass
<1>3. RepIsSmallest
  BY DEF RepIsSmallest
<1>4. ASSUME NEW t \in Thread PROVE ThreadInv(t)
  BY DEF ThreadInv
<1> QED
  BY <1>1, <1>2, <1>3, <1>4 DEF IInv

\* Labels are positive natural numbers and values of the arrays.
LEMMA NodeNat == Node \subseteq Nat /\ \A x \in Node : x <= N /\ x \in 0..N
  BY ConstantsAssumption DEF Node

(***************************************************************************)
(* A step of thread t that leaves the labels of another thread u alone     *)
(* leaves u where it was.                                                  *)
(***************************************************************************)
LEMMA OtherThreads ==
  ASSUME IInv, RepIsSmallest', NEW t \in Thread, NEW u \in Thread, u # t,
         owner' = owner, used \subseteq used', used' \subseteq Node,
         \A x \in used' : owner[x] = u =>
            x \in used /\ P'[x] = P[x] /\ rep'[x] = rep[x],
         pc'[u] = pc[u], i'[u] = i[u], j'[u] = j[u],
         root'[u] = root[u], rootj'[u] = rootj[u], cur'[u] = cur[u]
  PROVE  ThreadInv(u)'
<1>1. ThreadInv(u) /\ TypeOK
  BY DEF IInv
<1>2. ASSUME NEW x, Mine(u, x)
      PROVE  /\ x \in used' /\ owner'[x] = u
             /\ P'[x] = P[x] /\ rep'[x] = rep[x]
  BY <1>2 DEF Mine
<1>3. ASSUME NEW x, Mine(u, x) PROVE Mine(u, rep[x]) /\ Mine(u, P[x])
  BY <1>3 DEF IInv, TypeOK, RepIsSmallest, Forest, Mine
<1>4. ASSUME NEW c, Mine(u, c), NEW b, Untouched(c, b)
      PROVE  \A y \in used' : y <= b /\ rep'[y] = rep'[c] => rep'[P'[y]] = rep'[c]
  <2> SUFFICES ASSUME NEW y \in used', y <= b, rep'[y] = rep'[c]
               PROVE  rep'[P'[y]] = rep'[c]
    OBVIOUS
  <2>1. rep'[c] = rep[c] /\ Mine(u, rep[c]) /\ rep'[rep[c]] = rep[rep[c]]
    BY <1>2, <1>3, <1>4
  <2>2. owner'[rep'[y]] = owner'[y] /\ owner'[rep'[c]] = owner'[c]
    BY <1>2, <1>4 DEF RepIsSmallest
  <2>3. Mine(u, y) /\ rep[y] = rep[c]
    BY <2>1, <2>2, <1>2, <1>4 DEF Mine
  <2>4. P'[y] = P[y] /\ rep'[P[y]] = rep[P[y]]
    BY <2>3, <1>2, <1>3
  <2> QED
    BY <2>1, <2>3, <2>4, <1>4 DEF Untouched, Mine
<1>5. ASSUME NEW x, Mine(u, x) PROVE Mine(u, x)'
  BY <1>5 DEF Mine
<1>a. pc'[u] # "idle" => Mine(u, i[u])' /\ Mine(u, j[u])'
  BY <1>1, <1>5 DEF ThreadInv
<1>b. pc'[u] = "find_i" => Mine(u, root[u])' /\ rep'[root'[u]] = rep'[i'[u]]
  BY <1>1, <1>2, <1>5 DEF ThreadInv
<1>c. pc'[u] = "find_j" => /\ root'[u] = rep'[i'[u]]
                           /\ Mine(u, rootj[u])'
                           /\ rep'[rootj'[u]] = rep'[j'[u]]
  BY <1>1, <1>2, <1>5 DEF ThreadInv
<1>d. pc'[u] \in {"set_i", "set_j"} =>
        /\ Mine(u, cur[u])'
        /\ root'[u] = E!Smaller(rep'[i'[u]], rep'[j'[u]])
  BY <1>1, <1>2, <1>5 DEF ThreadInv
<1>e. pc'[u] = "set_j" => /\ rep'[cur'[u]] = rep'[j'[u]]
                          /\ Untouched(j[u], cur[u])'
                          /\ rep'[i'[u]] # rep'[j'[u]] => Untouched(i[u], N)'
  BY <1>1, <1>2, <1>4 DEF ThreadInv, Untouched
<1>f. pc'[u] = "set_i" => /\ rep'[cur'[u]] = rep'[i'[u]]
                          /\ Untouched(i[u], cur[u])'
                          /\ rep'[j'[u]] # root'[u] => P'[rep'[j'[u]]] = root'[u]
  <2> SUFFICES ASSUME pc[u] = "set_i"
               PROVE  /\ rep'[cur[u]] = rep'[i[u]]
                      /\ Untouched(i[u], cur[u])'
                      /\ rep'[j[u]] # root[u] => P'[rep'[j[u]]] = root[u]
    OBVIOUS
  <2>1. Mine(u, i[u]) /\ Mine(u, j[u]) /\ Mine(u, cur[u])
    BY <1>1 DEF ThreadInv
  <2>2. rep'[cur[u]] = rep'[i[u]] /\ Untouched(i[u], cur[u])'
    BY <2>1, <1>1, <1>2, <1>4 DEF ThreadInv, Untouched
  <2>3. Mine(u, rep[j[u]]) /\ rep'[j[u]] = rep[j[u]] /\ P'[rep[j[u]]] = P[rep[j[u]]]
    BY <2>1, <1>2, <1>3
  <2> QED
    BY <2>2, <2>3, <1>1 DEF ThreadInv
<1> QED
  BY <1>a, <1>b, <1>c, <1>d, <1>e, <1>f DEF ThreadInv

\* A call of set_union starts with both labels in hand and nothing changed.
LEMMA CallInv ==
  ASSUME IInv, NEW t \in Thread, NEW x \in Node, NEW y \in Node, Call(t, x, y)
  PROVE  IInv'
<1> USE DEF Call
<1>1. TypeOK'
  <2> x \in 0..N /\ y \in 0..N
    BY NodeNat
  <2> QED
    BY DEF IInv, TypeOK
<1>2. Forest' /\ RepIsSmallest' /\ RootsAreReps'
  BY DEF IInv, Forest, RepIsSmallest, RootsAreReps
<1>3. EdgesInClass'
  BY DEF IInv, TypeOK, EdgesInClass, Joining, Idle
<1>4. ASSUME NEW u \in Thread PROVE ThreadInv(u)'
  <2>1. CASE u = t
    BY <2>1 DEF IInv, TypeOK, ThreadInv, Mine, Node
  <2>2. CASE u # t
    BY <1>2, <2>2, OtherThreads DEF IInv, TypeOK
  <2> QED
    BY <2>1, <2>2
<1> QED
  BY <1>1, <1>2, <1>3, <1>4 DEF IInv

\* Outside set_root every edge stays in its class, and a node without a
\* smaller parent is the representative of its class.
LEMMA FindFacts ==
  ASSUME IInv, NEW t \in Thread, pc[t] \in {"idle", "find_i", "find_j"},
         NEW x, Mine(t, x)
  PROVE  /\ x \in Node
         /\ P[x] \in Node /\ P[x] <= x
         /\ Mine(t, P[x])
         /\ rep[P[x]] = rep[x]
         /\ ~ (P[x] < x) => rep[x] = x
<1>1. x \in Node /\ P[x] \in used /\ P[x] <= x /\ owner[P[x]] = owner[x]
  BY DEF IInv, TypeOK, Forest, Mine
<1>2. rep[P[x]] = rep[x]
  BY DEF IInv, EdgesInClass, Mine
<1>3. P[x] \in Node
  BY <1>1 DEF IInv, TypeOK
<1>4. ~ (P[x] < x) => P[x] = x
  BY <1>1, <1>3 DEF Node
<1> QED
  BY <1>1, <1>2, <1>3, <1>4 DEF IInv, RootsAreReps, Mine

\* The loops of find_root stay in the class they started in and end at its
\* representative.
LEMMA FindInv ==
  ASSUME IInv, NEW t \in Thread, FindI(t) \/ FoundI(t) \/ FoundSame(t) \/ FindJ(t) \/ FoundJ(t)
  PROVE  IInv'
<1> USE DEF FindI, FoundI, FoundSame, FindJ, FoundJ
<1>0. UNCHANGED <<P, used, owner, i, j, rep, answer>>
  OBVIOUS
<1>f. ASSUME NEW x, Mine(t, x)
      PROVE  /\ x \in Node
             /\ P[x] \in Node /\ P[x] <= x
             /\ Mine(t, P[x])
             /\ rep[P[x]] = rep[x]
             /\ ~ (P[x] < x) => rep[x] = x
  BY <1>f, FindFacts
<1>t. TypeOK /\ ThreadInv(t)
  BY DEF IInv
\* The classes thread t works on belong to it entirely, and are intact.
<1>u. ASSUME NEW x, Mine(t, x) PROVE Untouched(x, N)
  <2> SUFFICES ASSUME NEW y \in used, rep[y] = rep[x] PROVE rep[P[y]] = rep[x]
    BY DEF Untouched
  <2>1. owner[rep[y]] = owner[y] /\ owner[rep[x]] = owner[x]
    BY <1>u, <1>t DEF IInv, RepIsSmallest, TypeOK, Mine
  <2>2. Mine(t, y)
    BY <1>u, <2>1 DEF Mine
  <2> QED
    BY <1>f, <2>2
<1>v. ASSUME NEW x, Mine(t, x) PROVE Untouched(x, x)
  <2> used \subseteq Node /\ \A y \in Node : y <= N
    BY <1>t, ConstantsAssumption DEF TypeOK, Node
  <2> QED
    BY <1>v, <1>u DEF Untouched
<1>1. TypeOK'
  <2> i[t] \in 0..N /\ j[t] \in 0..N /\ root[t] \in 0..N /\ rootj[t] \in 0..N
    BY <1>t DEF TypeOK
  <2>1. FindI(t) => P[root[t]] \in 0..N
    BY <1>f, <1>t DEF ThreadInv, Node
  <2>2. FindJ(t) => P[rootj[t]] \in 0..N
    BY <1>f, <1>t DEF ThreadInv, Node
  <2> QED
    BY <1>t, <2>1, <2>2 DEF TypeOK
<1>2. Forest' /\ RepIsSmallest' /\ RootsAreReps'
  BY <1>0 DEF IInv, Forest, RepIsSmallest, RootsAreReps
<1>3. EdgesInClass'
  <2> SUFFICES ASSUME NEW x \in used,
                      rep[P[x]] # rep[x]
               PROVE  LET u == owner[x] IN
                      /\ pc'[u] \in {"set_i", "set_j"}
                      /\ rep[x] \in Joining(u)
                      /\ P[x] = root'[u]
    BY <1>0 DEF EdgesInClass, Joining
  <2>1. owner[x] # t
    BY <1>f DEF Mine
  <2>2. owner[x] \in Thread
    BY <1>t DEF TypeOK
  <2> QED
    BY <2>1, <2>2, <1>t DEF IInv, EdgesInClass, TypeOK
<1>4. ASSUME NEW u \in Thread PROVE ThreadInv(u)'
  <2>1. CASE u = t
    <3>1. CASE FindI(t)
      BY <3>1, <2>1, <1>t, <1>f DEF ThreadInv, TypeOK, Mine
    <3>2. CASE FoundI(t)
      BY <3>2, <2>1, <1>t, <1>f DEF ThreadInv, TypeOK, Mine
    <3>3. CASE FoundSame(t)
      <4>1. Mine(t, i[t]) /\ Mine(t, j[t]) /\ root[t] = rep[i[t]] /\ rep[i[t]] = rep[j[t]]
        BY <3>3, <1>t, <1>f DEF ThreadInv
      <4>2. Untouched(i[t], i[t])
        BY <4>1, <1>v
      <4> QED
        BY <3>3, <2>1, <1>t, <4>1, <4>2 DEF ThreadInv, TypeOK, Mine, Untouched, E!Smaller
    <3>4. CASE FindJ(t)
      BY <3>4, <2>1, <1>t, <1>f DEF ThreadInv, TypeOK, Mine
    <3>5. CASE FoundJ(t)
      <4>1. /\ Mine(t, i[t]) /\ Mine(t, j[t])
            /\ root[t] = rep[i[t]]
            /\ rootj[t] = rep[j[t]]
        <5>1. Mine(t, i[t]) /\ Mine(t, j[t]) /\ Mine(t, rootj[t])
              /\ rep[rootj[t]] = rep[j[t]] /\ root[t] = rep[i[t]]
          BY <3>5, <1>t DEF ThreadInv
        <5>2. rep[rootj[t]] = rootj[t]
          BY <3>5, <5>1, <1>f
        <5> QED
          BY <5>1, <5>2
      <4>2. Untouched(j[t], j[t]) /\ Untouched(i[t], N)
        BY <4>1, <1>v, <1>u
      <4>3. rep[i[t]] \in Nat /\ rep[j[t]] \in Nat
        <5> i[t] \in Node /\ j[t] \in Node /\ rep \in [Node -> Node]
          BY <4>1, <1>t DEF TypeOK, Mine
        <5> QED
          BY NodeNat
      <4>4. root'[t] = E!Smaller(rep[i[t]], rep[j[t]])
        BY <3>5, <4>1, <4>3, <1>t DEF TypeOK, E!Smaller
      <4>5. pc'[t] = "set_j" /\ cur'[t] = j[t]
        BY <3>5, <1>t DEF TypeOK
      <4> QED
        BY <2>1, <1>0, <4>1, <4>2, <4>4, <4>5 DEF ThreadInv, Mine, Untouched, E!Smaller
    <3> QED
      BY <3>1, <3>2, <3>3, <3>4, <3>5
  <2>2. CASE u # t
    BY <1>2, <2>2, <1>0, <1>t, OtherThreads DEF TypeOK
  <2> QED
    BY <2>1, <2>2
<1> QED
  BY <1>1, <1>2, <1>3, <1>4 DEF IInv


(***************************************************************************)
(* A new label: x is alone in its class, and was so before it was used.    *)
(***************************************************************************)
LEMMA NewLabelInv ==
  ASSUME IInv, NEW t \in Thread, NEW x \in Node, NewLabel(t, x)
  PROVE  IInv'
<1> USE DEF NewLabel
<1>t. TypeOK /\ RepIsSmallest /\ rep[x] = x
  BY DEF IInv, RepIsSmallest
<1>1. TypeOK'
  BY <1>t, NodeNat DEF TypeOK
<1>2. RepIsSmallest'
  BY <1>t DEF RepIsSmallest
<1>e. \A y \in used : /\ y # x /\ P[y] \in used /\ P'[y] = P[y]
  BY <1>t DEF IInv, Forest, TypeOK
<1>x. P'[x] = x
  BY <1>t DEF TypeOK
<1>3. Forest'
  BY <1>e, <1>x, NodeNat DEF IInv, Forest
<1>4. RootsAreReps'
  BY <1>e, <1>x, <1>t DEF IInv, RootsAreReps
<1>5. EdgesInClass'
  BY <1>e, <1>x DEF IInv, EdgesInClass, Joining
<1>6. ASSUME NEW u \in Thread PROVE ThreadInv(u)'
  <2>1. CASE u = t
    BY <2>1 DEF ThreadInv, Idle
  <2>2. CASE u # t
    BY <2>2, <1>t, <1>2, <1>e, OtherThreads DEF TypeOK
  <2> QED
    BY <2>1, <2>2
<1> QED
  BY <1>1, <1>2, <1>3, <1>4, <1>5, <1>6 DEF IInv

\* The slices have joined: nobody is inside set_union.
LEMMA JoinInv ==
  ASSUME IInv, Join
  PROVE  IInv'
<1> USE DEF Join
<1>1. TypeOK'
  BY ConstantsAssumption DEF IInv, TypeOK, Node
<1>2. Forest' /\ RepIsSmallest' /\ RootsAreReps'
  BY DEF IInv, TypeOK, Forest, RepIsSmallest, RootsAreReps
<1>3. EdgesInClass'
  BY DEF IInv, TypeOK, EdgesInClass, Idle
<1>4. ASSUME NEW u \in Thread PROVE ThreadInv(u)'
  BY DEF ThreadInv, Idle
<1> QED
  BY <1>1, <1>2, <1>3, <1>4 DEF IInv

(***************************************************************************)
(* What a thread inside set_root knows.                                    *)
(***************************************************************************)
LEMMA SetFacts ==
  ASSUME IInv, NEW t \in Thread, pc[t] \in {"set_i", "set_j"}
  PROVE  /\ Mine(t, i[t]) /\ Mine(t, j[t]) /\ Mine(t, cur[t]) /\ Mine(t, root[t])
         /\ \A x \in used : rep[x] \in Joining(t) => Mine(t, x)
         /\ root[t] = E!Smaller(rep[i[t]], rep[j[t]])
         /\ root[t] \in Joining(t)
         /\ rep[root[t]] = root[t]
         /\ root[t] <= rep[i[t]] /\ root[t] <= rep[j[t]] /\ root[t] <= cur[t]
         /\ rep[cur[t]] \in Joining(t)
         /\ Mine(t, P[cur[t]])
         /\ P[cur[t]] <= cur[t]
         /\ ~ (P[cur[t]] < cur[t]) => P[cur[t]] = cur[t] /\ rep[cur[t]] = cur[t]
<1>t. TypeOK /\ ThreadInv(t) /\ RepIsSmallest /\ Forest
  BY DEF IInv
<1>1. /\ Mine(t, i[t]) /\ Mine(t, j[t]) /\ Mine(t, cur[t])
      /\ root[t] = E!Smaller(rep[i[t]], rep[j[t]])
      /\ rep[cur[t]] \in Joining(t)
  BY <1>t DEF ThreadInv, Joining
<1>2. \A x \in Node : /\ rep[x] \in Node /\ rep[x] <= x
                      /\ rep[rep[x]] = rep[x] /\ owner[rep[x]] = owner[x]
                      /\ x \in used => rep[x] \in used
  BY <1>t DEF RepIsSmallest, TypeOK
<1>3. i[t] \in Node /\ j[t] \in Node /\ cur[t] \in Node
  BY <1>1, <1>t DEF Mine, TypeOK
<1>4. /\ rep[i[t]] \in Nat /\ rep[j[t]] \in Nat /\ cur[t] \in Nat
      /\ rep[cur[t]] <= cur[t] /\ rep[cur[t]] \in Nat
  BY <1>2, <1>3, NodeNat
<1>5. root[t] \in Joining(t) /\ root[t] <= rep[i[t]] /\ root[t] <= rep[j[t]]
  BY <1>1, <1>4 DEF E!Smaller, Joining
<1>6. root[t] <= cur[t] /\ rep[root[t]] = root[t] /\ Mine(t, root[t])
  BY <1>1, <1>2, <1>3, <1>4, <1>5 DEF Joining, Mine
<1>7. \A x \in used : rep[x] \in Joining(t) => Mine(t, x)
  <2> TAKE x \in used
  <2>1. x \in Node
    BY <1>t DEF TypeOK
  <2> QED
    BY <2>1, <1>1, <1>2, <1>3 DEF Joining, Mine
<1>8. Mine(t, P[cur[t]]) /\ P[cur[t]] <= cur[t] /\ P[cur[t]] \in Nat
  BY <1>1, <1>t, NodeNat DEF Forest, Mine, TypeOK
<1>9. ~ (P[cur[t]] < cur[t]) => P[cur[t]] = cur[t] /\ rep[cur[t]] = cur[t]
  <2>1. ~ (P[cur[t]] < cur[t]) => P[cur[t]] = cur[t]
    BY <1>4, <1>8
  <2> QED
    BY <2>1, <1>1 DEF IInv, RootsAreReps, Mine
<1> QED
  BY <1>1, <1>5, <1>6, <1>7, <1>8, <1>9


\* One assignment P[cur] = root, of either set_root.
LEMMA SetCell ==
  ASSUME IInv, NEW t \in Thread, pc[t] \in {"set_i", "set_j"},
         P' = [P EXCEPT ![cur[t]] = root[t]],
         used' = used, owner' = owner
  PROVE  /\ P' \in [Node -> 0..N]
         /\ \A x \in used : P'[x] = IF x = cur[t] THEN root[t] ELSE P[x]
         /\ Forest'
<1>t. TypeOK /\ Forest
  BY DEF IInv
<1>1. /\ Mine(t, cur[t]) /\ Mine(t, root[t]) /\ root[t] <= cur[t]
  BY SetFacts
<1>2. root[t] \in 0..N /\ cur[t] \in Node
  BY <1>1, <1>t, NodeNat DEF Mine, TypeOK
<1>3. P' \in [Node -> 0..N]
  BY <1>2, <1>t DEF TypeOK
<1>4. \A x \in used : P'[x] = IF x = cur[t] THEN root[t] ELSE P[x]
  BY <1>t DEF TypeOK
<1>5. Forest'
  BY <1>1, <1>4, <1>t DEF Forest, Mine
<1> QED
  BY <1>3, <1>4, <1>5

\* The loops of set_root redirect edges only to the smaller of the two roots,
\* and leave no root of a joined class behind.
LEMMA SetRootInv ==
  ASSUME IInv, NEW t \in Thread, Compress(t) \/ AttachJ(t)
  PROVE  IInv'
<1> USE DEF Compress, AttachJ
<1>0. /\ pc[t] \in {"set_i", "set_j"}
      /\ P' = [P EXCEPT ![cur[t]] = root[t]]
      /\ UNCHANGED <<used, owner, i, j, root, rootj, rep, answer>>
  OBVIOUS
<1>t. TypeOK /\ RepIsSmallest /\ ThreadInv(t)
  BY DEF IInv
<1>s. /\ Mine(t, i[t]) /\ Mine(t, j[t]) /\ Mine(t, cur[t]) /\ Mine(t, root[t])
      /\ \A x \in used : rep[x] \in Joining(t) => Mine(t, x)
      /\ root[t] = E!Smaller(rep[i[t]], rep[j[t]])
      /\ root[t] \in Joining(t)
      /\ rep[root[t]] = root[t]
      /\ rep[cur[t]] \in Joining(t)
      /\ Mine(t, P[cur[t]])
      /\ P[cur[t]] <= cur[t]
      /\ ~ (P[cur[t]] < cur[t]) => P[cur[t]] = cur[t] /\ rep[cur[t]] = cur[t]
  BY <1>0, SetFacts
<1>p. /\ P' \in [Node -> 0..N]
      /\ \A x \in used : P'[x] = IF x = cur[t] THEN root[t] ELSE P[x]
      /\ Forest'
  BY <1>0, SetCell
<1>n. /\ i[t] \in Node /\ j[t] \in Node /\ cur[t] \in Node /\ P[cur[t]] \in Node
  BY <1>s, <1>t DEF Mine, TypeOK
<1>1. TypeOK'
  <2> i[t] \in 0..N /\ P[cur[t]] \in 0..N
    BY <1>n, NodeNat
  <2> QED
    BY <1>0, <1>p, <1>t DEF TypeOK
<1>2. RepIsSmallest'
  BY <1>0, <1>t DEF RepIsSmallest
<1>3. RootsAreReps'
  BY <1>0, <1>p, <1>s DEF IInv, RootsAreReps
<1>q. pc'[t] \in {"set_i", "set_j"} /\ \A u \in Thread : u # t => pc'[u] = pc[u] /\ cur'[u] = cur[u]
  BY <1>t DEF TypeOK
<1>4. EdgesInClass'
  <2> SUFFICES ASSUME NEW x \in used
               PROVE  \/ rep[P'[x]] = rep[x]
                      \/ /\ pc'[owner[x]] \in {"set_i", "set_j"}
                         /\ rep[x] \in Joining(owner[x])
                         /\ P'[x] = root[owner[x]]
    BY <1>0 DEF EdgesInClass, Joining
  <2>1. CASE x = cur[t]
    BY <2>1, <1>s, <1>p, <1>q DEF Mine
  <2>2. CASE x # cur[t]
    <3>1. P'[x] = P[x] /\ owner[x] \in Thread
      BY <2>2, <1>p, <1>t DEF TypeOK
    <3>2. \/ rep[P[x]] = rep[x]
          \/ /\ pc[owner[x]] \in {"set_i", "set_j"}
             /\ rep[x] \in Joining(owner[x])
             /\ P[x] = root[owner[x]]
      BY DEF IInv, EdgesInClass
    <3> QED
      BY <3>1, <3>2, <1>q, <1>0
  <2> QED
    BY <2>1, <2>2
<1>5. ASSUME NEW u \in Thread PROVE ThreadInv(u)'
  <2>1. CASE u = t
    <3>1. CASE Compress(t) /\ pc[t] = "set_j"
      <4>1. pc'[t] = "set_j" /\ cur'[t] = P[cur[t]] /\ P[cur[t]] < cur[t]
        BY <3>1, <1>t DEF TypeOK
      <4>2. rep[cur[t]] = rep[j[t]] /\ Untouched(j[t], cur[t])
            /\ (rep[i[t]] # rep[j[t]] => Untouched(i[t], N))
        BY <3>1, <1>t DEF ThreadInv
      <4>3. rep[P[cur[t]]] = rep[j[t]]
        BY <4>2, <1>s, <1>n, NodeNat DEF Untouched, Mine
      <4>4. Untouched(j[t], cur[t])'
        <5> SUFFICES ASSUME NEW y \in used, y <= P[cur[t]], rep[y] = rep[j[t]]
                     PROVE  rep[P'[y]] = rep[j[t]]
          BY <4>1, <1>0 DEF Untouched
        <5>1. y # cur[t] /\ y <= cur[t]
          BY <4>1, <1>n, <1>t, NodeNat DEF TypeOK
        <5> QED
          BY <5>1, <4>2, <1>p DEF Untouched
      <4>5. rep[i[t]] # rep[j[t]] => Untouched(i[t], N)'
        BY <4>2, <1>p, <1>0 DEF Untouched
      <4> QED
        BY <2>1, <4>1, <4>2, <4>3, <4>4, <4>5, <1>0, <1>s DEF ThreadInv, Mine
    <3>2. CASE Compress(t) /\ pc[t] = "set_i"
      <4>1. pc'[t] = "set_i" /\ cur'[t] = P[cur[t]] /\ P[cur[t]] < cur[t]
        BY <3>2, <1>t DEF TypeOK
      <4>2. rep[cur[t]] = rep[i[t]] /\ Untouched(i[t], cur[t])
            /\ (rep[j[t]] # root[t] => P[rep[j[t]]] = root[t])
        BY <3>2, <1>t DEF ThreadInv
      <4>3. rep[P[cur[t]]] = rep[i[t]]
        BY <4>2, <1>s, <1>n, NodeNat DEF Untouched, Mine
      <4>4. Untouched(i[t], cur[t])'
        <5> SUFFICES ASSUME NEW y \in used, y <= P[cur[t]], rep[y] = rep[i[t]]
                     PROVE  rep[P'[y]] = rep[i[t]]
          BY <4>1, <1>0 DEF Untouched
        <5>1. y # cur[t] /\ y <= cur[t]
          BY <4>1, <1>n, <1>t, NodeNat DEF TypeOK
        <5> QED
          BY <5>1, <4>2, <1>p DEF Untouched
      <4>5. rep[j[t]] \in used
        BY <1>s, <1>t DEF Mine, RepIsSmallest, TypeOK
      <4>6. rep[j[t]] # root[t] => P'[rep[j[t]]] = root[t]
        BY <4>2, <4>5, <1>p
      <4> QED
        BY <2>1, <4>1, <4>2, <4>3, <4>4, <4>6, <1>0, <1>s DEF ThreadInv, Mine
    <3>3. CASE AttachJ(t)
      <4>1. pc'[t] = "set_i" /\ cur'[t] = i[t] /\ cur[t] = rep[j[t]]
            /\ (rep[i[t]] # rep[j[t]] => Untouched(i[t], N))
        BY <3>3, <1>t, <1>s DEF TypeOK, ThreadInv
      <4>2. P'[rep[j[t]]] = root[t]
        BY <4>1, <1>p, <1>s DEF Mine
      <4>3. Untouched(i[t], cur[t])'
        <5> SUFFICES ASSUME NEW y \in used, rep[y] = rep[i[t]]
                     PROVE  rep[P'[y]] = rep[i[t]]
          BY <4>1, <1>0 DEF Untouched
        <5>1. CASE rep[i[t]] # rep[j[t]]
          <6>1. y <= N /\ y # cur[t]
            BY <5>1, <4>1, <1>t, <1>n, NodeNat DEF TypeOK, RepIsSmallest
          <6> QED
            BY <5>1, <6>1, <4>1, <1>p DEF Untouched
        <5>2. CASE rep[i[t]] = rep[j[t]]
          <6>1. root[t] = rep[i[t]]
            BY <5>2, <1>s DEF Joining
          <6>2. Mine(t, y)
            BY <1>s DEF Joining
          <6>3. rep[P[y]] = rep[y] \/ P[y] = root[t]
            BY <6>2 DEF IInv, EdgesInClass, Mine
          <6> QED
            BY <6>1, <6>3, <1>p, <1>s
        <5> QED
          BY <5>1, <5>2
      <4> QED
        BY <2>1, <4>1, <4>2, <4>3, <1>0, <1>s DEF ThreadInv, Mine
    <3> QED
      BY <3>1, <3>2, <3>3
  <2>2. CASE u # t
    <3>1. \A x \in used : owner[x] = u => P'[x] = P[x]
      BY <2>2, <1>p, <1>s DEF Mine
    <3> QED
      BY <2>2, <3>1, <1>q, <1>0, <1>2, <1>t, OtherThreads DEF TypeOK
  <2> QED
    BY <2>1, <2>2
<1> QED
  BY <1>1, <1>p, <1>2, <1>3, <1>4, <1>5 DEF IInv


(***************************************************************************)
(* set_union returns: the two classes are one in the array and in rep.     *)
(***************************************************************************)
LEMMA ReturnInv ==
  ASSUME IInv, NEW t \in Thread, Return(t)
  PROVE  IInv'
<1> USE DEF Return
<1>0. /\ pc[t] = "set_i"
      /\ ~ (P[cur[t]] < cur[t])
      /\ P' = [P EXCEPT ![cur[t]] = root[t]]
      /\ UNCHANGED <<used, owner>>
  OBVIOUS
<1>t. TypeOK /\ RepIsSmallest /\ ThreadInv(t)
  BY DEF IInv
<1>s. /\ Mine(t, i[t]) /\ Mine(t, j[t]) /\ Mine(t, cur[t]) /\ Mine(t, root[t])
      /\ \A x \in used : rep[x] \in Joining(t) => Mine(t, x)
      /\ root[t] = E!Smaller(rep[i[t]], rep[j[t]])
      /\ root[t] \in Joining(t)
      /\ root[t] <= rep[i[t]] /\ root[t] <= rep[j[t]]
      /\ rep[root[t]] = root[t]
      /\ rep[cur[t]] = cur[t]
  BY <1>0, SetFacts
<1>c. cur[t] = rep[i[t]] /\ (rep[j[t]] # root[t] => P[rep[j[t]]] = root[t])
  BY <1>0, <1>t, <1>s DEF ThreadInv
<1>p. /\ P' \in [Node -> 0..N]
      /\ \A x \in used : P'[x] = IF x = cur[t] THEN root[t] ELSE P[x]
      /\ Forest'
  BY <1>0, SetCell
<1>n. i[t] \in Node /\ j[t] \in Node /\ root[t] \in Node
  BY <1>s, <1>t DEF Mine, TypeOK
\* The classes after the step.
<1>r. \A x \in Node : rep'[x] = IF rep[x] \in Joining(t) THEN root[t] ELSE rep[x]
  BY <1>s DEF E!Joined, E!Node, Node, Joining
<1>1. TypeOK'
  <2>1. rep' \in [Node -> Node]
    <3>1. \A x \in Node : rep'[x] \in Node
      BY <1>r, <1>n, <1>t DEF TypeOK
    <3> QED
      BY <3>1 DEF E!Joined, E!Node, Node
  <2>2. answer' \in (0..N) \X (0..N) \X (0..N) /\ 0 \in 0..N
    BY <1>t, ConstantsAssumption DEF TypeOK
  <2>3. pc' \in [Thread -> {"idle", "find_i", "find_j", "set_i", "set_j"}]
    BY <1>t DEF TypeOK
  <2> QED
    BY <2>1, <2>2, <2>3, <1>p, <1>t DEF TypeOK
<1>o. ASSUME NEW x \in Node, rep[x] \in Joining(t)
      PROVE  owner[x] = t /\ x \in used /\ root[t] <= rep[x]
  <2>1. \A y \in {i[t], j[t]} : y \in used /\ owner[rep[y]] = t /\ rep[y] \in used
    BY <1>s, <1>n, <1>t DEF Mine, RepIsSmallest
  <2>2. owner[rep[x]] = owner[x] /\ (x \notin used => rep[x] = x)
    BY <1>t DEF RepIsSmallest
  <2> QED
    BY <1>o, <1>s, <2>1, <2>2 DEF Joining
<1>2. RepIsSmallest'
  <2> SUFFICES ASSUME NEW x \in Node
               PROVE  /\ rep'[x] <= x
                      /\ rep'[rep'[x]] = rep'[x]
                      /\ owner[rep'[x]] = owner[x]
                      /\ IF x \in used THEN rep'[x] \in used ELSE rep'[x] = x
    BY <1>0 DEF RepIsSmallest
  <2>1. /\ rep[x] <= x /\ rep[rep[x]] = rep[x] /\ owner[rep[x]] = owner[x]
        /\ IF x \in used THEN rep[x] \in used ELSE rep[x] = x
        /\ rep[x] \in Node
    BY <1>t DEF RepIsSmallest, TypeOK
  <2>2. CASE rep[x] \in Joining(t)
    <3>1. rep'[x] = root[t] /\ rep'[root[t]] = root[t]
      BY <2>2, <1>r, <1>n, <1>s
    <3>2. root[t] <= x
      <4>1. x \in Nat /\ rep[x] \in Nat /\ root[t] \in Nat
        BY <2>1, <1>n, NodeNat
      <4> QED
        BY <4>1, <2>1, <2>2, <1>o
    <3> QED
      BY <3>1, <3>2, <2>2, <1>o, <1>s DEF Mine
  <2>3. CASE rep[x] \notin Joining(t)
    BY <2>1, <2>3, <1>r
  <2> QED
    BY <2>2, <2>3
<1>3. RootsAreReps'
  <2> SUFFICES ASSUME NEW x \in used, P'[x] = x PROVE rep'[x] = x
    BY <1>0 DEF RootsAreReps
  <2>1. x \in Node
    BY <1>t DEF TypeOK
  <2>2. CASE x = cur[t]
    BY <2>1, <2>2, <1>c, <1>p, <1>r, <1>s DEF Joining
  <2>3. CASE x # cur[t]
    <3>1. rep[x] = x
      BY <2>3, <1>p DEF IInv, RootsAreReps
    <3>2. rep[x] \in Joining(t) => x = root[t]
      BY <3>1, <2>3, <1>c, <1>p DEF Joining
    <3> QED
      BY <2>1, <3>1, <3>2, <1>r
  <2> QED
    BY <2>2, <2>3
<1>q. /\ pc'[t] = "idle"
      /\ \A u \in Thread : u # t =>
            /\ pc'[u] = pc[u] /\ i'[u] = i[u] /\ j'[u] = j[u]
            /\ root'[u] = root[u] /\ rootj'[u] = rootj[u] /\ cur'[u] = cur[u]
  BY <1>t DEF TypeOK
<1>e. ASSUME NEW u \in Thread, u # t, NEW x, Mine(u, x)
      PROVE  rep'[x] = rep[x] /\ P'[x] = P[x]
  BY <1>e, <1>o, <1>r, <1>p, <1>s, <1>t DEF Mine, TypeOK
<1>4. EdgesInClass'
  <2> SUFFICES ASSUME NEW x \in used, rep'[P'[x]] # rep'[x]
               PROVE  /\ pc'[owner[x]] \in {"set_i", "set_j"}
                      /\ rep'[x] \in Joining(owner[x])'
                      /\ P'[x] = root'[owner[x]]
    BY <1>0 DEF EdgesInClass
  <2>0. x \in Node /\ owner[x] \in Thread /\ P[x] \in Node
    BY <1>t DEF TypeOK, IInv, Forest
  <2>1. \/ rep[P[x]] = rep[x]
        \/ /\ pc[owner[x]] \in {"set_i", "set_j"}
           /\ rep[x] \in Joining(owner[x])
           /\ P[x] = root[owner[x]]
    BY DEF IInv, EdgesInClass
  <2>2. rep'[root[t]] = root[t]
    BY <1>r, <1>n, <1>s
  <2>3. x # cur[t]
    BY <2>0, <2>2, <1>c, <1>s, <1>p, <1>r DEF Joining
  <2>4. P'[x] = P[x]
    BY <2>3, <1>p
  <2>5. rep[P[x]] # rep[x]
    BY <2>0, <2>4, <1>r
  <2>6. owner[x] # t
    BY <2>0, <2>1, <2>2, <2>4, <2>5, <1>r
  <2>7. /\ Mine(owner[x], x)
        /\ Mine(owner[x], i[owner[x]])
        /\ Mine(owner[x], j[owner[x]])
    BY <2>0, <2>1, <2>5 DEF IInv, ThreadInv, Mine
  <2> QED
    BY <2>0, <2>1, <2>4, <2>5, <2>6, <2>7, <1>e, <1>q DEF Joining
<1>5. ASSUME NEW u \in Thread PROVE ThreadInv(u)'
  <2>1. CASE u = t
    BY <2>1, <1>q DEF ThreadInv
  <2>2. CASE u # t
    BY <2>2, <1>0, <1>2, <1>q, <1>e, <1>t, OtherThreads DEF TypeOK, Mine
  <2> QED
    BY <2>1, <2>2
<1> QED
  BY <1>1, <1>p, <1>2, <1>3, <1>4, <1>5 DEF IInv

\* Every step of every thread preserves the inductive invariant.
LEMMA NextInv == IInv /\ [Next]_vars => IInv'
<1> SUFFICES ASSUME IInv, [Next]_vars PROVE IInv'
  OBVIOUS
<1>1. CASE Join
  BY <1>1, JoinInv
<1>2. ASSUME NEW t \in Thread, NEW x \in Node, NewLabel(t, x) PROVE IInv'
  BY <1>2, NewLabelInv
<1>3. ASSUME NEW t \in Thread, NEW x \in Node, NEW y \in Node, Call(t, x, y) PROVE IInv'
  BY <1>3, CallInv
<1>4. ASSUME NEW t \in Thread, SetUnion(t) PROVE IInv'
  BY <1>4, FindInv, SetRootInv, ReturnInv DEF SetUnion
<1>5. CASE UNCHANGED vars
  BY <1>5 DEF vars, IInv, TypeOK, Forest, RepIsSmallest, RootsAreReps, EdgesInClass,
              Joining, ThreadInv, Mine, Untouched
<1> QED
  BY <1>1, <1>2, <1>3, <1>4, <1>5 DEF Next

(***************************************************************************)
(* The inductive invariant holds for any number of labels and threads:     *)
(* every thread inside set_union is where ThreadInv says.                  *)
(***************************************************************************)
THEOREM Invariance == Spec => []IInv
  BY InitInv, NextInv, PTL DEF Spec

(***************************************************************************)
(* Types: set_union never stores or follows anything but a label.          *)
(***************************************************************************)
THEOREM TypeCorrect == Spec => []TypeOK
<1>1. IInv => TypeOK
  BY DEF IInv
<1> QED
  BY <1>1, Invariance, PTL

(***************************************************************************)
(* Parents are labels that were handed out, never larger than their        *)
(* children, and never leave the thread's own labels.                      *)
(***************************************************************************)
THEOREM ForestAlways == Spec => []Forest
<1>1. IInv => Forest
  BY DEF IInv
<1> QED
  BY <1>1, Invariance, PTL

(***************************************************************************)
(* Between calls the array of ccl.h encodes the classes exactly, and the   *)
(* root of each class is its smallest label.                               *)
(***************************************************************************)
THEOREM PartitionEncoded == Spec => []ArrayIsPartition
<1>1. IInv => ArrayIsPartition
  <2> SUFFICES ASSUME IInv, \A t \in Thread : Idle(t), NEW x \in used
               PROVE  rep[P[x]] = rep[x] /\ (P[x] = x <=> rep[x] = x)
    BY DEF ArrayIsPartition
  <2>0. x \in Node /\ owner[x] \in Thread /\ P[x] \in used /\ P[x] \in Node /\ P[x] <= x
    BY DEF IInv, TypeOK, Forest
  <2>1. rep[P[x]] = rep[x]
    BY <2>0 DEF IInv, EdgesInClass, Idle
  <2>2. P[x] = x => rep[x] = x
    BY DEF IInv, RootsAreReps
  <2>3. ASSUME rep[x] = x PROVE P[x] = x
    <3>1. rep[P[x]] <= P[x]
      BY <2>0 DEF IInv, RepIsSmallest
    <3>2. x \in Nat /\ P[x] \in Nat
      BY <2>0, NodeNat
    <3> QED
      BY <3>1, <3>2, <2>0, <2>1, <2>3
  <2> QED
    BY <2>1, <2>2, <2>3
<1> QED
  BY <1>1, Invariance, PTL

(***************************************************************************)
(* A label's parent changes only while its own thread is inside set_union. *)
(***************************************************************************)
THEOREM SlicesDoNotInterfere == Spec => OwnLabelsOnly
<1>1. IInv /\ [Next]_vars =>
        [\A x \in used : P'[x] # P[x] =>
            \/ pc'[owner[x]] # pc[owner[x]]
            \/ cur'[owner[x]] # cur[owner[x]]]_vars
  <2> SUFFICES ASSUME IInv, Next, NEW x \in used, P'[x] # P[x]
               PROVE  pc'[owner[x]] # pc[owner[x]] \/ cur'[owner[x]] # cur[owner[x]]
    OBVIOUS
  <2>0. TypeOK
    BY DEF IInv
  <2>1. ~ Join
    BY DEF Join
  <2>2. ASSUME NEW t \in Thread, NEW y \in Node, NewLabel(t, y) PROVE FALSE
    BY <2>2, <2>0 DEF NewLabel, TypeOK
  <2>3. ASSUME NEW t \in Thread, NEW y \in Node, NEW z \in Node, Call(t, y, z) PROVE FALSE
    BY <2>3 DEF Call
  <2>4. ASSUME NEW t \in Thread, FindI(t) \/ FoundI(t) \/ FoundSame(t) \/ FindJ(t) \/ FoundJ(t)
        PROVE  FALSE
    BY <2>4 DEF FindI, FoundI, FoundSame, FindJ, FoundJ
  <2>5. ASSUME NEW t \in Thread, Compress(t) \/ AttachJ(t) \/ Return(t)
        PROVE  pc'[owner[x]] # pc[owner[x]] \/ cur'[owner[x]] # cur[owner[x]]
    <3>1. x = cur[t] /\ Mine(t, cur[t]) /\ P[cur[t]] <= cur[t]
      BY <2>5, <2>0, SetFacts DEF Compress, AttachJ, Return, TypeOK
    <3>2. owner[x] = t
      BY <3>1 DEF Mine
    <3>3. CASE Compress(t)
      <4>1. cur'[t] = P[cur[t]] /\ P[cur[t]] < cur[t]
        BY <3>3, <2>0 DEF Compress, TypeOK
      <4>2. P[cur[t]] \in Nat /\ cur[t] \in Nat
        BY <3>1, <2>0, NodeNat DEF TypeOK
      <4> QED
        BY <4>1, <4>2, <3>2
    <3>4. CASE AttachJ(t)
      BY <3>2, <3>4, <2>0 DEF AttachJ, TypeOK
    <3>5. CASE Return(t)
      BY <3>2, <3>5, <2>0 DEF Return, TypeOK
    <3> QED
      BY <2>5, <3>3, <3>4, <3>5
  <2> QED
    BY <2>1, <2>2, <2>3, <2>4, <2>5 DEF Next, SetUnion
<1> QED
  BY <1>1, Invariance, PTL DEF Spec, OwnLabelsOnly

(***************************************************************************)
(* set_union, loop by loop and by several threads at once, implements the  *)
(* union of two classes in one step.                                       *)
(***************************************************************************)
THEOREM Refinement == Spec => ImplementsEquivalence
<1>1. Init => E!AInit
  BY DEF Init, E!AInit, E!Node, Node
<1>2. IInv /\ [Next]_vars => [E!ANext]_(E!avars)
  <2> SUFFICES ASSUME IInv, [Next]_vars PROVE [E!ANext]_(E!avars)
    OBVIOUS
  <2>1. ASSUME NEW t \in Thread, NEW x \in Node, NewLabel(t, x)
        PROVE  E!ANext
    <3>1. E!ANewLabel(x)
      BY <2>1 DEF NewLabel, E!ANewLabel
    <3> QED
      BY <3>1 DEF E!ANext, E!Node, Node
  <2>2. ASSUME NEW t \in Thread, Return(t)
        PROVE  E!ANext
    <3>1. /\ Mine(t, i[t]) /\ Mine(t, j[t])
          /\ root[t] = E!Smaller(rep[i[t]], rep[j[t]])
      BY <2>2, SetFacts DEF Return
    <3>2. E!AUnion(i[t], j[t])
      BY <2>2, <3>1 DEF Return, E!AUnion, Mine
    <3>3. i[t] \in Node /\ j[t] \in Node
      BY <3>1 DEF IInv, TypeOK, Mine
    <3> QED
      BY <3>2, <3>3 DEF E!ANext, E!Node, Node
  <2>3. ASSUME Join \/ (\E t \in Thread : \/ \E x, y \in Node : Call(t, x, y)
                                          \/ FindI(t) \/ FoundI(t) \/ FoundSame(t)
                                          \/ FindJ(t) \/ FoundJ(t) \/ Compress(t) \/ AttachJ(t))
        PROVE  UNCHANGED E!avars
    BY <2>3 DEF Join, Call, FindI, FoundI, FoundSame, FindJ, FoundJ, Compress, AttachJ, E!avars
  <2>4. CASE UNCHANGED vars
    BY <2>4 DEF vars, E!avars
  <2> QED
    BY <2>1, <2>2, <2>3, <2>4 DEF Next, SetUnion
<1> QED
  BY <1>1, <1>2, Invariance, PTL DEF Spec, ImplementsEquivalence, E!ASpec

==============================================================================
