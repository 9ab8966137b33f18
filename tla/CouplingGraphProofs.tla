------------------------ MODULE CouplingGraphProofs ------------------------
(***************************************************************************)
(* Proofs about CouplingGraph, for every number of leaves and every set of *)
(* dependencies between them.                                              *)
(***************************************************************************)
EXTENDS CouplingGraph, SequenceTheorems, FiniteSetTheorems, WellFoundedInduction, TLAPS

(* A nonempty set of numbers has a least one.                               *)
LEMMA LeastNumber ==
  ASSUME NEW T \in SUBSET Nat, T # {}
  PROVE  \E n \in T : \A m \in T : n <= m
<1>1. IsWellFoundedOn({ss \in Nat \X Nat : ss[1] < ss[2]}, Nat)
  BY NatLessThanWellFounded DEF OpToRel
<1>2. \E n \in T : \A m \in T : ~ (<<m, n>> \in {ss \in Nat \X Nat : ss[1] < ss[2]})
  BY <1>1, WFMin, Zenon
<1>3. \A m, n \in T : ~ (<<m, n>> \in {ss \in Nat \X Nat : ss[1] < ss[2]}) => n <= m
  OBVIOUS
<1>4. QED
  BY <1>2, <1>3, Zenon

(* A set that has zero and the successor of each of its numbers has them    *)
(* all.                                                                     *)
LEMMA SetInduction ==
  ASSUME NEW T, 0 \in T, \A n \in Nat : n \in T => n + 1 \in T
  PROVE  \A n \in Nat : n \in T
<1> SUFFICES ASSUME Nat \ T # {} PROVE FALSE
  OBVIOUS
<1>1. PICK n \in Nat \ T : \A m \in Nat \ T : n <= m
  BY LeastNumber
<1>2. QED
  BY <1>1, n - 1 \in Nat

USE EdgeAssumption, IndexAssumption

----------------------------------------------------------------------------
(* The invariant of the search.                                             *)

Frame == [node : Nodes, at : Nat \ {0}]

Typed ==
  /\ successors \in [Nodes -> Seq(Nodes)]
  /\ index \in [Nodes -> Nat \cup {None}]
  /\ lowlink \in [Nodes -> Nat]
  /\ onStack \in [Nodes -> BOOLEAN]
  /\ stack \in Seq(Nodes)
  /\ nextIndex \in Nat
  /\ components \in Seq(Seq(Nodes))
  /\ frames \in Seq(Frame)
  /\ root \in 0 .. NNodes
  /\ \A n \in Nodes : \A k \in 1 .. Len(successors[n]) : successors[n][k] # n

Met(n)     == index[n] # None
Framed(n)  == \E f \in 1 .. Len(frames) : frames[f].node = n

(* The search is past an arc: its turn of the loop is over.                 *)
Past(n, k) == Met(n) /\ \A f \in 1 .. Len(frames) : frames[f].node = n => k < frames[f].at

(* A leaf is stacked as long as it is met and in no stage yet, in the order *)
(* the leaves were met in.                                                  *)
StackInv ==
  /\ \A n \in Nodes : onStack[n] <=> Met(n) /\ n \notin Schedule!Scheduled
  /\ \A n \in Schedule!Scheduled : Met(n)
  /\ \A n \in Nodes : onStack[n] <=> \E k \in 1 .. Len(stack) : stack[k] = n
  /\ \A i, j \in 1 .. Len(stack) : i < j => index[stack[i]] < index[stack[j]]
  /\ \A n \in Nodes : Met(n) => index[n] < nextIndex

(* The visits in progress are a path of the graph, of stacked leaves, each  *)
(* of which depends on whatever was stacked after it.                       *)
FrameInv ==
  /\ \A f \in 1 .. Len(frames) :
       /\ onStack[frames[f].node]
       /\ frames[f].at <= Len(successors[frames[f].node]) + 1
       /\ \A n \in Nodes :
            onStack[n] /\ index[frames[f].node] < index[n] =>
              n \in Schedule!Reached(frames[f].node)
  /\ \A f, g \in 1 .. Len(frames) :
       f < g => index[frames[f].node] < index[frames[g].node]
  /\ \A f \in 1 .. Len(frames) - 1 :
       /\ frames[f].at <= Len(successors[frames[f].node])
       /\ successors[frames[f].node][frames[f].at] = frames[f + 1].node

(* A lowlink is the index of a stacked leaf that the leaf depends on, not   *)
(* after it, and before it once its visit is over.                          *)
LowInv ==
  \A n \in Nodes : onStack[n] =>
    /\ lowlink[n] <= index[n]
    /\ ~Framed(n) => lowlink[n] < index[n]
    /\ \E m \in Nodes : onStack[m] /\ index[m] = lowlink[n] /\ m \in Schedule!Reached(n)

(* The arcs the search is past lead to leaves it has met, and no lower on   *)
(* the stack than the lowlink tells.                                        *)
PastInv ==
  \A n \in Nodes : \A k \in 1 .. Len(successors[n]) :
    Past(n, k) =>
      /\ Met(successors[n][k])
      /\ onStack[n] /\ onStack[successors[n][k]] => lowlink[n] <= index[successors[n][k]]

(* The lowlink of a visit in progress takes into account those of the       *)
(* visits it has made that are over.                                        *)
TakenInv ==
  \A f \in 1 .. Len(frames), n \in Nodes :
    /\ onStack[n] /\ ~Framed(n) /\ index[frames[f].node] < index[n]
    /\ f < Len(frames) => index[n] < index[frames[f + 1].node]
    => lowlink[frames[f].node] <= lowlink[n]

(* The stages so far are components, in ascending order, and closed.        *)
StageInv ==
  /\ \A k \in 1 .. Len(components) :
       /\ \E n \in Nodes : Range(components[k]) = Schedule!Component(n)
       /\ \A i, j \in 1 .. Len(components[k]) :
            i < j => components[k][i] < components[k][j]
  /\ Schedule!Closed(Schedule!Scheduled)

(* The outermost visit is at the bottom of the stack, and the leaves the    *)
(* outer loop is past are met.                                              *)
RootInv ==
  /\ \A n \in Nodes : onStack[n] => frames # <<>> /\ index[frames[1].node] <= index[n]
  /\ \A n \in Nodes : n < root => Met(n)

Inv ==
  Typed /\ StackInv /\ FrameInv /\ LowInv /\ PastInv /\ TakenInv /\ StageInv /\ RootInv

----------------------------------------------------------------------------
(* Sorting: a finite set that a relation orders has its members in order.   *)

Orders(Less, S) ==
  /\ \A x \in S : <<x, x>> \notin Less
  /\ \A x, y, z \in S : <<x, y>> \in Less /\ <<y, z>> \in Less => <<x, z>> \in Less
  /\ \A x, y \in S : x # y => <<x, y>> \in Less \/ <<y, x>> \in Less

Greatest(Less, S, m) == m \in S /\ \A x \in S : x # m => <<x, m>> \in Less

(* A finite nonempty ordered set has a greatest member.                     *)
LEMMA GreatestExists ==
  ASSUME NEW Less, NEW S, IsFiniteSet(S), Orders(Less, S), S # {}
  PROVE  \E m : Greatest(Less, S, m)
<1> DEFINE T == {n \in Nat : \A U \in SUBSET S :
                   Cardinality(U) = n + 1 => \E m : Greatest(Less, U, m)}
<1>1. 0 \in T
  <2> SUFFICES ASSUME NEW U \in SUBSET S, Cardinality(U) = 0 + 1
               PROVE  \E m : Greatest(Less, U, m)
    OBVIOUS
  <2>1. IsFiniteSet(U)
    BY FS_Subset
  <2>2. PICK m : U = {m}
    BY <2>1, FS_Singleton
  <2>3. QED
    BY <2>2 DEF Greatest
<1>2. ASSUME NEW n \in Nat, n \in T
      PROVE  n + 1 \in T
  <2> SUFFICES ASSUME NEW U \in SUBSET S, Cardinality(U) = (n + 1) + 1
               PROVE  \E m : Greatest(Less, U, m)
    OBVIOUS
  <2>1. IsFiniteSet(U)
    BY FS_Subset
  <2>2. U # {}
    BY <2>1, FS_EmptySet
  <2>3. PICK x \in U : TRUE
    BY <2>2
  <2> DEFINE V == U \ {x}
  <2>4. Cardinality(V) = n + 1
    BY <2>1, FS_RemoveElement
  <2>5. V \in SUBSET S
    OBVIOUS
  <2> HIDE DEF V
  <2>6. PICK m : Greatest(Less, V, m)
    BY <1>2, <2>4, <2>5
  <2>7. m \in U /\ m # x /\ \A y \in U : y # m /\ y # x => <<y, m>> \in Less
    BY <2>6 DEF Greatest, V
  <2>8. CASE <<x, m>> \in Less
    BY <2>7, <2>8 DEF Greatest
  <2>9. CASE <<m, x>> \in Less
    <3>1. \A y \in U : y # x => <<y, x>> \in Less
      BY <2>7, <2>9 DEF Orders
    <3>2. QED
      BY <3>1 DEF Greatest
  <2>10. QED
    BY <2>7, <2>8, <2>9 DEF Orders
<1>3. \A n \in Nat : n \in T
  <2> HIDE DEF T
  <2>1. QED
    BY <1>1, <1>2, SetInduction
<1>4. Cardinality(S) \in Nat /\ Cardinality(S) # 0
  BY FS_CardinalityType, FS_EmptySet
<1>5. Cardinality(S) - 1 \in T /\ (Cardinality(S) - 1) + 1 = Cardinality(S)
  <2> HIDE DEF T
  <2>1. QED
    BY <1>3, <1>4
<1>6. QED
  BY <1>5

InOrder(Less, S, s) ==
  /\ s \in [1 .. Cardinality(S) -> S]
  /\ \A i, j \in 1 .. Cardinality(S) : i < j => <<s[i], s[j]>> \in Less

(* A finite ordered set can be listed in order.                             *)
LEMMA OrderExists ==
  ASSUME NEW Less, NEW S, IsFiniteSet(S), Orders(Less, S)
  PROVE  \E s : InOrder(Less, S, s)
<1> DEFINE T == {n \in Nat : \A U \in SUBSET S :
                   Cardinality(U) = n => \E s : InOrder(Less, U, s)}
<1>1. 0 \in T
  <2> SUFFICES ASSUME NEW U \in SUBSET S, Cardinality(U) = 0
               PROVE  \E s : InOrder(Less, U, s)
    OBVIOUS
  <2>1. InOrder(Less, U, [k \in 1 .. 0 |-> k])
    BY DEF InOrder
  <2>2. QED
    BY <2>1
<1>2. ASSUME NEW n \in Nat, n \in T
      PROVE  n + 1 \in T
  <2> SUFFICES ASSUME NEW U \in SUBSET S, Cardinality(U) = n + 1
               PROVE  \E s : InOrder(Less, U, s)
    OBVIOUS
  <2>1. IsFiniteSet(U) /\ Orders(Less, U)
    BY FS_Subset DEF Orders
  <2>2. U # {}
    BY <2>1, FS_EmptySet
  <2>3. PICK m : Greatest(Less, U, m)
    BY <2>1, <2>2, GreatestExists
  <2> DEFINE V == U \ {m}
  <2>4. m \in U /\ Cardinality(V) = n
    BY <2>1, <2>3, FS_RemoveElement DEF Greatest
  <2>5. V \in SUBSET S
    OBVIOUS
  <2>6. \A x \in V : x \in U /\ <<x, m>> \in Less
    BY <2>3 DEF Greatest
  <2> HIDE DEF V
  <2>7. PICK s : InOrder(Less, V, s)
    BY <1>2, <2>4, <2>5
  <2> DEFINE t == [k \in 1 .. n + 1 |-> IF k = n + 1 THEN m ELSE s[k]]
  <2>8. ASSUME NEW k \in 1 .. n + 1, k # n + 1
        PROVE  k \in 1 .. n /\ t[k] = s[k] /\ s[k] \in V
    BY <2>4, <2>7, <2>8 DEF InOrder
  <2>9. n + 1 \in 1 .. n + 1 /\ t[n + 1] = m
    OBVIOUS
  <2>10. t \in [1 .. n + 1 -> U]
    <3>1. \A k \in 1 .. n + 1 : t[k] \in U
      BY <2>4, <2>6, <2>8, <2>9
    <3>2. QED
      BY <3>1
  <2> HIDE DEF t
  <2>11. ASSUME NEW i \in 1 .. n + 1, NEW j \in 1 .. n + 1, i < j
         PROVE  <<t[i], t[j]>> \in Less
    <3>1. i # n + 1
      BY <2>11
    <3>2. CASE j = n + 1
      BY <2>6, <2>8, <2>9, <3>1, <3>2
    <3>3. CASE j # n + 1
      <4>1. i \in 1 .. n /\ j \in 1 .. n /\ t[i] = s[i] /\ t[j] = s[j]
        BY <2>8, <3>1, <3>3
      <4>2. QED
        BY <2>4, <2>7, <2>11, <4>1 DEF InOrder
    <3>4. QED
      BY <3>2, <3>3
  <2>12. InOrder(Less, U, t)
    BY <2>10, <2>11 DEF InOrder
  <2>13. QED
    BY <2>12
<1>3. \A n \in Nat : n \in T
  <2> HIDE DEF T
  <2>1. QED
    BY <1>1, <1>2, SetInduction
<1>4. Cardinality(S) \in Nat
  BY FS_CardinalityType
<1>5. QED
  BY <1>3, <1>4

(* Put in order, the members are all there.                                 *)
LEMMA OrderIsWhole ==
  ASSUME NEW Less, NEW S, IsFiniteSet(S), Orders(Less, S), NEW s, InOrder(Less, S, s)
  PROVE  s \in Seq(S) /\ Len(s) = Cardinality(S) /\ Range(s) = S
<1> DEFINE n == Cardinality(S)
<1>1. n \in Nat
  BY FS_CardinalityType
<1>2. s \in [1 .. n -> S]
  BY DEF InOrder
<1>3. \A i, j \in 1 .. n : i < j => <<s[i], s[j]>> \in Less
  BY DEF InOrder
<1> HIDE DEF n
<1>4. ASSUME NEW i \in 1 .. n, NEW j \in 1 .. n, s[i] = s[j], i # j
      PROVE  FALSE
  <2>1. s[i] \in S /\ <<s[i], s[i]>> \notin Less
    BY <1>2 DEF Orders
  <2>2. i < j \/ j < i
    BY <1>1, <1>4
  <2>3. QED
    BY <1>3, <1>4, <2>1, <2>2
<1>5. s \in Injection(1 .. n, S)
  BY <1>2, <1>4 DEF Injection, IsInjective
<1>6. Cardinality(1 .. n) = n
  BY <1>1, FS_Interval
<1>7. s \in Surjection(1 .. n, S)
  BY <1>5, <1>6, FS_Injection DEF n
<1>8. Range(s) = S
  BY <1>2, <1>7 DEF Surjection, Range
<1>9. s \in Seq(S) /\ Len(s) = n
  BY <1>1, <1>2
<1>10. QED
  BY <1>8, <1>9 DEF n

(* What sort_unstable makes of a component.                                 *)
LEMMA AscendingMembers ==
  ASSUME NEW S \in SUBSET Nodes, NEW s, s = Ascending(S)
  PROVE  /\ s \in Seq(Nodes)
         /\ Range(s) = S
         /\ Len(s) = Cardinality(S)
         /\ \A i, j \in 1 .. Len(s) : i < j => s[i] < s[j]
<1> DEFINE Less == {p \in Nodes \X Nodes : p[1] < p[2]}
           n == Cardinality(S)
<1>1. IsFiniteSet(S)
  <2>1. IsFiniteSet(Nodes)
    BY FS_Interval DEF Nodes
  <2>2. QED
    BY <2>1, FS_Subset
<1>2. \A a, b \in Nodes : <<a, b>> \in Less <=> a < b
  OBVIOUS
<1> HIDE DEF Less
<1>3. Orders(Less, S)
  BY <1>2 DEF Orders, Nodes
<1>4. n \in Nat
  BY <1>1, FS_CardinalityType
<1>5. \A t \in [1 .. n -> S] :
        InOrder(Less, S, t) <=> \A i, j \in 1 .. n : i < j => t[i] < t[j]
  BY <1>2, <1>4 DEF InOrder
<1>6. \E t \in [1 .. n -> S] : \A i, j \in 1 .. n : i < j => t[i] < t[j]
  <2>1. PICK t : InOrder(Less, S, t)
    BY <1>1, <1>3, OrderExists
  <2>2. t \in [1 .. n -> S]
    BY <2>1 DEF InOrder
  <2>3. QED
    BY <1>5, <2>1, <2>2
<1>7. s = CHOOSE t \in [1 .. n -> S] : \A i, j \in 1 .. n : i < j => t[i] < t[j]
  BY DEF Ascending, Sorted
<1>8. s \in [1 .. n -> S] /\ \A i, j \in 1 .. n : i < j => s[i] < s[j]
  BY <1>6, <1>7
<1>9. InOrder(Less, S, s)
  BY <1>5, <1>8
<1>10. s \in Seq(S) /\ Len(s) = n /\ Range(s) = S
  BY <1>1, <1>3, <1>9, OrderIsWhole
<1>11. s \in Seq(Nodes)
  BY <1>4, <1>8
<1>12. QED
  BY <1>8, <1>10, <1>11

(* What sort_by_key makes of the dependencies of a row.                     *)
LEMMA SuccessorsTyped ==
  ASSUME NEW dependencies \in SUBSET Edges, NEW node \in Nodes
  PROVE  /\ SuccessorsOf(dependencies, node) \in Seq(Nodes)
         /\ \A k \in 1 .. Len(SuccessorsOf(dependencies, node)) :
              SuccessorsOf(dependencies, node)[k] # node
<1> DEFINE D    == {d \in dependencies : d.row = node}
           Less == {p \in Edges \X Edges : Before(p[1], p[2])}
           n    == Cardinality(D)
           s    == CHOOSE t \in [1 .. n -> D] : \A i, j \in 1 .. n : i < j => Before(t[i], t[j])
<1>1. \A d \in D : /\ d \in Edges /\ d.row = node
                   /\ d \in [row : Nodes, column : Nodes, argument : Arguments]
                   /\ d.column \in Nodes /\ d.column # node
  OBVIOUS
<1>2. IsFiniteSet(D)
  <2> DEFINE R == Nodes \X (Nodes \X Arguments)
             E == {[row |-> p[1], column |-> p[2][1], argument |-> p[2][2]] : p \in R}
             f == [p \in R |-> [row |-> p[1], column |-> p[2][1], argument |-> p[2][2]]]
  <2>1. IsFiniteSet(Nodes) /\ IsFiniteSet(Arguments)
    <3>1. Arguments = 0 .. 1
      BY DEF Arguments
    <3>2. 0 \in Int /\ 1 \in Int /\ NNodes - 1 \in Int
      OBVIOUS
    <3>3. IsFiniteSet(0 .. 1) /\ IsFiniteSet(0 .. NNodes - 1)
      BY <3>2, FS_Interval
    <3>4. QED
      BY <3>1, <3>3 DEF Nodes
  <2>2. IsFiniteSet(R)
    BY <2>1, FS_Product
  <2>3. IsFiniteSet(E)
    <3>1. f \in Surjection(R, E)
      BY DEF Surjection
    <3>2. QED
      BY <2>2, <3>1, FS_Surjection
  <2>4. D \in SUBSET E
    <3> SUFFICES ASSUME NEW d \in D PROVE d \in E
      OBVIOUS
    <3> DEFINE p == <<d.row, <<d.column, d.argument>>>>
    <3>1. p \in R
      BY <1>1
    <3>2. d = [row |-> p[1], column |-> p[2][1], argument |-> p[2][2]]
      BY <1>1
    <3>3. QED
      BY <3>1, <3>2
  <2>5. QED
    BY <2>3, <2>4, FS_Subset
<1>3. \A d, e \in D : <<d, e>> \in Less <=> Before(d, e)
  OBVIOUS
<1>4. Orders(Less, D)
  <2>1. \A d \in D : ~ Before(d, d)
    BY <1>1 DEF Before, Nodes, Arguments
  <2>2. \A c, d, e \in D : Before(c, d) /\ Before(d, e) => Before(c, e)
    BY <1>1 DEF Before, Nodes, Arguments
  <2>3. ASSUME NEW d \in D, NEW e \in D, d # e
        PROVE  Before(d, e) \/ Before(e, d)
    <3>1. d.column # e.column \/ d.argument # e.argument
      BY <1>1, <2>3
    <3>2. QED
      BY <1>1, <3>1 DEF Before, Nodes, Arguments
  <2> HIDE DEF D, Less
  <2>4. QED
    BY <1>3, <2>1, <2>2, <2>3 DEF Orders
<1>5. n \in Nat
  BY <1>2, FS_CardinalityType
<1>6. SuccessorsOf(dependencies, node) = [k \in 1 .. Len(s) |-> s[k].column]
  BY DEF SuccessorsOf, Sorted
<1> HIDE DEF D, Less, n
<1>7. \E t \in [1 .. n -> D] : \A i, j \in 1 .. n : i < j => Before(t[i], t[j])
  <2>1. PICK t : InOrder(Less, D, t)
    BY <1>2, <1>4, OrderExists
  <2>2. t \in [1 .. n -> D] /\ \A i, j \in 1 .. n : i < j => <<t[i], t[j]>> \in Less
    BY <2>1 DEF InOrder, n
  <2>3. QED
    BY <1>3, <1>5, <2>2
<1>8. s \in [1 .. n -> D]
  BY <1>7
<1> HIDE DEF s
<1>9. Len(s) = n /\ \A k \in 1 .. n : s[k] \in D
  BY <1>5, <1>8
<1>10. \A k \in 1 .. n : s[k].column \in Nodes /\ s[k].column # node
  BY <1>1, <1>9
<1>11. QED
  BY <1>5, <1>6, <1>9, <1>10

----------------------------------------------------------------------------
(* What a leaf depends on.                                                  *)

(* A set is closed when it has the successors of its leaves.                *)
LEMMA ClosedIs ==
  ASSUME NEW S
  PROVE  Schedule!Closed(S) <=>
           \A n \in Nodes : \A k \in 1 .. Len(successors[n]) : n \in S => successors[n][k] \in S
<1>1. ASSUME Schedule!Closed(S), NEW n \in Nodes, NEW k \in 1 .. Len(successors[n]), n \in S
      PROVE  successors[n][k] \in S
  <2>1. <<n, successors[n][k]>> \in Arcs
    BY DEF Arcs
  <2>2. QED
    BY <1>1, <2>1 DEF Schedule!Closed
<1>2. ASSUME \A n \in Nodes : \A k \in 1 .. Len(successors[n]) : n \in S => successors[n][k] \in S,
             NEW arc \in Arcs, arc[1] \in S
      PROVE  arc[2] \in S
  <2>1. PICK n \in Nodes : \E k \in 1 .. Len(successors[n]) : arc = <<n, successors[n][k]>>
    BY DEF Arcs
  <2>2. QED
    BY <1>2, <2>1
<1>3. QED
  BY <1>1, <1>2 DEF Schedule!Closed

(* A leaf depends on itself.                                                *)
LEMMA ReachedSelf ==
  ASSUME NEW a \in Nodes
  PROVE  a \in Schedule!Reached(a)
BY DEF Schedule!Reached

(* A leaf depends on leaves.                                                *)
LEMMA ReachedNodes ==
  ASSUME NEW a, NEW b \in Schedule!Reached(a)
  PROVE  b \in Nodes
BY DEF Schedule!Reached

(* A closed set has what its leaves depend on.                              *)
LEMMA ReachedInClosed ==
  ASSUME NEW S \in SUBSET Nodes, Schedule!Closed(S), NEW a \in S, NEW b \in Schedule!Reached(a)
  PROVE  b \in S
BY DEF Schedule!Reached

(* A leaf depends on its successors.                                        *)
LEMMA ReachedArc ==
  ASSUME Typed, NEW n \in Nodes, NEW k \in 1 .. Len(successors[n])
  PROVE  successors[n][k] \in Schedule!Reached(n) /\ successors[n][k] \in Nodes
<1>1. successors[n][k] \in Nodes
  BY DEF Typed
<1>2. ASSUME NEW S \in SUBSET Nodes, n \in S, Schedule!Closed(S)
      PROVE  successors[n][k] \in S
  BY <1>2, ClosedIs
<1>3. QED
  BY <1>1, <1>2 DEF Schedule!Reached

(* A leaf depends on what its dependencies depend on.                       *)
LEMMA ReachedTransitive ==
  ASSUME NEW a, NEW b \in Schedule!Reached(a), NEW c \in Schedule!Reached(b)
  PROVE  c \in Schedule!Reached(a)
BY DEF Schedule!Reached

(* The dependencies never change.                                           *)
LEMMA SameGraph ==
  ASSUME successors' = successors
  PROVE  /\ Arcs' = Arcs
         /\ \A S : Schedule!Closed(S)' <=> Schedule!Closed(S)
         /\ \A a : Schedule!Reached(a)' = Schedule!Reached(a)
         /\ \A a : Schedule!Component(a)' = Schedule!Component(a)
<1>1. Arcs' = Arcs
  BY DEF Arcs
<1>2. \A S : Schedule!Closed(S)' <=> Schedule!Closed(S)
  BY <1>1 DEF Schedule!Closed
<1>3. \A a : Schedule!Reached(a)' = Schedule!Reached(a)
  BY <1>2 DEF Schedule!Reached
<1>4. \A a : Schedule!Component(a)' = Schedule!Component(a)
  BY <1>3 DEF Schedule!Component
<1>5. QED
  BY <1>1, <1>2, <1>3, <1>4

(* The scheduled leaves are those of the components found.                  *)
LEMMA ScheduledIs ==
  ASSUME Typed
  PROVE  /\ Schedule!Scheduled = UNION {Range(components[k]) : k \in 1 .. Len(components)}
         /\ Schedule!Scheduled \in SUBSET Nodes
         /\ Stages \in Seq(SUBSET Nodes)
         /\ Len(Stages) = Len(components)
         /\ \A k \in 1 .. Len(components) : Stages[k] = Range(components[k])
<1>1. Len(components) \in Nat
  BY DEF Typed
<1>2. \A k \in 1 .. Len(components) : Range(components[k]) \in SUBSET Nodes
  BY RangeOfSeq DEF Typed
<1>3. /\ DOMAIN Stages = 1 .. Len(components)
      /\ \A k \in 1 .. Len(components) : Stages[k] = Range(components[k])
  BY DEF Stages
<1>4. Schedule!Scheduled = UNION {Range(components[k]) : k \in 1 .. Len(components)}
  BY <1>3 DEF Schedule!Scheduled
<1>5. Stages \in Seq(SUBSET Nodes) /\ Len(Stages) = Len(components)
  BY <1>1, <1>2 DEF Stages
<1>6. QED
  BY <1>2, <1>3, <1>4, <1>5

(* The stages change with the components only.                              *)
LEMMA SameStages ==
  ASSUME components' = components
  PROVE  Stages' = Stages /\ Schedule!Scheduled' = Schedule!Scheduled
BY DEF Stages, Schedule!Scheduled

(* While nothing is found, what is scheduled stays closed.                  *)
LEMMA SameClosed ==
  ASSUME successors' = successors, components' = components
  PROVE  Schedule!Closed(Schedule!Scheduled)' <=> Schedule!Closed(Schedule!Scheduled)
BY DEF Schedule!Closed, Schedule!Scheduled, Arcs, Stages

----------------------------------------------------------------------------
(* Each step keeps the invariant.                                           *)

(* The search starts in its invariant.                                      *)
LEMMA InitInv == Init => Inv
<1> SUFFICES ASSUME Init PROVE Inv
  OBVIOUS
<1>1. PICK dependencies \in SUBSET Edges :
        successors = [n \in Nodes |-> SuccessorsOf(dependencies, n)]
  BY DEF Init
<1>2. \A n \in Nodes : /\ successors[n] \in Seq(Nodes)
                       /\ \A k \in 1 .. Len(successors[n]) : successors[n][k] # n
  BY <1>1, SuccessorsTyped
<1>3. successors \in [Nodes -> Seq(Nodes)]
  BY <1>1, <1>2
<1>4. /\ index = [n \in Nodes |-> None] /\ lowlink = [n \in Nodes |-> 0]
      /\ onStack = [n \in Nodes |-> FALSE] /\ stack = <<>> /\ nextIndex = 0
      /\ components = <<>> /\ frames = <<>> /\ root = 0
  BY DEF Init
<1>5. Typed
  BY <1>2, <1>3, <1>4 DEF Typed
<1>6. Schedule!Scheduled = {}
  BY <1>4, <1>5, ScheduledIs
<1>7. \A n \in Nodes : ~ Met(n) /\ ~ onStack[n]
  BY <1>4 DEF Met
<1>8. StackInv
  BY <1>4, <1>6, <1>7 DEF StackInv
<1>9. FrameInv /\ TakenInv
  BY <1>4 DEF FrameInv, TakenInv
<1>10. LowInv /\ PastInv
  BY <1>7 DEF LowInv, PastInv, Past
<1>11. StageInv
  BY <1>4, <1>6, ClosedIs DEF StageInv
<1>12. RootInv
  BY <1>4, <1>7 DEF RootInv, Nodes
<1>13. QED
  BY <1>5, <1>8, <1>9, <1>10, <1>11, <1>12 DEF Inv

(* What every visit in progress may be taken to be.                         *)
LEMMA FrameFacts ==
  ASSUME Inv, NEW f \in 1 .. Len(frames)
  PROVE  /\ frames[f] \in Frame /\ frames[f].node \in Nodes /\ frames[f].at \in Nat \ {0}
         /\ onStack[frames[f].node] /\ Met(frames[f].node)
         /\ index[frames[f].node] \in Nat
         /\ Len(successors[frames[f].node]) \in Nat
<1>1. frames[f] \in Frame
  BY DEF Inv, Typed
<1>2. frames[f].node \in Nodes /\ frames[f].at \in Nat \ {0}
  BY <1>1 DEF Frame
<1>3. onStack[frames[f].node] /\ Met(frames[f].node)
  BY <1>2 DEF Inv, FrameInv, StackInv
<1>4. index[frames[f].node] \in Nat
  BY <1>2, <1>3 DEF Inv, Typed, Met
<1>5. Len(successors[frames[f].node]) \in Nat
  BY <1>2 DEF Inv, Typed
<1>6. QED
  BY <1>1, <1>2, <1>3, <1>4, <1>5

(* What the invariant says of a stacked leaf.                               *)
LEMMA StackedFacts ==
  ASSUME Inv, NEW n \in Nodes, onStack[n]
  PROVE  Met(n) /\ index[n] \in Nat /\ lowlink[n] \in Nat /\ index[n] < nextIndex
BY DEF Inv, StackInv, Typed, Met

(* A leaf is met: the outer loop comes to it, or a visit follows an arc to it.*)
LEMMA EnterKeeps ==
  ASSUME Inv, NEW v \in Nodes, index[v] = None, Enter(v),
         \/ frames = <<>> /\ root' = root + 1 /\ root < NNodes /\ v = root
         \/ /\ frames # <<>> /\ root' = root
            /\ Top.at <= Len(successors[Top.node])
            /\ v = successors[Top.node][Top.at]
  PROVE  Inv'
<1> DEFINE L == Len(frames)
           S == Len(stack)
<1> USE DEF Inv
<1>1. Typed /\ L \in Nat /\ S \in Nat /\ nextIndex \in Nat /\ frames \in Seq(Frame)
  BY DEF Typed
<1>2. /\ \A n \in Nodes : index'[n] = IF n = v THEN nextIndex ELSE index[n]
      /\ \A n \in Nodes : lowlink'[n] = IF n = v THEN nextIndex ELSE lowlink[n]
      /\ \A n \in Nodes : onStack'[n] = IF n = v THEN TRUE ELSE onStack[n]
      /\ nextIndex' = nextIndex + 1
      /\ successors' = successors /\ components' = components
  BY <1>1 DEF Typed, Enter
<1>3. /\ Len(stack') = S + 1 /\ stack'[S + 1] = v /\ stack' \in Seq(Nodes)
      /\ \A k \in 1 .. S : stack'[k] = stack[k] /\ stack[k] \in Nodes
  BY <1>1 DEF Typed, Enter
<1>4. /\ Len(frames') = L + 1 /\ frames' \in Seq(Frame)
      /\ frames'[L + 1].node = v /\ frames'[L + 1].at = 1
      /\ \A f \in 1 .. L : frames'[f] = frames[f]
  <2> DEFINE r == [node |-> v, at |-> 1]
  <2>1. r \in Frame /\ r.node = v /\ r.at = 1 /\ frames' = Append(frames, r)
    BY DEF Frame, Enter
  <2> HIDE DEF r
  <2>2. QED
    BY <1>1, <2>1
<1>5. /\ Schedule!Scheduled' = Schedule!Scheduled
      /\ \A a : Schedule!Reached(a)' = Schedule!Reached(a)
      /\ \A T : Schedule!Closed(T)' <=> Schedule!Closed(T)
      /\ \A a : Schedule!Component(a)' = Schedule!Component(a)
  BY <1>2, SameGraph, SameStages
<1>6. ~ Met(v) /\ ~ onStack[v] /\ v \notin Schedule!Scheduled
  BY DEF Met, StackInv
<1>7. \A n \in Nodes : Met(n)' <=> Met(n) \/ n = v
  BY <1>1, <1>2 DEF Met
<1>8. \A n \in Nodes : n # v => (Framed(n)' <=> Framed(n))
  <2> SUFFICES ASSUME NEW n \in Nodes, n # v PROVE Framed(n)' <=> Framed(n)
    OBVIOUS
  <2>1. ASSUME NEW f \in 1 .. L + 1, frames'[f].node = n
        PROVE  f \in 1 .. L /\ frames[f].node = n
    BY <1>1, <1>4, <2>1
  <2>2. ASSUME NEW f \in 1 .. L, frames[f].node = n
        PROVE  f \in 1 .. L + 1 /\ frames'[f].node = n
    BY <1>1, <1>4, <2>2
  <2>3. QED
    BY <1>4, <2>1, <2>2 DEF Framed
<1>9. Framed(v)'
  <2>1. L + 1 \in 1 .. L + 1
    BY <1>1
  <2>2. QED
    BY <1>4, <2>1 DEF Framed
<1>10. \A f \in 1 .. L : /\ frames[f].node \in Nodes /\ frames[f].node # v
                         /\ onStack[frames[f].node]
                         /\ index[frames[f].node] \in Nat /\ index[frames[f].node] < nextIndex
                         /\ frames'[f].node = frames[f].node /\ frames'[f].at = frames[f].at
                         /\ index'[frames[f].node] = index[frames[f].node]
  <2> SUFFICES ASSUME NEW f \in 1 .. L
               PROVE  /\ frames[f].node \in Nodes /\ frames[f].node # v
                      /\ onStack[frames[f].node]
                      /\ index[frames[f].node] \in Nat /\ index[frames[f].node] < nextIndex
                      /\ frames'[f] = frames[f]
                      /\ index'[frames[f].node] = index[frames[f].node]
    OBVIOUS
  <2>1. frames[f].node \in Nodes /\ onStack[frames[f].node]
    BY FrameFacts
  <2>2. QED
    BY <1>2, <1>4, <1>6, <2>1, StackedFacts
<1>11. \A n \in Nodes : onStack[n] => /\ n # v /\ Met(n) /\ index'[n] = index[n]
                                      /\ lowlink'[n] = lowlink[n]
                                      /\ index[n] \in Nat /\ lowlink[n] \in Nat
                                      /\ index[n] < nextIndex
  BY <1>2, <1>6, StackedFacts
<1>12. Typed'
  <2>1. /\ index' \in [Nodes -> Nat \cup {None}] /\ lowlink' \in [Nodes -> Nat]
        /\ onStack' \in [Nodes -> BOOLEAN] /\ nextIndex' \in Nat
    BY DEF Typed, Enter
  <2>2. root' \in 0 .. NNodes
    BY <1>1 DEF Typed
  <2>3. QED
    BY <1>1, <1>2, <1>3, <1>4, <2>1, <2>2 DEF Typed
<1>13. StackInv'
  <2>1. \A n \in Nodes : onStack'[n] <=> Met(n)' /\ n \notin Schedule!Scheduled'
    BY <1>2, <1>5, <1>6, <1>7 DEF StackInv
  <2>2. \A n \in Schedule!Scheduled' : Met(n)'
    BY <1>1, <1>5, <1>7, ScheduledIs DEF StackInv
  <2>3. ASSUME NEW n \in Nodes
        PROVE  onStack'[n] <=> \E k \in 1 .. Len(stack') : stack'[k] = n
    <3>1. CASE n = v
      <4>1. S + 1 \in 1 .. Len(stack')
        BY <1>1, <1>3
      <4>2. QED
        BY <1>2, <1>3, <3>1, <4>1
    <3>2. CASE n # v
      <4>1. onStack'[n] <=> \E k \in 1 .. S : stack[k] = n
        BY <1>2, <3>2 DEF StackInv
      <4>2. ASSUME NEW k \in 1 .. S + 1, stack'[k] = n
            PROVE  k \in 1 .. S /\ stack[k] = n
        BY <1>1, <1>3, <3>2, <4>2
      <4>3. ASSUME NEW k \in 1 .. S, stack[k] = n
            PROVE  k \in 1 .. S + 1 /\ stack'[k] = n
        BY <1>1, <1>3, <4>3
      <4>4. QED
        BY <1>3, <4>1, <4>2, <4>3
    <3>3. QED
      BY <3>1, <3>2
  <2>4. ASSUME NEW i \in 1 .. Len(stack'), NEW j \in 1 .. Len(stack'), i < j
        PROVE  index'[stack'[i]] < index'[stack'[j]]
    <3>1. i \in 1 .. S /\ stack'[i] = stack[i] /\ stack[i] \in Nodes
      BY <1>1, <1>3, <2>4
    <3>2. onStack[stack[i]]
      BY <3>1 DEF StackInv
    <3>3. CASE j = S + 1
      BY <1>2, <1>3, <1>11, <3>1, <3>2, <3>3
    <3>4. CASE j # S + 1
      <4>1. j \in 1 .. S /\ stack'[j] = stack[j] /\ stack[j] \in Nodes
        BY <1>1, <1>3, <3>4
      <4>2. onStack[stack[j]] /\ index[stack[i]] < index[stack[j]]
        BY <2>4, <3>1, <4>1 DEF StackInv
      <4>3. QED
        BY <1>11, <3>1, <3>2, <4>1, <4>2
    <3>5. QED
      BY <3>3, <3>4
  <2>5. ASSUME NEW n \in Nodes, Met(n)'
        PROVE  index'[n] < nextIndex'
    <3>1. CASE n = v
      BY <1>1, <1>2, <3>1
    <3>2. CASE n # v
      <4>1. Met(n)
        BY <1>7, <2>5, <3>2
      <4>2. index[n] < nextIndex /\ index[n] \in Nat
        BY <4>1 DEF StackInv, Met, Typed
      <4>3. QED
        BY <1>1, <1>2, <3>2, <4>2
    <3>3. QED
      BY <3>1, <3>2
  <2>6. QED
    BY <2>1, <2>2, <2>3, <2>4, <2>5 DEF StackInv
<1>14. FrameInv'
  <2>1. ASSUME NEW f \in 1 .. L
        PROVE  v \in Schedule!Reached(frames[f].node)
    <3>1. L \in 1 .. L /\ frames # <<>>
      BY <1>1
    <3>2. /\ Top.node \in Nodes /\ Top.at \in 1 .. Len(successors[Top.node])
          /\ v = successors[Top.node][Top.at]
      BY <3>1, FrameFacts DEF Top
    <3>3. v \in Schedule!Reached(Top.node)
      BY <1>1, <3>2, ReachedArc
    <3>4. CASE f = L
      BY <3>3, <3>4 DEF Top
    <3>5. CASE f # L
      <4>1. f < L
        BY <1>1, <3>5
      <4>2. index[frames[f].node] < index[Top.node]
        BY <3>1, <4>1 DEF FrameInv, Top
      <4>3. Top.node \in Schedule!Reached(frames[f].node)
        BY <1>10, <3>1, <3>2, <4>2 DEF FrameInv, Top
      <4>4. QED
        BY <3>3, <4>3, ReachedTransitive
    <3>6. QED
      BY <3>4, <3>5
  <2>2. ASSUME NEW f \in 1 .. L + 1
        PROVE  /\ onStack'[frames'[f].node]
               /\ frames'[f].at <= Len(successors'[frames'[f].node]) + 1
               /\ \A n \in Nodes :
                    onStack'[n] /\ index'[frames'[f].node] < index'[n] =>
                      n \in Schedule!Reached(frames'[f].node)
    <3>1. CASE f = L + 1
      <4>1. Len(successors[v]) \in Nat
        BY <1>1 DEF Typed
      <4>2. ASSUME NEW n \in Nodes, onStack'[n]
            PROVE  ~ (nextIndex < index'[n])
        <5>1. CASE n = v
          BY <1>1, <1>2, <5>1
        <5>2. CASE n # v
          <6>1. onStack[n]
            BY <1>2, <4>2, <5>2
          <6>2. index'[n] = index[n] /\ index[n] \in Nat /\ index[n] < nextIndex
            BY <1>11, <6>1
          <6>3. QED
            BY <1>1, <6>2
        <5>3. QED
          BY <5>1, <5>2
      <4>3. /\ frames'[f].node = v /\ frames'[f].at = 1
            /\ index'[v] = nextIndex /\ onStack'[v] /\ successors' = successors
        BY <1>2, <1>4, <3>1
      <4>4. 1 <= Len(successors'[v]) + 1
        BY <4>1, <4>3
      <4>5. QED
        BY <4>2, <4>3, <4>4
    <3>2. CASE f # L + 1
      <4>1. f \in 1 .. L
        BY <1>1, <3>2
      <4>2. \A n \in Nodes : onStack'[n] /\ index[frames[f].node] < index'[n] =>
              n \in Schedule!Reached(frames[f].node)
        BY <1>2, <1>11, <2>1, <4>1 DEF FrameInv
      <4>3. frames[f].at <= Len(successors[frames[f].node]) + 1
        BY <4>1 DEF FrameInv
      <4>4. /\ frames'[f].node = frames[f].node /\ frames'[f].at = frames[f].at
            /\ index'[frames[f].node] = index[frames[f].node]
            /\ onStack'[frames[f].node]
        BY <1>2, <1>10, <4>1
      <4>5. QED
        BY <1>2, <4>2, <4>3, <4>4
    <3>3. QED
      BY <3>1, <3>2
  <2>3. ASSUME NEW f \in 1 .. L + 1, NEW g \in 1 .. L + 1, f < g
        PROVE  index'[frames'[f].node] < index'[frames'[g].node]
    <3>1. f \in 1 .. L
      BY <1>1, <2>3
    <3>2. CASE g = L + 1
      BY <1>2, <1>4, <1>10, <3>1, <3>2
    <3>3. CASE g # L + 1
      <4>1. g \in 1 .. L
        BY <1>1, <3>3
      <4>2. QED
        BY <1>10, <2>3, <3>1, <4>1 DEF FrameInv
    <3>4. QED
      BY <3>2, <3>3
  <2>4. ASSUME NEW f \in 1 .. L
        PROVE  /\ frames'[f].at <= Len(successors'[frames'[f].node])
               /\ successors'[frames'[f].node][frames'[f].at] = frames'[f + 1].node
    <3>1. CASE f = L
      <4>1. frames # <<>>
        BY <1>1, <3>1
      <4>2. QED
        BY <1>2, <1>4, <1>10, <3>1, <4>1 DEF Top
    <3>2. CASE f # L
      <4>1. f \in 1 .. L - 1 /\ f + 1 \in 1 .. L
        BY <1>1, <3>2
      <4>2. QED
        BY <1>2, <1>10, <4>1 DEF FrameInv
    <3>3. QED
      BY <3>1, <3>2
  <2>5. Len(frames') = L + 1 /\ Len(frames') - 1 = L
    BY <1>1, <1>4
  <2>6. QED
    BY <1>5, <2>2, <2>3, <2>4, <2>5 DEF FrameInv
<1>15. LowInv'
  <2> SUFFICES ASSUME NEW n \in Nodes, onStack'[n]
               PROVE  /\ lowlink'[n] <= index'[n]
                      /\ ~Framed(n)' => lowlink'[n] < index'[n]
                      /\ \E m \in Nodes : /\ onStack'[m] /\ index'[m] = lowlink'[n]
                                          /\ m \in Schedule!Reached(n)
    BY <1>5 DEF LowInv
  <2>1. CASE n = v
    BY <1>1, <1>2, <1>9, <2>1, ReachedSelf
  <2>2. CASE n # v
    <3>1. onStack[n]
      BY <1>2, <2>2
    <3>2. PICK m \in Nodes : onStack[m] /\ index[m] = lowlink[n] /\ m \in Schedule!Reached(n)
      BY <3>1 DEF LowInv
    <3>3. onStack'[m] /\ index'[m] = lowlink'[n]
      BY <1>2, <1>11, <3>1, <3>2
    <3>4. lowlink'[n] <= index'[n] /\ (~Framed(n)' => lowlink'[n] < index'[n])
      BY <1>8, <1>11, <2>2, <3>1 DEF LowInv
    <3>5. QED
      BY <3>2, <3>3, <3>4
  <2>3. QED
    BY <2>1, <2>2
<1>16. PastInv'
  <2> SUFFICES ASSUME NEW n \in Nodes, NEW k \in 1 .. Len(successors[n]), Past(n, k)'
               PROVE  /\ Met(successors[n][k])'
                      /\ onStack'[n] /\ onStack'[successors[n][k]] =>
                           lowlink'[n] <= index'[successors[n][k]]
    BY <1>2 DEF PastInv
  <2>1. n # v
    <3>1. L + 1 \in 1 .. Len(frames')
      BY <1>1, <1>4
    <3>2. ASSUME n = v
          PROVE  k < 1
      BY <1>4, <3>1, <3>2 DEF Past
    <3>3. QED
      BY <3>2
  <2>2. Past(n, k)
    <3>1. ASSUME NEW f \in 1 .. L, frames[f].node = n
          PROVE  k < frames[f].at
      <4>1. f \in 1 .. Len(frames')
        BY <1>1, <1>4
      <4>2. QED
        BY <1>10, <3>1, <4>1 DEF Past
    <3>2. QED
      BY <1>7, <2>1, <3>1 DEF Past
  <2>3. successors[n][k] \in Nodes /\ Met(successors[n][k])
    BY <2>2, ReachedArc DEF PastInv
  <2>4. successors[n][k] # v
    BY <1>6, <2>3
  <2>5. onStack[n] /\ onStack[successors[n][k]] => lowlink[n] <= index[successors[n][k]]
    BY <2>2 DEF PastInv
  <2>6. QED
    BY <1>2, <1>7, <1>11, <2>1, <2>3, <2>4, <2>5
<1>17. TakenInv'
  <2> SUFFICES ASSUME NEW f \in 1 .. L + 1, NEW n \in Nodes,
                      onStack'[n], ~Framed(n)', index'[frames'[f].node] < index'[n],
                      f < L + 1 => index'[n] < index'[frames'[f + 1].node]
               PROVE  lowlink'[frames'[f].node] <= lowlink'[n]
    BY <1>4 DEF TakenInv
  <2>1. n # v /\ onStack[n] /\ ~Framed(n)
    BY <1>2, <1>8, <1>9
  <2>2. f # L + 1
    BY <1>1, <1>2, <1>4, <1>11, <2>1
  <2>3. f \in 1 .. L
    BY <1>1, <2>2
  <2>4. index[frames[f].node] < index[n]
    BY <1>10, <1>11, <2>1, <2>3
  <2>5. f < L => index[n] < index[frames[f + 1].node]
    <3> SUFFICES ASSUME f < L PROVE index[n] < index[frames[f + 1].node]
      OBVIOUS
    <3>1. f + 1 \in 1 .. L /\ f < L + 1
      BY <1>1
    <3>2. QED
      BY <1>10, <1>11, <2>1, <3>1
  <2>6. lowlink[frames[f].node] <= lowlink[n]
    BY <2>1, <2>3, <2>4, <2>5 DEF TakenInv
  <2>7. QED
    BY <1>10, <1>11, <2>1, <2>3, <2>6
<1>18. StageInv'
  BY <1>2, <1>5, SameClosed DEF StageInv
<1>19. RootInv'
  <2>1. ASSUME NEW n \in Nodes, onStack'[n]
        PROVE  frames' # <<>> /\ index'[frames'[1].node] <= index'[n]
    <3>1. frames' # <<>>
      BY <1>1, <1>4
    <3>2. CASE L = 0
      <4>1. ~ onStack[n]
        BY <1>1, <3>2 DEF RootInv
      <4>2. n = v
        BY <1>2, <2>1, <4>1
      <4>3. L + 1 = 1
        BY <3>2
      <4>4. frames'[1].node = v
        BY <1>4, <4>3
      <4>5. QED
        BY <1>1, <1>2, <3>1, <4>2, <4>4
    <3>3. CASE L # 0
      <4>1. 1 \in 1 .. L
        BY <1>1, <3>3
      <4>2. CASE n = v
        BY <1>1, <1>2, <1>10, <3>1, <4>1, <4>2
      <4>3. CASE n # v
        <5>1. onStack[n]
          BY <1>2, <2>1, <4>3
        <5>2. QED
          BY <1>10, <1>11, <3>1, <4>1, <5>1 DEF RootInv
      <4>4. QED
        BY <4>2, <4>3
    <3>4. QED
      BY <3>2, <3>3
  <2>2. ASSUME NEW n \in Nodes, n < root'
        PROVE  Met(n)'
    <3>1. n < root \/ n = v
      <4>1. root \in Nat /\ n \in Nat
        BY <1>1 DEF Typed, Nodes
      <4>2. CASE root' = root
        BY <2>2, <4>2
      <4>3. CASE root' = root + 1 /\ v = root
        BY <2>2, <4>1, <4>3
      <4>4. QED
        BY <4>2, <4>3
    <3>2. QED
      BY <1>7, <3>1 DEF RootInv
  <2>3. QED
    BY <2>1, <2>2 DEF RootInv
<1>20. QED
  BY <1>12, <1>13, <1>14, <1>15, <1>16, <1>17, <1>18, <1>19

(* The innermost visit follows an arc to a leaf that has been met.          *)
LEMMA FollowSeenKeeps ==
  ASSUME Inv, frames # <<>>, Top.at <= Len(successors[Top.node]),
         NEW s, s = successors[Top.node][Top.at], index[s] # None,
         lowlink' = [lowlink EXCEPT ![Top.node] = LowlinkOfSeen(Top.node, s)],
         frames' = Advanced,
         UNCHANGED <<successors, index, onStack, stack, nextIndex, components, root>>
  PROVE  Inv'
<1> DEFINE L == Len(frames)
           v == frames[L].node
           k0 == frames[L].at
<1> USE DEF Inv
<1>1. /\ Typed /\ L \in Nat /\ L \in 1 .. L /\ frames \in Seq(Frame)
      /\ successors' = successors /\ index' = index /\ onStack' = onStack /\ stack' = stack
      /\ nextIndex' = nextIndex /\ components' = components /\ root' = root
  BY DEF Typed
<1>2. /\ v \in Nodes /\ k0 \in Nat \ {0} /\ k0 <= Len(successors[v]) /\ Len(successors[v]) \in Nat
      /\ s = successors[v][k0] /\ frames[L] = Top
      /\ onStack[v] /\ Met(v) /\ index[v] \in Nat /\ lowlink[v] \in Nat
  BY <1>1, FrameFacts, StackedFacts DEF Top
<1>3. /\ k0 \in 1 .. Len(successors[v]) /\ s \in Nodes /\ s \in Schedule!Reached(v)
  <2>1. k0 \in 1 .. Len(successors[v])
    BY <1>2
  <2>2. QED
    BY <1>1, <1>2, <2>1, ReachedArc
<1>4. /\ Met(s) /\ index[s] \in Nat
  BY <1>1, <1>3 DEF Met, Typed
<1>5. /\ Len(frames') = L /\ frames' \in Seq(Frame)
      /\ frames'[L].node = v /\ frames'[L].at = k0 + 1
      /\ \A f \in 1 .. L : f # L => frames'[f] = frames[f]
  <2> DEFINE r == [frames[L] EXCEPT !.at = @ + 1]
  <2>1. frames' = [frames EXCEPT ![L] = r]
    BY DEF Advanced
  <2>2. frames[L] \in Frame
    BY <1>1
  <2>3. r \in Frame /\ r.node = v /\ r.at = k0 + 1
    BY <1>2, <2>2 DEF Frame
  <2> HIDE DEF r
  <2>4. QED
    BY <1>1, <2>1, <2>3
<1> HIDE DEF v, k0
<1>6. \A f \in 1 .. L : frames'[f].node = frames[f].node /\ (f # L => frames'[f].at = frames[f].at)
  BY <1>5 DEF v
<1>7. \A n \in Nodes : /\ Framed(n)' <=> Framed(n)
                       /\ Met(n)' <=> Met(n)
  BY <1>1, <1>5, <1>6 DEF Framed, Met
<1>8. Framed(v)
  BY <1>1 DEF Framed, v
<1>9. /\ \A n \in Nodes : n # v => lowlink'[n] = lowlink[n]
      /\ lowlink'[v] = IF onStack[s] THEN Lower(lowlink[v], index[s]) ELSE lowlink[v]
      /\ lowlink' \in [Nodes -> Nat]
  BY <1>1, <1>2, <1>4 DEF Typed, LowlinkOfSeen, Lower, v
<1>10. /\ lowlink'[v] \in Nat /\ lowlink'[v] <= lowlink[v]
       /\ onStack[s] => lowlink'[v] <= index[s]
       /\ lowlink'[v] = lowlink[v] \/ (onStack[s] /\ lowlink'[v] = index[s])
  BY <1>2, <1>4, <1>9 DEF Lower
<1>11. /\ Schedule!Scheduled' = Schedule!Scheduled
       /\ \A a : Schedule!Reached(a)' = Schedule!Reached(a)
       /\ \A T : Schedule!Closed(T)' <=> Schedule!Closed(T)
       /\ \A a : Schedule!Component(a)' = Schedule!Component(a)
  BY <1>1, SameGraph, SameStages
<1>12. Typed'
  <2>1. lowlink' \in [Nodes -> Nat] /\ frames' \in Seq(Frame)
    BY <1>5, <1>9
  <2>2. QED
    BY <1>1, <2>1 DEF Typed
<1>13. StackInv'
  <2>1. \A n \in Schedule!Scheduled : Met(n)'
    BY <1>1, <1>7, ScheduledIs DEF StackInv
  <2>2. QED
    BY <1>1, <1>7, <1>11, <2>1 DEF StackInv
<1>14. FrameInv'
  <2>1. ASSUME NEW f \in 1 .. L
        PROVE  /\ onStack[frames[f].node]
               /\ frames'[f].at <= Len(successors[frames[f].node]) + 1
               /\ \A n \in Nodes :
                    onStack[n] /\ index[frames[f].node] < index[n] =>
                      n \in Schedule!Reached(frames[f].node)
    <3>1. CASE f = L
      <4>1. frames'[f].at <= Len(successors[frames[f].node]) + 1
        BY <1>2, <1>5, <3>1 DEF v
      <4>2. QED
        BY <4>1 DEF FrameInv
    <3>2. CASE f # L
      BY <1>6, <3>2 DEF FrameInv
    <3>3. QED
      BY <3>1, <3>2
  <2>2. ASSUME NEW f \in 1 .. L - 1
        PROVE  /\ frames'[f].at <= Len(successors[frames'[f].node])
               /\ successors[frames'[f].node][frames'[f].at] = frames'[f + 1].node
    <3>1. f \in 1 .. L /\ f # L /\ f + 1 \in 1 .. L
      BY <1>1
    <3>2. QED
      BY <1>6, <3>1 DEF FrameInv
  <2>3. \A f, g \in 1 .. L : f < g => index[frames[f].node] < index[frames[g].node]
    BY DEF FrameInv
  <2>4. Len(frames') = L /\ \A f \in 1 .. L : frames'[f].node = frames[f].node
    BY <1>5, <1>6
  <2>5. \A f, g \in 1 .. L : f < g => index'[frames'[f].node] < index'[frames'[g].node]
    BY <1>1, <2>3, <2>4
  <2>6. \A f \in 1 .. L :
          /\ onStack'[frames'[f].node]
          /\ frames'[f].at <= Len(successors'[frames'[f].node]) + 1
          /\ \A n \in Nodes :
               onStack'[n] /\ index'[frames'[f].node] < index'[n] =>
                 n \in Schedule!Reached(frames'[f].node)
    BY <1>1, <2>1, <2>4
  <2>7. \A f \in 1 .. L - 1 :
          /\ frames'[f].at <= Len(successors'[frames'[f].node])
          /\ successors'[frames'[f].node][frames'[f].at] = frames'[f + 1].node
    BY <1>1, <2>2
  <2>8. QED
    BY <1>11, <2>4, <2>5, <2>6, <2>7 DEF FrameInv
<1>15. LowInv'
  <2> SUFFICES ASSUME NEW n \in Nodes, onStack[n]
               PROVE  /\ lowlink'[n] <= index[n]
                      /\ ~Framed(n) => lowlink'[n] < index[n]
                      /\ \E m \in Nodes : /\ onStack[m] /\ index[m] = lowlink'[n]
                                          /\ m \in Schedule!Reached(n)
    BY <1>1, <1>7, <1>11 DEF LowInv
  <2>1. CASE n = v
    <3>1. lowlink[v] <= index[v]
      BY <1>2 DEF LowInv
    <3>2. lowlink'[v] <= index[v]
      BY <1>2, <1>10, <3>1
    <3>3. \E m \in Nodes : onStack[m] /\ index[m] = lowlink'[v] /\ m \in Schedule!Reached(v)
      BY <1>2, <1>3, <1>10 DEF LowInv
    <3>4. QED
      BY <1>8, <2>1, <3>2, <3>3
  <2>2. CASE n # v
    BY <1>9, <2>2 DEF LowInv
  <2>3. QED
    BY <2>1, <2>2
<1>16. PastInv'
  <2> SUFFICES ASSUME NEW n \in Nodes, NEW k \in 1 .. Len(successors[n]), Past(n, k)'
               PROVE  /\ Met(successors[n][k])
                      /\ onStack[n] /\ onStack[successors[n][k]] =>
                           lowlink'[n] <= index[successors[n][k]]
    BY <1>1, <1>7, ReachedArc DEF PastInv
  <2>1. CASE n = v /\ k = k0
    BY <1>2, <1>4, <1>10, <2>1
  <2>2. CASE ~ (n = v /\ k = k0)
    <3>1. ASSUME NEW f \in 1 .. L, frames[f].node = n
          PROVE  k < frames[f].at
      <4>1. k < frames'[f].at
        BY <1>5, <1>6, <3>1 DEF Past
      <4>2. CASE f = L
        <5>1. n = v /\ k # k0 /\ k < k0 + 1
          BY <1>5, <2>2, <3>1, <4>1, <4>2 DEF v
        <5>2. k \in Nat
          OBVIOUS
        <5>3. QED
          BY <1>2, <4>2, <5>1, <5>2 DEF k0
      <4>3. CASE f # L
        BY <1>6, <4>1, <4>3
      <4>4. QED
        BY <4>2, <4>3
    <3>2. Past(n, k)
      BY <1>7, <3>1 DEF Past
    <3>3. /\ Met(successors[n][k]) /\ successors[n][k] \in Nodes
          /\ onStack[n] /\ onStack[successors[n][k]] => lowlink[n] <= index[successors[n][k]]
      BY <3>2, ReachedArc DEF PastInv
    <3>4. CASE n = v
      <4>1. SUFFICES ASSUME onStack[successors[n][k]]
                     PROVE  lowlink'[n] <= index[successors[n][k]]
        BY <3>3
      <4>2. index[successors[n][k]] \in Nat /\ lowlink[n] <= index[successors[n][k]]
        BY <1>2, <3>3, <3>4, <4>1, StackedFacts
      <4>3. QED
        BY <1>2, <1>10, <3>4, <4>2
    <3>5. CASE n # v
      BY <1>9, <3>3, <3>5
    <3>6. QED
      BY <3>4, <3>5
  <2>3. QED
    BY <2>1, <2>2
<1>17. TakenInv'
  <2> SUFFICES ASSUME NEW f \in 1 .. L, NEW n \in Nodes,
                      onStack[n], ~Framed(n), index[frames[f].node] < index[n],
                      f < L => index[n] < index[frames'[f + 1].node]
               PROVE  lowlink'[frames[f].node] <= lowlink'[n]
    BY <1>1, <1>5, <1>6, <1>7 DEF TakenInv
  <2>1. n # v /\ lowlink'[n] = lowlink[n] /\ lowlink[n] \in Nat
    BY <1>8, <1>9, StackedFacts
  <2>2. f < L => index[n] < index[frames[f + 1].node]
    <3> SUFFICES ASSUME f < L PROVE index[n] < index[frames[f + 1].node]
      OBVIOUS
    <3>1. f + 1 \in 1 .. L
      BY <1>1
    <3>2. QED
      BY <1>6, <3>1
  <2>3. lowlink[frames[f].node] <= lowlink[n]
    BY <2>2 DEF TakenInv
  <2>4. frames[f].node \in Nodes /\ lowlink[frames[f].node] \in Nat
    BY FrameFacts, StackedFacts
  <2>5. CASE frames[f].node = v
    BY <1>2, <1>10, <2>1, <2>3, <2>5
  <2>6. CASE frames[f].node # v
    BY <1>9, <2>1, <2>3, <2>4, <2>6
  <2>7. QED
    BY <2>5, <2>6
<1>18. StageInv'
  BY <1>1, <1>11, SameClosed DEF StageInv
<1>19. RootInv'
  <2>1. ASSUME NEW n \in Nodes, onStack[n]
        PROVE  frames' # <<>> /\ index[frames'[1].node] <= index[n]
    <3>1. 1 \in 1 .. L /\ frames' # <<>>
      BY <1>1, <1>5
    <3>2. QED
      BY <1>6, <2>1, <3>1 DEF RootInv
  <2>2. QED
    BY <1>1, <1>7, <2>1 DEF RootInv
<1>20. QED
  BY <1>12, <1>13, <1>14, <1>15, <1>16, <1>17, <1>18, <1>19

----------------------------------------------------------------------------
(* The end of a visit.                                                      *)

(* Two stacked leaves have different indices.                               *)
LEMMA IndicesDiffer ==
  ASSUME Inv, NEW a \in Nodes, NEW b \in Nodes, onStack[a], onStack[b], index[a] = index[b]
  PROVE  a = b
<1>1. PICK i \in 1 .. Len(stack) : stack[i] = a
  BY DEF Inv, StackInv
<1>2. PICK j \in 1 .. Len(stack) : stack[j] = b
  BY DEF Inv, StackInv
<1>3. ~ (i < j) /\ ~ (j < i)
  BY <1>1, <1>2, StackedFacts DEF Inv, StackInv
<1>4. i = j
  BY <1>3
<1>5. QED
  BY <1>1, <1>2, <1>4

(* The innermost visit, once it is through, is past all its arcs, and every *)
(* leaf stacked after it is past all of its own, with a lowlink that it has *)
(* taken into account.                                                      *)
LEMMA FinishFacts ==
  ASSUME Inv, frames # <<>>, Top.at > Len(successors[Top.node]),
         NEW v, v = Top.node
  PROVE  /\ Len(frames) \in Nat /\ Len(frames) \in 1 .. Len(frames)
         /\ frames[Len(frames)].node = v /\ v \in Nodes /\ onStack[v] /\ Met(v)
         /\ index[v] \in Nat /\ lowlink[v] \in Nat /\ lowlink[v] <= index[v]
         /\ v \notin Schedule!Scheduled
         /\ \A f \in 1 .. Len(frames) : f # Len(frames) => index[frames[f].node] < index[v]
         /\ \A n \in Nodes : onStack[n] /\ index[v] < index[n] =>
              n # v /\ ~ Framed(n) /\ lowlink[v] <= lowlink[n]
         /\ \A n \in Nodes : onStack[n] /\ index[v] <= index[n] =>
              \A k \in 1 .. Len(successors[n]) : Past(n, k)
<1> DEFINE L == Len(frames)
<1> USE DEF Inv
<1>1. L \in Nat /\ L \in 1 .. L /\ frames[L] = Top
  BY DEF Typed, Top
<1>2. /\ v \in Nodes /\ onStack[v] /\ Met(v) /\ index[v] \in Nat /\ lowlink[v] \in Nat
      /\ frames[L].node = v
  BY <1>1, FrameFacts, StackedFacts
<1>3. lowlink[v] <= index[v] /\ v \notin Schedule!Scheduled
  BY <1>2 DEF LowInv, StackInv
<1>4. \A f \in 1 .. L : f # L => index[frames[f].node] < index[v]
  <2> SUFFICES ASSUME NEW f \in 1 .. L, f # L PROVE index[frames[f].node] < index[v]
    OBVIOUS
  <2>1. f < L
    BY <1>1
  <2>2. QED
    BY <1>1, <1>2, <2>1 DEF FrameInv
<1>5. ASSUME NEW n \in Nodes, onStack[n], index[v] < index[n]
      PROVE  n # v /\ ~ Framed(n) /\ lowlink[v] <= lowlink[n]
  <2>1. index[n] \in Nat
    BY <1>5, StackedFacts
  <2>2. n # v
    BY <1>2, <1>5
  <2>3. ~ Framed(n)
    <3> SUFFICES ASSUME NEW f \in 1 .. L, frames[f].node = n PROVE FALSE
      BY DEF Framed
    <3>1. CASE f = L
      BY <1>2, <2>2, <3>1
    <3>2. CASE f # L
      BY <1>2, <1>4, <1>5, <2>1, <3>2
    <3>3. QED
      BY <3>1, <3>2
  <2>4. lowlink[v] <= lowlink[n]
    BY <1>1, <1>2, <1>5, <2>3 DEF TakenInv
  <2>5. QED
    BY <2>2, <2>3, <2>4
<1>6. ASSUME NEW n \in Nodes, onStack[n], index[v] <= index[n], NEW k \in 1 .. Len(successors[n])
      PROVE  Past(n, k)
  <2>1. Met(n) /\ index[n] \in Nat
    BY <1>6, StackedFacts
  <2>2. CASE n = v
    <3>1. ASSUME NEW f \in 1 .. L, frames[f].node = n
          PROVE  k < frames[f].at
      <4>1. f = L
        BY <1>2, <1>4, <2>2, <3>1
      <4>2. frames[L].at \in Nat /\ Len(successors[v]) \in Nat /\ frames[L].at > Len(successors[v])
        BY <1>1, <1>2, FrameFacts
      <4>3. k \in Nat /\ k <= Len(successors[v])
        BY <2>2
      <4>4. QED
        BY <4>1, <4>2, <4>3
    <3>2. QED
      BY <2>1, <3>1 DEF Past
  <2>3. CASE n # v
    <3>1. index[n] # index[v]
      BY <1>2, <1>6, <2>3, IndicesDiffer
    <3>2. ~ Framed(n)
      BY <1>2, <1>5, <1>6, <2>1, <3>1
    <3>3. QED
      BY <2>1, <3>2 DEF Past, Framed
  <2>4. QED
    BY <2>2, <2>3
<1>7. QED
  BY <1>1, <1>2, <1>3, <1>4, <1>5, <1>6

(* What returning from a visit does to the visits that remain.              *)
LEMMA ReturnFacts ==
  ASSUME Inv, frames # <<>>, Return, Len(frames) # 1,
         NEW v, v = Top.node, NEW c, c = frames[Len(frames) - 1].node
  PROVE  /\ Len(frames) - 1 \in Nat /\ Len(frames) - 1 \in 1 .. Len(frames)
         /\ Len(frames') = Len(frames) - 1 /\ frames' \in Seq(Frame)
         /\ \A f \in 1 .. Len(frames) - 1 : frames'[f].node = frames[f].node
         /\ \A f \in 1 .. Len(frames) - 1 : f # Len(frames) - 1 => frames'[f].at = frames[f].at
         /\ frames'[Len(frames) - 1].at = frames[Len(frames) - 1].at + 1
         /\ lowlink' \in [Nodes -> Nat]
         /\ lowlink'[c] = Lower(lowlink[c], lowlink[v])
         /\ \A n \in Nodes : n # c => lowlink'[n] = lowlink[n]
<1> DEFINE L == Len(frames)
           M == L - 1
           outer == Front(frames)
           r == [frames[M] EXCEPT !.at = @ + 1]
<1>1. L \in Nat /\ M \in Nat /\ M \in 1 .. L /\ frames \in Seq(Frame) /\ M \in 1 .. M
      /\ M + 1 = L
  <2>1. frames \in Seq(Frame) /\ L \in Nat
    BY DEF Inv, Typed
  <2>2. L # 0
    BY <2>1
  <2> HIDE DEF L
  <2>3. L # 1
    BY DEF L
  <2>4. QED
    BY <2>1, <2>2, <2>3
<1>2. \A i \in 1 .. M : frames[i] \in Frame
  BY <1>1
<1>3. /\ outer \in Seq(Frame) /\ Len(outer) = M
      /\ \A i \in 1 .. M : outer[i] = frames[i]
  <2>1. outer = SubSeq(frames, 1, M)
    BY DEF Front
  <2>2. /\ SubSeq(frames, 1, M) \in Seq(Frame)
        /\ Len(SubSeq(frames, 1, M)) = IF 1 <= M THEN M - 1 + 1 ELSE 0
        /\ \A i \in 1 .. M - 1 + 1 : SubSeq(frames, 1, M)[i] = frames[1 + i - 1]
    BY <1>1, <1>2, SubSeqProperties
  <2> HIDE DEF outer, L, M
  <2>3. QED
    BY <1>1, <2>1, <2>2
<1>4. outer # <<>>
  BY <1>1, <1>3
<1>5. /\ frames' = [outer EXCEPT ![M].at = @ + 1]
      /\ lowlink' = [lowlink EXCEPT ![c] = Lower(@, lowlink[v])]
  <2>1. Last(outer).node = c
    BY <1>1, <1>3 DEF Last
  <2>2. QED
    BY <1>3, <1>4, <2>1 DEF Return
<1>6. r \in Frame /\ r.node = frames[M].node /\ r.at = frames[M].at + 1
  <2>1. frames[M] \in Frame
    BY <1>1
  <2>2. QED
    BY <2>1 DEF Frame
<1>7. frames' = [outer EXCEPT ![M] = r]
  BY <1>1, <1>3, <1>5
<1>8. /\ c \in Nodes /\ v \in Nodes /\ lowlink \in [Nodes -> Nat]
      /\ lowlink[c] \in Nat /\ lowlink[v] \in Nat
  <2>1. L \in 1 .. L
    BY <1>1
  <2>2. c \in Nodes /\ v \in Nodes
    BY <1>1, <2>1, FrameFacts DEF Top
  <2>3. QED
    BY <2>2 DEF Inv, Typed
<1>9. Lower(lowlink[c], lowlink[v]) \in Nat
  BY <1>8 DEF Lower
<1> HIDE DEF r, outer, L, M
<1>10. /\ lowlink' \in [Nodes -> Nat]
       /\ lowlink'[c] = Lower(lowlink[c], lowlink[v])
       /\ \A n \in Nodes : n # c => lowlink'[n] = lowlink[n]
  BY <1>5, <1>8, <1>9
<1>11. /\ Len(frames') = M /\ frames' \in Seq(Frame)
       /\ frames'[M] = r /\ \A f \in 1 .. M : f # M => frames'[f] = frames[f]
  BY <1>1, <1>3, <1>6, <1>7
<1>12. QED
  BY <1>1, <1>6, <1>10, <1>11 DEF L, M

(* The visits that remain are still a path, one arc further.                *)
LEMMA ReturnKeepsFrames ==
  ASSUME Inv, frames # <<>>, Top.at > Len(successors[Top.node]), Return, Len(frames) # 1,
         successors' = successors, index' = index,
         NEW v, v = Top.node,
         NEW M, M = Len(frames) - 1,
         NEW c, c = frames[M].node
  PROVE  /\ c \in Nodes /\ c # v /\ onStack[c] /\ index[c] < index[v]
         /\ frames[M].at \in 1 .. Len(successors[c]) /\ successors[c][frames[M].at] = v
         /\ Framed(c)'
         /\ \A n \in Nodes : Framed(n)' <=> Framed(n) /\ n # v
         /\ \A f \in 1 .. M : frames'[f].at <= Len(successors[frames[f].node]) + 1
         /\ \A f \in 1 .. M - 1 :
              /\ frames'[f].at <= Len(successors[frames[f].node])
              /\ successors[frames[f].node][frames'[f].at] = frames[f + 1].node
         /\ \A n \in Nodes : \A k \in 1 .. Len(successors[n]) :
              Past(n, k)' => Past(n, k) \/ n = v \/ (n = c /\ k = frames[M].at)
<1> DEFINE L == Len(frames)
<1> USE DEF Inv
<1>1. /\ L \in Nat /\ L \in 1 .. L /\ frames[L].node = v /\ v \in Nodes
      /\ index[v] \in Nat
      /\ \A f \in 1 .. L : f # L => index[frames[f].node] < index[v]
  BY FinishFacts
<1>2. /\ M \in Nat /\ M \in 1 .. L /\ Len(frames') = M
      /\ \A f \in 1 .. M : frames'[f].node = frames[f].node
      /\ \A f \in 1 .. M : f # M => frames'[f].at = frames[f].at
      /\ frames'[M].at = frames[M].at + 1
  BY ReturnFacts
<1> HIDE DEF L
<1>3. M = L - 1 /\ Len(frames) = L
  BY DEF L
<1>4. c \in Nodes /\ onStack[c] /\ index[c] \in Nat /\ frames[M].at \in Nat \ {0}
  BY <1>2, <1>3, FrameFacts
<1>5. c # v /\ index[c] < index[v]
  BY <1>1, <1>2, <1>3, <1>4
<1>6. /\ frames[M].at <= Len(successors[c]) /\ successors[c][frames[M].at] = v
  <2>1. M \in 1 .. L - 1 /\ M + 1 = L
    BY <1>1, <1>2, <1>3
  <2>2. QED
    BY <1>1, <1>3, <2>1 DEF FrameInv
<1>7. Len(successors[c]) \in Nat /\ frames[M].at \in 1 .. Len(successors[c])
  <2>1. Len(successors[c]) \in Nat
    BY <1>4 DEF Typed
  <2>2. QED
    BY <1>4, <1>6, <2>1
<1>8. ASSUME NEW n \in Nodes
      PROVE  Framed(n)' <=> Framed(n) /\ n # v
  <2>1. ASSUME NEW f \in 1 .. M, frames'[f].node = n
        PROVE  f \in 1 .. L /\ frames[f].node = n /\ n # v
    <3>1. f \in 1 .. L /\ f # L /\ frames[f].node = n
      BY <1>1, <1>2, <1>3, <2>1
    <3>2. QED
      BY <1>1, <3>1
  <2>2. ASSUME NEW f \in 1 .. L, frames[f].node = n, n # v
        PROVE  f \in 1 .. M /\ frames'[f].node = n
    <3>1. f # L
      BY <1>1, <2>2
    <3>2. f \in 1 .. M
      BY <1>1, <1>3, <3>1
    <3>3. QED
      BY <1>2, <2>2, <3>2
  <2>3. QED
    BY <1>2, <1>3, <2>1, <2>2 DEF Framed
<1>9. Framed(c)'
  <2>1. Framed(c)
    BY <1>2, <1>3 DEF Framed
  <2>2. QED
    BY <1>4, <1>5, <1>8, <2>1
<1>10. ASSUME NEW f \in 1 .. M
       PROVE  frames'[f].at <= Len(successors[frames[f].node]) + 1
  <2>1. CASE f = M
    BY <1>2, <1>4, <1>6, <1>7, <2>1
  <2>2. CASE f # M
    BY <1>1, <1>2, <1>3, <2>2 DEF FrameInv
  <2>3. QED
    BY <2>1, <2>2
<1>11. ASSUME NEW f \in 1 .. M - 1
       PROVE  /\ frames'[f].at <= Len(successors[frames[f].node])
              /\ successors[frames[f].node][frames'[f].at] = frames[f + 1].node
  <2>1. f \in 1 .. M /\ f # M /\ f \in 1 .. L - 1
    BY <1>1, <1>2, <1>3
  <2>2. frames'[f].at = frames[f].at
    BY <1>2, <2>1
  <2>3. QED
    BY <1>3, <2>1, <2>2 DEF FrameInv
<1>12. ASSUME NEW n \in Nodes, NEW k \in 1 .. Len(successors[n]),
              Past(n, k)', n # v, ~ (n = c /\ k = frames[M].at)
       PROVE  Past(n, k)
  <2>1. Met(n)
    BY <1>12 DEF Past, Met
  <2>2. ASSUME NEW f \in 1 .. L, frames[f].node = n
        PROVE  k < frames[f].at
    <3>1. f # L
      BY <1>1, <1>12, <2>2
    <3>2. f \in 1 .. M
      BY <1>1, <1>3, <3>1
    <3>3. k < frames'[f].at
      BY <1>2, <1>12, <2>2, <3>2 DEF Past
    <3>4. CASE f = M
      <4>1. n = c /\ k # frames[M].at /\ k < frames[M].at + 1
        BY <1>2, <1>12, <2>2, <3>3, <3>4
      <4>2. k \in Nat
        OBVIOUS
      <4>3. QED
        BY <1>4, <3>4, <4>1, <4>2
    <3>5. CASE f # M
      BY <1>2, <3>2, <3>3, <3>5
    <3>6. QED
      BY <3>4, <3>5
  <2>3. QED
    BY <1>3, <2>1, <2>2 DEF Past
<1>13. QED
  BY <1>4, <1>5, <1>6, <1>7, <1>8, <1>9, <1>10, <1>11, <1>12

(* A visit ends whose component is open: the leaf stays on the stack, and   *)
(* the visit that made it takes its lowlink.                                *)
LEMMA FinishOpenKeeps ==
  ASSUME Inv, frames # <<>>, Top.at > Len(successors[Top.node]),
         lowlink[Top.node] # index[Top.node], Return,
         UNCHANGED <<successors, index, onStack, stack, nextIndex, components, root>>,
         NEW v, v = Top.node,
         NEW M, M = Len(frames) - 1,
         NEW c, c = frames[M].node
  PROVE  Inv'
<1> DEFINE L == Len(frames)
<1> USE DEF Inv
<1>1. /\ Typed
      /\ successors' = successors /\ index' = index /\ onStack' = onStack /\ stack' = stack
      /\ nextIndex' = nextIndex /\ components' = components /\ root' = root
  OBVIOUS
<1>2. /\ L \in Nat /\ L \in 1 .. L /\ frames[L].node = v /\ v \in Nodes /\ onStack[v] /\ Met(v)
      /\ index[v] \in Nat /\ lowlink[v] \in Nat /\ lowlink[v] <= index[v]
      /\ \A n \in Nodes : onStack[n] /\ index[v] < index[n] =>
           n # v /\ ~ Framed(n) /\ lowlink[v] <= lowlink[n]
      /\ \A n \in Nodes : onStack[n] /\ index[v] <= index[n] =>
           \A k \in 1 .. Len(successors[n]) : Past(n, k)
  BY FinishFacts
<1>3. lowlink[v] < index[v]
  BY <1>2
<1>4. L # 1
  <2>1. PICK m \in Nodes : onStack[m] /\ index[m] = lowlink[v]
    BY <1>2 DEF LowInv
  <2>2. index[frames[1].node] <= index[m]
    BY <2>1 DEF RootInv
  <2> SUFFICES ASSUME L = 1 PROVE FALSE
    OBVIOUS
  <2>3. index[v] <= index[m]
    BY <1>2, <2>2
  <2>4. QED
    BY <1>2, <1>3, <2>1, <2>3
<1>5. /\ M \in Nat /\ M \in 1 .. L /\ Len(frames') = M /\ frames' \in Seq(Frame)
      /\ \A f \in 1 .. M : frames'[f].node = frames[f].node
      /\ lowlink' \in [Nodes -> Nat]
      /\ lowlink'[c] = Lower(lowlink[c], lowlink[v])
      /\ \A n \in Nodes : n # c => lowlink'[n] = lowlink[n]
  BY <1>4, ReturnFacts
<1>6. /\ c \in Nodes /\ c # v /\ onStack[c] /\ index[c] < index[v]
      /\ frames[M].at \in 1 .. Len(successors[c]) /\ successors[c][frames[M].at] = v
      /\ Framed(c)'
      /\ \A n \in Nodes : Framed(n)' <=> Framed(n) /\ n # v
      /\ \A f \in 1 .. M : frames'[f].at <= Len(successors[frames[f].node]) + 1
      /\ \A f \in 1 .. M - 1 :
           /\ frames'[f].at <= Len(successors[frames[f].node])
           /\ successors[frames[f].node][frames'[f].at] = frames[f + 1].node
      /\ \A n \in Nodes : \A k \in 1 .. Len(successors[n]) :
           Past(n, k)' => Past(n, k) \/ n = v \/ (n = c /\ k = frames[M].at)
  BY <1>1, <1>4, ReturnKeepsFrames, SMTT(20)
<1> HIDE DEF L
<1>7. M = L - 1 /\ Len(frames) = L /\ c = frames[M].node
  BY DEF L
<1>8. /\ index[c] \in Nat /\ lowlink[c] \in Nat /\ lowlink[c] <= index[c]
  BY <1>6, StackedFacts DEF LowInv
<1>9. /\ lowlink'[c] \in Nat /\ lowlink'[c] <= lowlink[c] /\ lowlink'[c] <= lowlink[v]
      /\ lowlink'[c] = lowlink[c] \/ lowlink'[c] = lowlink[v]
  BY <1>2, <1>5, <1>8 DEF Lower
<1>10. \A n \in Nodes : Met(n)' <=> Met(n)
  BY <1>1 DEF Met
<1>11. /\ Schedule!Scheduled' = Schedule!Scheduled
       /\ \A a : Schedule!Reached(a)' = Schedule!Reached(a)
       /\ \A T : Schedule!Closed(T)' <=> Schedule!Closed(T)
       /\ \A a : Schedule!Component(a)' = Schedule!Component(a)
  BY <1>1, SameGraph, SameStages
<1>12. Typed'
  BY <1>1, <1>5 DEF Typed
<1>13. StackInv'
  <2>1. \A n \in Schedule!Scheduled : Met(n)'
    BY <1>1, <1>10, ScheduledIs DEF StackInv
  <2>2. QED
    BY <1>1, <1>10, <1>11, <2>1 DEF StackInv
<1>14. FrameInv'
  <2>1. ASSUME NEW f \in 1 .. M
        PROVE  /\ f \in 1 .. L
               /\ onStack[frames[f].node]
               /\ \A n \in Nodes :
                    onStack[n] /\ index[frames[f].node] < index[n] =>
                      n \in Schedule!Reached(frames[f].node)
    <3>1. f \in 1 .. L
      BY <1>5, <1>7
    <3>2. QED
      BY <1>7, <3>1 DEF FrameInv
  <2>2. \A f, g \in 1 .. M : f < g => index[frames[f].node] < index[frames[g].node]
    BY <1>7, <2>1 DEF FrameInv
  <2>3. \A f \in 1 .. M - 1 : f + 1 \in 1 .. M
    BY <1>5
  <2>4. \A f \in 1 .. M - 1 : /\ frames'[f].at <= Len(successors'[frames'[f].node])
                              /\ successors'[frames'[f].node][frames'[f].at] = frames'[f + 1].node
    <3> SUFFICES ASSUME NEW f \in 1 .. M - 1
                 PROVE  /\ frames'[f].at <= Len(successors'[frames'[f].node])
                        /\ successors'[frames'[f].node][frames'[f].at] = frames'[f + 1].node
      OBVIOUS
    <3>1. f \in 1 .. M /\ f + 1 \in 1 .. M
      BY <1>5
    <3>2. frames'[f].node = frames[f].node /\ frames'[f + 1].node = frames[f + 1].node
      BY <1>5, <3>1
    <3>3. QED
      BY <1>1, <1>6, <3>2
  <2>5. QED
    BY <1>1, <1>5, <1>6, <1>11, <2>1, <2>2, <2>4 DEF FrameInv
<1>15. LowInv'
  <2> SUFFICES ASSUME NEW n \in Nodes, onStack[n]
               PROVE  /\ lowlink'[n] <= index[n]
                      /\ ~ Framed(n)' => lowlink'[n] < index[n]
                      /\ \E m \in Nodes : /\ onStack[m] /\ index[m] = lowlink'[n]
                                          /\ m \in Schedule!Reached(n)
    BY <1>1, <1>11 DEF LowInv
  <2>1. CASE n = c
    <3>1. lowlink'[c] <= index[c]
      BY <1>8, <1>9
    <3>2. \E m \in Nodes : onStack[m] /\ index[m] = lowlink[c] /\ m \in Schedule!Reached(c)
      BY <1>6 DEF LowInv
    <3>3. \E m \in Nodes : onStack[m] /\ index[m] = lowlink[v] /\ m \in Schedule!Reached(c)
      <4>1. PICK m \in Nodes : onStack[m] /\ index[m] = lowlink[v] /\ m \in Schedule!Reached(v)
        BY <1>2 DEF LowInv
      <4>2. v \in Schedule!Reached(c)
        BY <1>2, <1>5, <1>6, <1>7 DEF FrameInv
      <4>3. QED
        BY <4>1, <4>2, ReachedTransitive
    <3>4. QED
      BY <1>6, <1>9, <2>1, <3>1, <3>2, <3>3
  <2>2. CASE n # c
    <3>1. lowlink'[n] = lowlink[n]
      BY <1>5, <2>2
    <3>2. CASE n = v
      BY <1>2, <1>3, <3>1, <3>2 DEF LowInv
    <3>3. CASE n # v
      BY <1>6, <3>1, <3>3 DEF LowInv
    <3>4. QED
      BY <3>2, <3>3
  <2>3. QED
    BY <2>1, <2>2
<1>16. PastInv'
  <2> SUFFICES ASSUME NEW n \in Nodes, NEW k \in 1 .. Len(successors[n]), Past(n, k)'
               PROVE  /\ Met(successors[n][k])
                      /\ onStack[n] /\ onStack[successors[n][k]] =>
                           lowlink'[n] <= index[successors[n][k]]
    BY <1>1, <1>10, ReachedArc DEF PastInv
  <2>1. successors[n][k] \in Nodes
    BY ReachedArc
  <2>2. CASE n = c /\ k = frames[M].at
    <3>1. successors[n][k] = v
      BY <1>6, <2>2
    <3>2. lowlink'[c] <= index[v]
      BY <1>2, <1>9
    <3>3. QED
      BY <1>2, <2>2, <3>1, <3>2
  <2>3. CASE Past(n, k)
    <3>1. /\ Met(successors[n][k])
          /\ onStack[n] /\ onStack[successors[n][k]] => lowlink[n] <= index[successors[n][k]]
      BY <2>3 DEF PastInv
    <3>2. CASE n = c
      <4>1. SUFFICES ASSUME onStack[successors[n][k]]
                     PROVE  lowlink'[n] <= index[successors[n][k]]
        BY <3>1
      <4>2. index[successors[n][k]] \in Nat /\ lowlink[c] <= index[successors[n][k]]
        BY <1>6, <2>1, <3>1, <3>2, <4>1, StackedFacts
      <4>3. QED
        BY <1>8, <1>9, <3>2, <4>2
    <3>3. CASE n # c
      BY <1>5, <3>1, <3>3
    <3>4. QED
      BY <3>2, <3>3
  <2>4. CASE n = v
    <3>1. Past(n, k)
      BY <1>2, <2>4
    <3>2. QED
      BY <2>3, <3>1
  <2>5. QED
    BY <1>6, <2>2, <2>3, <2>4
<1>17. TakenInv'
  <2> SUFFICES ASSUME NEW f \in 1 .. M, NEW n \in Nodes,
                      onStack[n], ~ Framed(n)', index[frames[f].node] < index[n],
                      f < M => index[n] < index[frames'[f + 1].node]
               PROVE  lowlink'[frames[f].node] <= lowlink'[n]
    BY <1>1, <1>5 DEF TakenInv
  <2>1. n # c /\ lowlink'[n] = lowlink[n] /\ lowlink[n] \in Nat /\ index[n] \in Nat
    <3>1. n # c
      BY <1>6
    <3>2. lowlink[n] \in Nat /\ index[n] \in Nat
      BY StackedFacts
    <3>3. QED
      BY <1>5, <3>1, <3>2
  <2>2. f \in 1 .. L /\ frames[f].node \in Nodes /\ onStack[frames[f].node]
    <3>1. f \in 1 .. L
      BY <1>5, <1>7
    <3>2. QED
      BY <1>7, <3>1, FrameFacts
  <2>3. lowlink[frames[f].node] \in Nat /\ index[frames[f].node] \in Nat
    BY <2>2, StackedFacts
  <2>4. CASE f = M
    <3>1. CASE n = v
      BY <1>7, <1>9, <2>1, <2>4, <3>1
    <3>2. CASE n # v /\ index[n] < index[v]
      <4>1. ~ Framed(n) /\ frames[f + 1].node = v /\ f < L
        BY <1>2, <1>5, <1>6, <1>7, <2>4, <3>2
      <4>2. lowlink[c] <= lowlink[n]
        BY <1>7, <2>2, <2>4, <3>2, <4>1 DEF TakenInv
      <4>3. QED
        BY <1>7, <1>8, <1>9, <2>1, <2>4, <4>2
    <3>3. CASE index[v] < index[n]
      BY <1>2, <1>7, <1>9, <2>1, <2>4, <3>3
    <3>4. CASE index[n] = index[v] /\ n # v
      BY <1>2, <3>4, IndicesDiffer
    <3>5. QED
      BY <1>2, <2>1, <3>1, <3>2, <3>3, <3>4
  <2>5. CASE f # M
    <3>1. f < M /\ f + 1 \in 1 .. M /\ f + 1 \in 1 .. L /\ f < L
      BY <1>5, <1>7, <2>5
    <3>2. index[n] < index[frames[f + 1].node]
      BY <1>5, <3>1
    <3>3. index[frames[f + 1].node] <= index[c] /\ index[frames[f + 1].node] \in Nat
      <4>1. index[frames[f + 1].node] \in Nat
        BY <1>7, <3>1, FrameFacts
      <4>2. CASE f + 1 = M
        BY <1>7, <1>8, <4>2
      <4>3. CASE f + 1 # M
        <5>1. f + 1 < M
          BY <3>1, <4>3
        <5>2. index[frames[f + 1].node] < index[frames[M].node]
          BY <1>5, <1>7, <3>1, <5>1 DEF FrameInv
        <5>3. QED
          BY <1>7, <1>8, <4>1, <5>2
      <4>4. QED
        BY <4>2, <4>3
    <3>4. n # v
      BY <1>2, <1>6, <1>8, <2>1, <3>2, <3>3
    <3>5. ~ Framed(n)
      BY <1>6, <3>4
    <3>6. lowlink[frames[f].node] <= lowlink[n]
      BY <1>7, <2>2, <3>1, <3>2, <3>5 DEF TakenInv
    <3>7. frames[f].node # c
      <4>1. index[frames[f].node] < index[frames[M].node]
        BY <1>5, <1>7, <2>2, <3>1 DEF FrameInv
      <4>2. QED
        BY <1>7, <1>8, <4>1
    <3>8. QED
      BY <1>5, <2>1, <2>2, <3>6, <3>7
  <2>6. QED
    BY <2>4, <2>5
<1>18. StageInv'
  BY <1>1, <1>11, SameClosed DEF StageInv
<1>19. RootInv'
  <2>1. ASSUME NEW n \in Nodes, onStack[n]
        PROVE  frames' # <<>> /\ index[frames'[1].node] <= index[n]
    <3>1. 1 \in 1 .. M /\ frames' # <<>>
      BY <1>2, <1>4, <1>5, <1>7
    <3>2. QED
      BY <1>5, <2>1, <3>1 DEF RootInv
  <2>2. QED
    BY <1>1, <1>10, <2>1 DEF RootInv
<1>20. QED
  BY <1>12, <1>13, <1>14, <1>15, <1>16, <1>17, <1>18, <1>19

(* What a visit pops: the leaves stacked since its own.                     *)
Since(v) == {n \in Nodes : onStack[n] /\ index[v] <= index[n]}

(* It is the component of the leaf, all of whose other dependencies are     *)
(* scheduled.                                                               *)
LEMMA SinceIsComponent ==
  ASSUME Inv, frames # <<>>, Top.at > Len(successors[Top.node]),
         NEW v, v = Top.node, lowlink[v] = index[v]
  PROVE  /\ Schedule!Closed(Since(v) \cup Schedule!Scheduled)
         /\ Since(v) = Schedule!Component(v)
         /\ v \notin Schedule!Scheduled /\ v \in Nodes
         /\ Schedule!Reached(v) \subseteq Schedule!Scheduled \cup Schedule!Component(v)
<1> DEFINE U == Since(v)
           A == Schedule!Scheduled
           L == Len(frames)
<1> USE DEF Inv
<1>1. /\ L \in Nat /\ L \in 1 .. L /\ frames[L].node = v /\ v \in Nodes /\ onStack[v] /\ Met(v)
      /\ index[v] \in Nat /\ lowlink[v] \in Nat
      /\ v \notin Schedule!Scheduled
      /\ \A n \in Nodes : onStack[n] /\ index[v] < index[n] =>
           n # v /\ ~ Framed(n) /\ lowlink[v] <= lowlink[n]
      /\ \A n \in Nodes : onStack[n] /\ index[v] <= index[n] =>
           \A k \in 1 .. Len(successors[n]) : Past(n, k)
  BY FinishFacts
<1>2. ASSUME NEW n \in U
      PROVE  /\ n \in Nodes /\ onStack[n] /\ index[n] \in Nat /\ index[v] <= index[n]
             /\ lowlink[n] \in Nat /\ index[v] <= lowlink[n]
             /\ n # v => index[v] < index[n]
  <2>1. n \in Nodes /\ onStack[n] /\ index[v] <= index[n]
    BY DEF Since
  <2>2. index[n] \in Nat /\ lowlink[n] \in Nat
    BY <2>1, StackedFacts
  <2>3. CASE n = v
    BY <1>1, <2>1, <2>2, <2>3
  <2>4. CASE n # v
    <3>1. index[v] < index[n]
      BY <1>1, <2>1, <2>2, <2>4, IndicesDiffer
    <3>2. lowlink[v] <= lowlink[n]
      BY <1>1, <2>1, <3>1
    <3>3. QED
      BY <2>1, <2>2, <3>1, <3>2
  <2>5. QED
    BY <2>3, <2>4
<1>3. ASSUME NEW m \in Nodes, onStack[m], index[v] <= index[m]
      PROVE  m \in U
  BY <1>3 DEF Since
<1>4. A \in SUBSET Nodes
  BY ScheduledIs
<1>5. Schedule!Closed(A)
  BY DEF StageInv
<1>6. U \cup A \in SUBSET Nodes /\ v \in U
  BY <1>1, <1>3, <1>4 DEF Since
<1> HIDE DEF U, A, L
<1>7. Schedule!Closed(U \cup A)
  <2> SUFFICES ASSUME NEW n \in Nodes, NEW k \in 1 .. Len(successors[n]), n \in U \cup A
               PROVE  successors[n][k] \in U \cup A
    BY ClosedIs
  <2>1. CASE n \in A
    BY <1>5, <2>1, ClosedIs
  <2>2. CASE n \in U
    <3>1. Past(n, k)
      BY <1>1, <1>2, <2>2
    <3>2. /\ successors[n][k] \in Nodes /\ Met(successors[n][k])
          /\ onStack[successors[n][k]] => lowlink[n] <= index[successors[n][k]]
      BY <1>2, <2>2, <3>1, ReachedArc DEF PastInv
    <3>3. CASE onStack[successors[n][k]]
      <4>1. index[successors[n][k]] \in Nat
        BY <3>2, <3>3, StackedFacts
      <4>2. index[v] <= index[successors[n][k]]
        BY <1>1, <1>2, <2>2, <3>2, <3>3, <4>1
      <4>3. QED
        BY <1>3, <3>2, <3>3, <4>2
    <3>4. CASE ~ onStack[successors[n][k]]
      BY <3>2, <3>4 DEF StackInv, A
    <3>5. QED
      BY <3>3, <3>4
  <2>3. QED
    BY <2>1, <2>2
<1>8. ASSUME NEW n \in U
      PROVE  n \in Schedule!Reached(v)
  <2>1. CASE n = v
    BY <1>1, <2>1, ReachedSelf
  <2>2. CASE n # v
    <3>1. index[frames[L].node] < index[n]
      BY <1>1, <1>2, <2>2
    <3>2. QED
      BY <1>1, <1>2, <3>1 DEF FrameInv, L
  <2>3. QED
    BY <2>1, <2>2
<1>9. \A n \in U : v \in Schedule!Reached(n)
  <2> DEFINE B == {index[n] : n \in {m \in U : v \notin Schedule!Reached(m)}}
  <2> SUFFICES ASSUME B # {} PROVE FALSE
    OBVIOUS
  <2>1. B \in SUBSET Nat
    BY <1>2
  <2>2. PICK b \in B : \A a \in B : b <= a
    BY <2>1, LeastNumber
  <2>3. PICK n \in U : v \notin Schedule!Reached(n) /\ b = index[n]
    BY <2>2
  <2>4. n # v /\ index[v] < index[n]
    BY <1>1, <1>2, <2>3, ReachedSelf
  <2>5. ~ Framed(n)
    BY <1>1, <1>2, <2>4
  <2>6. PICK m \in Nodes : onStack[m] /\ index[m] = lowlink[n] /\ m \in Schedule!Reached(n)
    BY <1>2 DEF LowInv
  <2>7. m \in U
    BY <1>2, <1>3, <2>6
  <2>8. index[m] < index[n]
    BY <1>2, <2>5, <2>6 DEF LowInv
  <2>9. v \in Schedule!Reached(m)
    <3> SUFFICES ASSUME v \notin Schedule!Reached(m) PROVE FALSE
      OBVIOUS
    <3>1. index[m] \in B
      BY <2>7
    <3>2. index[n] <= index[m]
      BY <2>2, <2>3, <3>1
    <3>3. QED
      BY <1>2, <2>7, <2>8, <3>2
  <2>10. QED
    BY <2>3, <2>6, <2>9, ReachedTransitive
<1>10. ASSUME NEW b \in Schedule!Reached(v)
       PROVE  b \in U \cup A
  BY <1>6, <1>7, ReachedInClosed
<1>11. ASSUME NEW b \in Schedule!Component(v)
       PROVE  b \in U
  <2>1. b \in Schedule!Reached(v) /\ v \in Schedule!Reached(b)
    BY DEF Schedule!Component
  <2>2. b \notin A
    BY <1>1, <1>4, <1>5, <2>1, ReachedInClosed DEF A
  <2>3. QED
    BY <1>10, <2>1, <2>2
<1>12. U = Schedule!Component(v)
  <2>1. \A n \in U : n \in Schedule!Component(v)
    BY <1>8, <1>9 DEF Schedule!Component
  <2>2. QED
    BY <1>11, <2>1
<1>13. QED
  BY <1>1, <1>7, <1>10, <1>12 DEF U, A

(* What is popped, and what is left.                                        *)
LEMMA PoppedFacts ==
  ASSUME Inv, frames # <<>>, Top.at > Len(successors[Top.node]),
         NEW v, v = Top.node, Popped(v)
  PROVE  /\ components' = Append(components, Ascending(Since(v)))
         /\ \A n \in Nodes : onStack'[n] <=> onStack[n] /\ n \notin Since(v)
         /\ onStack' \in [Nodes -> BOOLEAN]
         /\ stack' \in Seq(Nodes)
         /\ \A n \in Nodes : onStack'[n] <=> \E k \in 1 .. Len(stack') : stack'[k] = n
         /\ \A i, j \in 1 .. Len(stack') : i < j => index[stack'[i]] < index[stack'[j]]
<1> DEFINE S == Len(stack)
           at == CHOOSE k \in 1 .. Len(stack) : stack[k] = v
<1> USE DEF Inv
<1>1. /\ S \in Nat /\ stack \in Seq(Nodes) /\ v \in Nodes /\ onStack[v] /\ index[v] \in Nat
      /\ onStack \in [Nodes -> BOOLEAN]
  BY FinishFacts DEF Typed
<1>2. at \in 1 .. S /\ stack[at] = v
  <2>1. \E k \in 1 .. S : stack[k] = v
    BY <1>1 DEF StackInv
  <2>2. QED
    BY <2>1
<1>3. \A k \in 1 .. S : /\ stack[k] \in Nodes /\ onStack[stack[k]] /\ index[stack[k]] \in Nat
  <2> SUFFICES ASSUME NEW k \in 1 .. S
               PROVE  /\ stack[k] \in Nodes /\ onStack[stack[k]] /\ index[stack[k]] \in Nat
    OBVIOUS
  <2>1. stack[k] \in Nodes
    BY <1>1
  <2>2. onStack[stack[k]]
    BY <2>1 DEF StackInv
  <2>3. QED
    BY <2>1, <2>2, StackedFacts
<1>4. /\ components' = Append(components, Ascending({stack[k] : k \in at .. S}))
      /\ stack' = SubSeq(stack, 1, at - 1)
      /\ onStack' = [n \in Nodes |-> onStack[n] /\ n \notin {stack[k] : k \in at .. S}]
  BY DEF Popped
<1> HIDE DEF at
<1>5. \A k \in 1 .. S : stack[k] \in Since(v) <=> at <= k
  <2> SUFFICES ASSUME NEW k \in 1 .. S PROVE index[v] <= index[stack[k]] <=> at <= k
    BY <1>3 DEF Since
  <2>1. CASE k < at
    <3>1. index[stack[k]] < index[v]
      BY <1>2, <2>1 DEF StackInv
    <3>2. QED
      BY <1>1, <1>2, <1>3, <2>1, <3>1
  <2>2. CASE k = at
    BY <1>1, <1>2, <2>2
  <2>3. CASE at < k
    <3>1. index[v] < index[stack[k]]
      BY <1>2, <2>3 DEF StackInv
    <3>2. QED
      BY <1>1, <1>2, <1>3, <2>3, <3>1
  <2>4. QED
    BY <1>2, <2>1, <2>2, <2>3
<1>6. {stack[k] : k \in at .. S} = Since(v)
  <2>1. \A k \in at .. S : stack[k] \in Since(v)
    BY <1>1, <1>2, <1>5
  <2>2. ASSUME NEW n \in Since(v) PROVE \E k \in at .. S : stack[k] = n
    <3>1. PICK k \in 1 .. S : stack[k] = n
      BY DEF Since, StackInv
    <3>2. at <= k
      BY <1>5, <3>1
    <3>3. k \in at .. S
      BY <1>1, <1>2, <3>2
    <3>4. QED
      BY <3>1, <3>3
  <2>3. QED
    BY <2>1, <2>2
<1>7. /\ \A n \in Nodes : onStack'[n] <=> onStack[n] /\ n \notin Since(v)
      /\ onStack' \in [Nodes -> BOOLEAN]
  BY <1>1, <1>4, <1>6
<1>8. /\ stack' \in Seq(Nodes) /\ Len(stack') = at - 1
      /\ \A k \in 1 .. at - 1 : k \in 1 .. S /\ stack'[k] = stack[k]
  <2>1. at - 1 \in Nat /\ at - 1 \in Int /\ 1 \in Int
    BY <1>2
  <2>2. \A k \in 1 .. at - 1 : k \in 1 .. S /\ stack[k] \in Nodes
    BY <1>1, <1>2, <1>3
  <2>3. /\ SubSeq(stack, 1, at - 1) \in Seq(Nodes)
        /\ Len(SubSeq(stack, 1, at - 1)) = IF 1 <= at - 1 THEN at - 1 - 1 + 1 ELSE 0
        /\ \A i \in 1 .. at - 1 - 1 + 1 : SubSeq(stack, 1, at - 1)[i] = stack[1 + i - 1]
    BY <2>1, <2>2, SubSeqProperties
  <2>4. QED
    BY <1>4, <2>1, <2>2, <2>3
<1>9. ASSUME NEW n \in Nodes
      PROVE  onStack'[n] <=> \E k \in 1 .. at - 1 : stack'[k] = n
  <2>1. ASSUME onStack'[n]
        PROVE  \E k \in 1 .. at - 1 : stack'[k] = n
    <3>1. PICK k \in 1 .. S : stack[k] = n
      BY <1>7, <2>1 DEF StackInv
    <3>2. k < at
      BY <1>2, <1>5, <1>7, <2>1, <3>1
    <3>3. k \in 1 .. at - 1
      BY <1>2, <3>2
    <3>4. QED
      BY <1>8, <3>1, <3>3
  <2>2. ASSUME NEW k \in 1 .. at - 1, stack'[k] = n
        PROVE  onStack'[n]
    <3>1. k \in 1 .. S /\ stack[k] = n /\ ~ (at <= k)
      BY <1>2, <1>8, <2>2
    <3>2. QED
      BY <1>3, <1>5, <1>7, <3>1
  <2>3. QED
    BY <2>1, <2>2
<1>10. ASSUME NEW i \in 1 .. at - 1, NEW j \in 1 .. at - 1, i < j
       PROVE  index[stack'[i]] < index[stack'[j]]
  BY <1>8, <1>10 DEF StackInv
<1>11. QED
  BY <1>4, <1>6, <1>7, <1>8, <1>9, <1>10

(* A component found is one more stage.                                     *)
LEMMA StageAppended ==
  ASSUME Typed, NEW U \in SUBSET Nodes, components' = Append(components, Ascending(U))
  PROVE  /\ components' \in Seq(Seq(Nodes)) /\ Len(components') = Len(components) + 1
         /\ \A k \in 1 .. Len(components) : components'[k] = components[k]
         /\ components'[Len(components) + 1] = Ascending(U)
         /\ Stages' = Append(Stages, U)
         /\ Schedule!Scheduled' = Schedule!Scheduled \cup U
<1> DEFINE N == Len(components)
           s == Ascending(U)
<1>1. N \in Nat /\ components \in Seq(Seq(Nodes))
  BY DEF Typed
<1>2. s \in Seq(Nodes) /\ Range(s) = U
  BY AscendingMembers
<1>3. components' = Append(components, s)
  OBVIOUS
<1> HIDE DEF s
<1>4. /\ components' \in Seq(Seq(Nodes)) /\ Len(components') = N + 1
      /\ \A k \in 1 .. N : components'[k] = components[k]
      /\ components'[N + 1] = s
  BY <1>1, <1>2, <1>3
<1>5. /\ Stages \in Seq(SUBSET Nodes) /\ Len(Stages) = N
      /\ \A k \in 1 .. N : Stages[k] = Range(components[k])
      /\ Schedule!Scheduled = UNION {Range(components[k]) : k \in 1 .. N}
  BY ScheduledIs
<1> HIDE DEF N
<1>6. Stages' = [k \in 1 .. N + 1 |-> Range(components'[k])]
  BY <1>4 DEF Stages
<1>7. Stages' = Append(Stages, U)
  <2> DEFINE A == Append(Stages, U)
  <2>1. A \in Seq(SUBSET Nodes) /\ Len(A) = N + 1 /\ A[N + 1] = U
        /\ \A k \in 1 .. N : A[k] = Stages[k]
    BY <1>5
  <2>2. DOMAIN A = 1 .. N + 1
    BY <1>1, <2>1
  <2>3. ASSUME NEW k \in 1 .. N + 1
        PROVE  A[k] = Range(components'[k])
    <3>1. CASE k = N + 1
      BY <1>2, <1>4, <2>1, <3>1
    <3>2. CASE k # N + 1
      <4>1. k \in 1 .. N
        BY <1>1, <3>2
      <4>2. QED
        BY <1>4, <1>5, <2>1, <4>1
    <3>3. QED
      BY <3>1, <3>2
  <2> HIDE DEF A
  <2>4. A = [k \in 1 .. Len(A) |-> A[k]]
    BY <2>1
  <2>5. A = [k \in 1 .. N + 1 |-> Range(components'[k])]
    BY <2>1, <2>3, <2>4
  <2>6. QED
    BY <1>6, <2>5 DEF A
<1>8. Schedule!Scheduled' = Schedule!Scheduled \cup U
  <2>1. Schedule!Scheduled' = UNION {Range(components'[k]) : k \in 1 .. N + 1}
    <3>1. DOMAIN Stages' = 1 .. N + 1 /\ \A k \in 1 .. N + 1 : Stages'[k] = Range(components'[k])
      BY <1>6
    <3>2. QED
      BY <3>1 DEF Schedule!Scheduled
  <2>2. ASSUME NEW n, \E k \in 1 .. N + 1 : n \in Range(components'[k])
        PROVE  n \in Schedule!Scheduled \cup U
    <3>1. PICK k \in 1 .. N + 1 : n \in Range(components'[k])
      BY <2>2
    <3>2. CASE k = N + 1
      BY <1>2, <1>4, <3>1, <3>2
    <3>3. CASE k # N + 1
      <4>1. k \in 1 .. N
        BY <1>1, <3>3
      <4>2. QED
        BY <1>4, <1>5, <3>1, <4>1
    <3>4. QED
      BY <3>2, <3>3
  <2>3. ASSUME NEW n \in Schedule!Scheduled
        PROVE  \E k \in 1 .. N + 1 : n \in Range(components'[k])
    <3>1. PICK k \in 1 .. N : n \in Range(components[k])
      BY <1>5
    <3>2. k \in 1 .. N + 1 /\ components'[k] = components[k]
      BY <1>1, <1>4
    <3>3. QED
      BY <3>1, <3>2
  <2>4. ASSUME NEW n \in U
        PROVE  \E k \in 1 .. N + 1 : n \in Range(components'[k])
    <3>1. N + 1 \in 1 .. N + 1
      BY <1>1
    <3>2. QED
      BY <1>2, <1>4, <3>1
  <2>5. QED
    BY <2>1, <2>2, <2>3, <2>4
<1>9. QED
  BY <1>4, <1>7, <1>8 DEF N, s

(* There is nothing from one to zero.                                       *)
LEMMA NothingBelow ==
  ASSUME NEW M, M = 0
  PROVE  1 .. M = {} /\ 1 .. M - 1 = {}
OBVIOUS

(* Returning from a visit whose component is complete: no lowlink changes.  *)
LEMMA ClosedReturn ==
  ASSUME Inv, frames # <<>>, Top.at > Len(successors[Top.node]), Return,
         successors' = successors, index' = index,
         NEW v, v = Top.node, lowlink[v] = index[v],
         NEW M, M = Len(frames) - 1,
         NEW c, c = frames[M].node
  PROVE  /\ M \in Nat /\ Len(frames') = M /\ frames' \in Seq(Frame)
         /\ lowlink' = lowlink
         /\ \A f \in 1 .. M : frames'[f].node = frames[f].node
         /\ \A n \in Nodes : Framed(n)' <=> Framed(n) /\ n # v
         /\ \A f \in 1 .. M : frames'[f].at <= Len(successors[frames[f].node]) + 1
         /\ \A f \in 1 .. M - 1 :
              /\ frames'[f].at <= Len(successors[frames[f].node])
              /\ successors[frames[f].node][frames'[f].at] = frames[f + 1].node
         /\ \A n \in Nodes : \A k \in 1 .. Len(successors[n]) :
              Past(n, k)' => Past(n, k) \/ n = v \/ successors[n][k] = v
<1> DEFINE L == Len(frames)
<1> USE DEF Inv
<1>1. /\ L \in Nat /\ L \in 1 .. L /\ frames[L].node = v /\ v \in Nodes
      /\ index[v] \in Nat /\ lowlink[v] \in Nat
  BY FinishFacts
<1>2. CASE L = 1
  <2>1. M = 0 /\ Front(frames) = <<>>
    <3>1. M = 0
      BY <1>2
    <3>2. SubSeq(frames, 1, M) = <<>>
      <4>1. 1 \in Int /\ 0 \in Int /\ 0 < 1
        OBVIOUS
      <4>2. SubSeq(frames, 1, 0) = <<>>
        BY <4>1, SubSeqEmpty
      <4>3. QED
        BY <3>1, <4>2
    <3>3. QED
      BY <3>1, <3>2 DEF Front
  <2>2. frames' = <<>> /\ lowlink' = lowlink
    BY <2>1 DEF Return
  <2>3. Len(frames') = 0 /\ frames' \in Seq(Frame)
    BY <2>2
  <2>4. \A n \in Nodes : ~ Framed(n)' /\ (Framed(n) => n = v)
    BY <1>1, <1>2, <2>3 DEF Framed
  <2>5. \A n \in Nodes : \A k \in 1 .. Len(successors[n]) :
          Past(n, k)' => Past(n, k) \/ n = v
    <3> SUFFICES ASSUME NEW n \in Nodes, NEW k \in 1 .. Len(successors[n]), Past(n, k)', n # v
                 PROVE  Past(n, k)
      OBVIOUS
    <3>1. Met(n)
      BY DEF Past, Met
    <3>2. QED
      BY <2>4, <3>1 DEF Past, Framed
  <2>6. 1 .. M = {} /\ 1 .. M - 1 = {}
    <3>1. M = 0
      BY <2>1
    <3>2. QED
      BY <3>1, NothingBelow
  <2> HIDE DEF L
  <2>7. Len(frames') = M /\ M \in Nat
    BY <2>1, <2>3
  <2>8. QED
    BY <2>2, <2>3, <2>4, <2>5, <2>6, <2>7
<1>3. CASE L # 1
  <2>2. /\ M \in Nat /\ M \in 1 .. L /\ Len(frames') = M /\ frames' \in Seq(Frame)
        /\ \A f \in 1 .. M : frames'[f].node = frames[f].node
        /\ lowlink' \in [Nodes -> Nat]
        /\ lowlink'[c] = Lower(lowlink[c], lowlink[v])
        /\ \A n \in Nodes : n # c => lowlink'[n] = lowlink[n]
    BY <1>3, ReturnFacts
  <2>3. /\ c \in Nodes /\ c # v /\ onStack[c] /\ index[c] < index[v]
        /\ frames[M].at \in 1 .. Len(successors[c]) /\ successors[c][frames[M].at] = v
        /\ Framed(c)'
        /\ \A n \in Nodes : Framed(n)' <=> Framed(n) /\ n # v
        /\ \A f \in 1 .. M : frames'[f].at <= Len(successors[frames[f].node]) + 1
        /\ \A f \in 1 .. M - 1 :
             /\ frames'[f].at <= Len(successors[frames[f].node])
             /\ successors[frames[f].node][frames'[f].at] = frames[f + 1].node
        /\ \A n \in Nodes : \A k \in 1 .. Len(successors[n]) :
             Past(n, k)' => Past(n, k) \/ n = v \/ (n = c /\ k = frames[M].at)
    BY <1>3, ReturnKeepsFrames
  <2>4. /\ index[c] \in Nat /\ lowlink[c] \in Nat /\ lowlink[c] <= index[c]
    BY <2>3, StackedFacts DEF LowInv
  <2>5. Lower(lowlink[c], lowlink[v]) = lowlink[c]
    BY <1>1, <2>3, <2>4 DEF Lower
  <2>6. lowlink' = lowlink
    <3>1. lowlink \in [Nodes -> Nat] /\ \A n \in Nodes : lowlink'[n] = lowlink[n]
      BY <2>2, <2>5 DEF Typed
    <3>2. QED
      BY <2>2, <3>1
  <2>7. QED
    BY <2>2, <2>3, <2>6
<1>4. QED
  BY <1>2, <1>3

(* A visit ends whose component is complete: its leaves leave the stack and *)
(* become the next stage.                                                   *)
LEMMA FinishClosedKeeps ==
  ASSUME Inv, frames # <<>>, Top.at > Len(successors[Top.node]),
         NEW v, v = Top.node, lowlink[v] = index[v], Popped(v), Return,
         UNCHANGED <<successors, index, nextIndex, root>>,
         NEW M, M = Len(frames) - 1,
         NEW c, c = frames[M].node
  PROVE  Inv'
<1> DEFINE L == Len(frames)
           U == Since(v)
<1> USE DEF Inv
<1>1. /\ Typed
      /\ successors' = successors /\ index' = index /\ nextIndex' = nextIndex /\ root' = root
  OBVIOUS
<1>2. /\ L \in Nat /\ L \in 1 .. L /\ frames[L].node = v /\ v \in Nodes /\ onStack[v] /\ Met(v)
      /\ index[v] \in Nat
      /\ \A f \in 1 .. L : f # L => index[frames[f].node] < index[v]
      /\ \A n \in Nodes : onStack[n] /\ index[v] <= index[n] =>
           \A k \in 1 .. Len(successors[n]) : Past(n, k)
  BY FinishFacts
<1>3. /\ components' = Append(components, Ascending(Since(v)))
      /\ \A n \in Nodes : onStack'[n] <=> onStack[n] /\ n \notin Since(v)
      /\ onStack' \in [Nodes -> BOOLEAN]
      /\ stack' \in Seq(Nodes)
      /\ \A n \in Nodes : onStack'[n] <=> \E k \in 1 .. Len(stack') : stack'[k] = n
      /\ \A i, j \in 1 .. Len(stack') : i < j => index[stack'[i]] < index[stack'[j]]
  BY PoppedFacts
<1>4. /\ Schedule!Closed(U \cup Schedule!Scheduled)
      /\ U = Schedule!Component(v)
  BY SinceIsComponent
<1>5. U \in SUBSET Nodes
  BY DEF Since
<1>6. /\ components' \in Seq(Seq(Nodes)) /\ Len(components') = Len(components) + 1
      /\ \A k \in 1 .. Len(components) : components'[k] = components[k]
      /\ components'[Len(components) + 1] = Ascending(U)
      /\ Schedule!Scheduled' = Schedule!Scheduled \cup U
  BY <1>1, <1>3, <1>5, StageAppended
<1>7. /\ M \in Nat /\ Len(frames') = M /\ frames' \in Seq(Frame)
      /\ lowlink' = lowlink
      /\ \A f \in 1 .. M : frames'[f].node = frames[f].node
      /\ \A n \in Nodes : Framed(n)' <=> Framed(n) /\ n # v
      /\ \A f \in 1 .. M : frames'[f].at <= Len(successors[frames[f].node]) + 1
      /\ \A f \in 1 .. M - 1 :
           /\ frames'[f].at <= Len(successors[frames[f].node])
           /\ successors[frames[f].node][frames'[f].at] = frames[f + 1].node
      /\ \A n \in Nodes : \A k \in 1 .. Len(successors[n]) :
           Past(n, k)' => Past(n, k) \/ n = v \/ successors[n][k] = v
  BY <1>1, ClosedReturn
<1>8. \A n \in Nodes : onStack'[n] =>
        /\ onStack[n] /\ n # v /\ index[n] \in Nat /\ index[n] < index[v] /\ lowlink[n] \in Nat
  <2> SUFFICES ASSUME NEW n \in Nodes, onStack'[n]
               PROVE  onStack[n] /\ n # v /\ index[n] \in Nat /\ index[n] < index[v]
                      /\ lowlink[n] \in Nat
    OBVIOUS
  <2>1. onStack[n] /\ n \notin U
    BY <1>3
  <2>2. index[n] \in Nat /\ lowlink[n] \in Nat
    BY <2>1, StackedFacts
  <2>3. ~ (index[v] <= index[n])
    BY <2>1 DEF Since
  <2>4. QED
    BY <1>2, <2>1, <2>2, <2>3
<1>9. \A n \in Nodes : onStack[n] /\ index[n] < index[v] => onStack'[n]
  <2> SUFFICES ASSUME NEW n \in Nodes, onStack[n], index[n] < index[v]
               PROVE  n \notin U
    BY <1>3
  <2>1. index[n] \in Nat
    BY StackedFacts
  <2>2. QED
    BY <1>2, <2>1 DEF Since
<1> HIDE DEF L, U
<1>10. M = L - 1 /\ Len(frames) = L
  BY DEF L
<1>11. \A n \in Nodes : Met(n)' <=> Met(n)
  BY <1>1 DEF Met
<1>12. /\ \A a : Schedule!Reached(a)' = Schedule!Reached(a)
       /\ \A T : Schedule!Closed(T)' <=> Schedule!Closed(T)
       /\ \A a : Schedule!Component(a)' = Schedule!Component(a)
  BY <1>1, SameGraph
<1>13. Typed'
  <2>1. components' \in Seq(Seq(Nodes)) /\ frames' \in Seq(Frame)
    BY <1>6, <1>7
  <2>2. onStack' \in [Nodes -> BOOLEAN] /\ stack' \in Seq(Nodes)
    BY <1>3
  <2>3. lowlink' = lowlink
    BY <1>7
  <2>4. QED
    BY <1>1, <2>1, <2>2, <2>3 DEF Typed
<1>14. StackInv'
  <2>1. \A n \in Nodes : onStack'[n] <=> Met(n) /\ n \notin Schedule!Scheduled \cup U
    BY <1>3 DEF StackInv, U
  <2>2. ASSUME NEW n \in Schedule!Scheduled \cup U
        PROVE  Met(n)'
    <3>1. CASE n \in Schedule!Scheduled
      BY <1>1, <1>11, <3>1, ScheduledIs DEF StackInv
    <3>2. CASE n \in U
      BY <1>11, <3>2 DEF U, Since, StackInv
    <3>3. QED
      BY <2>2, <3>1, <3>2
  <2>3. QED
    BY <1>1, <1>3, <1>6, <1>11, <2>1, <2>2 DEF StackInv
<1>15. ASSUME NEW f \in 1 .. M
       PROVE  /\ f \in 1 .. L /\ f # L /\ frames[f].node \in Nodes
              /\ index[frames[f].node] \in Nat /\ index[frames[f].node] < index[v]
              /\ onStack[frames[f].node] /\ onStack'[frames[f].node]
  <2>1. f \in 1 .. L /\ f # L
    BY <1>2, <1>10
  <2>2. /\ frames[f].node \in Nodes /\ onStack[frames[f].node] /\ index[frames[f].node] \in Nat
    BY <1>10, <2>1, FrameFacts
  <2>3. index[frames[f].node] < index[v]
    BY <1>2, <2>1
  <2>4. QED
    BY <1>9, <2>1, <2>2, <2>3
<1>16. FrameInv'
  <2>1. ASSUME NEW f \in 1 .. M
        PROVE  \A n \in Nodes :
                 onStack'[n] /\ index[frames[f].node] < index[n] =>
                   n \in Schedule!Reached(frames[f].node)
    BY <1>8, <1>10, <1>15 DEF FrameInv
  <2>2. \A f, g \in 1 .. M : f < g => index[frames[f].node] < index[frames[g].node]
    BY <1>10, <1>15 DEF FrameInv
  <2>3. \A f \in 1 .. M - 1 : /\ frames'[f].at <= Len(successors'[frames'[f].node])
                              /\ successors'[frames'[f].node][frames'[f].at] = frames'[f + 1].node
    <3> SUFFICES ASSUME NEW f \in 1 .. M - 1
                 PROVE  /\ frames'[f].at <= Len(successors'[frames'[f].node])
                        /\ successors'[frames'[f].node][frames'[f].at] = frames'[f + 1].node
      OBVIOUS
    <3>1. f \in 1 .. M /\ f + 1 \in 1 .. M
      BY <1>7
    <3>2. frames'[f].node = frames[f].node /\ frames'[f + 1].node = frames[f + 1].node
      BY <1>7, <3>1
    <3>3. QED
      BY <1>1, <1>7, <3>2
  <2>4. QED
    BY <1>1, <1>7, <1>12, <1>15, <2>1, <2>2, <2>3 DEF FrameInv
<1>17. LowInv'
  <2> SUFFICES ASSUME NEW n \in Nodes, onStack'[n]
               PROVE  /\ lowlink[n] <= index[n]
                      /\ ~ Framed(n)' => lowlink[n] < index[n]
                      /\ \E m \in Nodes : /\ onStack'[m] /\ index[m] = lowlink[n]
                                          /\ m \in Schedule!Reached(n)
    BY <1>1, <1>7, <1>12 DEF LowInv
  <2>1. onStack[n] /\ n # v /\ index[n] \in Nat /\ index[n] < index[v] /\ lowlink[n] \in Nat
    BY <1>8
  <2>2. lowlink[n] <= index[n] /\ (~ Framed(n)' => lowlink[n] < index[n])
    BY <1>7, <2>1 DEF LowInv
  <2>3. PICK m \in Nodes : onStack[m] /\ index[m] = lowlink[n] /\ m \in Schedule!Reached(n)
    BY <2>1 DEF LowInv
  <2>4. index[m] < index[v]
    BY <1>2, <2>1, <2>2, <2>3
  <2>5. QED
    BY <1>9, <2>2, <2>3, <2>4
<1>18. PastInv'
  <2> SUFFICES ASSUME NEW n \in Nodes, NEW k \in 1 .. Len(successors[n]), Past(n, k)'
               PROVE  /\ Met(successors[n][k])
                      /\ onStack'[n] /\ onStack'[successors[n][k]] =>
                           lowlink[n] <= index[successors[n][k]]
    BY <1>1, <1>7, <1>11, ReachedArc DEF PastInv
  <2>1. successors[n][k] \in Nodes
    BY ReachedArc
  <2>2. CASE Past(n, k)
    BY <1>8, <2>1, <2>2 DEF PastInv
  <2>3. CASE n = v
    <3>1. Past(n, k)
      BY <1>2, <2>3
    <3>2. QED
      BY <2>2, <3>1
  <2>4. CASE successors[n][k] = v
    BY <1>2, <1>8, <2>4
  <2>5. QED
    BY <1>7, <2>2, <2>3, <2>4
<1>19. TakenInv'
  <2> SUFFICES ASSUME NEW f \in 1 .. M, NEW n \in Nodes,
                      onStack'[n], ~ Framed(n)', index[frames[f].node] < index[n],
                      f < M => index[n] < index[frames'[f + 1].node]
               PROVE  lowlink[frames[f].node] <= lowlink[n]
    BY <1>1, <1>7 DEF TakenInv
  <2>1. onStack[n] /\ ~ Framed(n) /\ index[n] < index[v]
    BY <1>7, <1>8
  <2>2. f \in 1 .. L
    BY <1>15
  <2>3. index[n] < index[frames[f + 1].node]
    <3>1. CASE f = M
      BY <1>2, <1>10, <2>1, <3>1
    <3>2. CASE f # M
      <4>1. f < M /\ f + 1 \in 1 .. M
        BY <1>7, <3>2
      <4>2. QED
        BY <1>7, <4>1
    <3>3. QED
      BY <3>1, <3>2
  <2>4. QED
    BY <1>10, <2>1, <2>2, <2>3 DEF TakenInv
<1>20. StageInv'
  <2>1. ASSUME NEW k \in 1 .. Len(components) + 1
        PROVE  /\ \E n \in Nodes : Range(components'[k]) = Schedule!Component(n)
               /\ \A i, j \in 1 .. Len(components'[k]) :
                    i < j => components'[k][i] < components'[k][j]
    <3>1. CASE k = Len(components) + 1
      <4>1. PICK s : s = Ascending(U)
        OBVIOUS
      <4>2. /\ Range(s) = U /\ \A i, j \in 1 .. Len(s) : i < j => s[i] < s[j]
        BY <1>5, <4>1, AscendingMembers
      <4>3. components'[k] = s
        BY <1>6, <3>1, <4>1
      <4>4. QED
        BY <1>2, <1>4, <4>2, <4>3
    <3>2. CASE k # Len(components) + 1
      <4>1. Len(components) \in Nat
        BY DEF Typed
      <4>2. k \in 1 .. Len(components)
        BY <3>2, <4>1
      <4>3. components'[k] = components[k]
        BY <1>6, <4>2
      <4>4. QED
        BY <4>2, <4>3 DEF StageInv
    <3>3. QED
      BY <3>1, <3>2
  <2>2. Schedule!Closed(Schedule!Scheduled \cup U)
    <3>1. U \cup Schedule!Scheduled = Schedule!Scheduled \cup U
      OBVIOUS
    <3>2. QED
      BY <1>4, <3>1
  <2>3. Schedule!Closed(Schedule!Scheduled)'
    <3>1. Arcs' = Arcs
      BY <1>1, SameGraph
    <3>2. QED
      BY <1>6, <2>2, <3>1 DEF Schedule!Closed
  <2>4. QED
    BY <1>6, <1>12, <2>1, <2>3 DEF StageInv
<1>21. RootInv'
  <2>1. ASSUME NEW n \in Nodes, onStack'[n]
        PROVE  frames' # <<>> /\ index[frames'[1].node] <= index[n]
    <3>1. onStack[n] /\ index[n] \in Nat /\ index[n] < index[v]
      BY <1>8, <2>1
    <3>2. index[frames[1].node] <= index[n]
      BY <3>1 DEF RootInv
    <3>3. L # 1
      BY <1>2, <3>1, <3>2
    <3>4. 1 \in 1 .. M /\ frames' # <<>>
      BY <1>2, <1>7, <1>10, <3>3
    <3>5. QED
      BY <1>7, <3>2, <3>4
  <2>2. QED
    BY <1>1, <1>11, <2>1 DEF RootInv
<1>22. QED
  BY <1>13, <1>14, <1>16, <1>17, <1>18, <1>19, <1>20, <1>21

----------------------------------------------------------------------------
(* Every step of the search keeps its invariant.                            *)

(* The outer loop passes a leaf that has been met.                          *)
LEMMA PassKeeps ==
  ASSUME Inv, frames = <<>>, root < NNodes, index[root] # None, root' = root + 1,
         UNCHANGED <<successors, index, lowlink, onStack, stack, nextIndex, components, frames>>
  PROVE  Inv'
<1> USE DEF Inv
<1>1. /\ successors' = successors /\ index' = index /\ lowlink' = lowlink /\ onStack' = onStack
      /\ stack' = stack /\ nextIndex' = nextIndex /\ components' = components
      /\ frames' = frames
  OBVIOUS
<1>2. root \in Nat /\ root \in Nodes /\ root' \in 0 .. NNodes
  BY DEF Typed, Nodes
<1>3. /\ Schedule!Scheduled' = Schedule!Scheduled
      /\ \A a : Schedule!Reached(a)' = Schedule!Reached(a)
      /\ \A a : Schedule!Component(a)' = Schedule!Component(a)
      /\ Schedule!Closed(Schedule!Scheduled)' <=> Schedule!Closed(Schedule!Scheduled)
  BY <1>1, SameGraph, SameStages, SameClosed
<1>4. /\ \A n : Met(n)' <=> Met(n)
      /\ \A n : Framed(n)' <=> Framed(n)
      /\ \A n, k : Past(n, k)' <=> Past(n, k)
  BY <1>1 DEF Met, Framed, Past
<1>5. Typed'
  BY <1>1, <1>2 DEF Typed
<1>6. StackInv' /\ FrameInv'
  BY <1>1, <1>3, <1>4 DEF StackInv, FrameInv
<1>7. LowInv' /\ PastInv' /\ TakenInv' /\ StageInv'
  <2>1. LowInv'
    BY <1>1, <1>3, <1>4 DEF LowInv
  <2>2. PastInv'
    BY <1>1, <1>4 DEF PastInv
  <2>3. TakenInv'
    BY <1>1, <1>4 DEF TakenInv
  <2>4. StageInv'
    BY <1>1, <1>3 DEF StageInv
  <2>5. QED
    BY <2>1, <2>2, <2>3, <2>4
<1>8. RootInv'
  <2>1. ASSUME NEW n \in Nodes, n < root + 1
        PROVE  Met(n)
    <3>1. n \in Nat
      BY DEF Nodes
    <3>2. n < root \/ n = root
      BY <1>2, <2>1, <3>1
    <3>3. QED
      BY <3>2 DEF RootInv, Met
  <2>2. QED
    BY <1>1, <1>4, <2>1 DEF RootInv
<1>9. QED
  BY <1>5, <1>6, <1>7, <1>8

(* Steps that change nothing keep the invariant.                            *)
LEMMA StutterKeeps ==
  ASSUME Inv, UNCHANGED vars
  PROVE  Inv'
<1> USE DEF Inv
<1>1. /\ successors' = successors /\ index' = index /\ lowlink' = lowlink /\ onStack' = onStack
      /\ stack' = stack /\ nextIndex' = nextIndex /\ components' = components
      /\ frames' = frames /\ root' = root
  BY DEF vars
<1>2. /\ Schedule!Scheduled' = Schedule!Scheduled
      /\ \A a : Schedule!Reached(a)' = Schedule!Reached(a)
      /\ \A a : Schedule!Component(a)' = Schedule!Component(a)
      /\ Schedule!Closed(Schedule!Scheduled)' <=> Schedule!Closed(Schedule!Scheduled)
  BY <1>1, SameGraph, SameStages, SameClosed
<1>3. /\ \A n : Met(n)' <=> Met(n)
      /\ \A n : Framed(n)' <=> Framed(n)
      /\ \A n, k : Past(n, k)' <=> Past(n, k)
  BY <1>1 DEF Met, Framed, Past
<1>4. Typed' /\ RootInv'
  BY <1>1, <1>3 DEF Typed, RootInv
<1>5. StackInv' /\ FrameInv'
  BY <1>1, <1>2, <1>3 DEF StackInv, FrameInv
<1>6. LowInv'
  BY <1>1, <1>2, <1>3 DEF LowInv
<1>7. PastInv' /\ TakenInv'
  BY <1>1, <1>3 DEF PastInv, TakenInv
<1>8. StageInv'
  BY <1>1, <1>2 DEF StageInv
<1>9. QED
  BY <1>4, <1>5, <1>6, <1>7, <1>8

(* So does a turn of the outer loop,                                        *)
LEMMA StartKeeps == Inv /\ Start => Inv'
<1> SUFFICES ASSUME Inv, Start PROVE Inv'
  OBVIOUS
<1>1. frames = <<>> /\ root < NNodes /\ root' = root + 1
  BY DEF Start
<1>2. root \in Nodes
  BY <1>1 DEF Inv, Typed, Nodes
<1>3. CASE index[root] = None /\ Enter(root)
  BY <1>1, <1>2, <1>3, EnterKeeps
<1>4. CASE index[root] # None /\
           UNCHANGED <<successors, index, lowlink, onStack, stack, nextIndex, components, frames>>
  BY <1>1, <1>4, PassKeeps
<1>5. QED
  BY <1>3, <1>4 DEF Start

(* a turn of a loop over successors,                                        *)
LEMMA FollowKeeps == Inv /\ Follow => Inv'
<1> SUFFICES ASSUME Inv, Follow PROVE Inv'
  OBVIOUS
<1>1. PICK s : s = successors[Top.node][Top.at]
  OBVIOUS
<1>2. frames # <<>> /\ Top.at <= Len(successors[Top.node]) /\ root' = root
  BY DEF Follow
<1>3. s \in Nodes
  <2>1. Len(frames) \in 1 .. Len(frames)
    BY <1>2 DEF Inv, Typed
  <2>2. /\ Top.node \in Nodes /\ Top.at \in Nat \ {0} /\ Len(successors[Top.node]) \in Nat
    BY <2>1, FrameFacts DEF Top
  <2>3. Top.at \in 1 .. Len(successors[Top.node])
    BY <1>2, <2>2
  <2>4. QED
    BY <1>1, <2>2, <2>3, ReachedArc DEF Inv
<1>4. CASE index[s] = None /\ Enter(s)
  BY <1>1, <1>2, <1>3, <1>4, EnterKeeps
<1>5. CASE /\ index[s] # None
           /\ lowlink' = [lowlink EXCEPT ![Top.node] = LowlinkOfSeen(Top.node, s)]
           /\ frames' = Advanced
           /\ UNCHANGED <<successors, index, onStack, stack, nextIndex, components>>
  <2>1. UNCHANGED <<successors, index, onStack, stack, nextIndex, components, root>>
    BY <1>2, <1>5
  <2>2. QED
    BY <1>1, <1>2, <1>5, <2>1, FollowSeenKeeps
<1>6. QED
  BY <1>1, <1>4, <1>5 DEF Follow

(* and the end of a visit.                                                  *)
LEMMA FinishKeeps == Inv /\ Finish => Inv'
<1> SUFFICES ASSUME Inv, Finish PROVE Inv'
  OBVIOUS
<1>1. /\ frames # <<>> /\ Top.at > Len(successors[Top.node]) /\ Return
      /\ UNCHANGED <<successors, index, nextIndex, root>>
  BY DEF Finish
<1>2. PICK v, M, c : v = Top.node /\ M = Len(frames) - 1 /\ c = frames[M].node
  OBVIOUS
<1>3. CASE lowlink[v] = index[v]
  <2>1. Popped(v)
    BY <1>2, <1>3 DEF Finish
  <2>2. QED
    BY <1>1, <1>2, <1>3, <2>1, FinishClosedKeeps
<1>4. CASE lowlink[v] # index[v]
  <2>1. UNCHANGED <<components, stack, onStack>>
    BY <1>2, <1>4 DEF Finish
  <2>2. UNCHANGED <<successors, index, onStack, stack, nextIndex, components, root>>
    BY <1>1, <2>1
  <2>3. QED
    BY <1>1, <1>2, <1>4, <2>2, FinishOpenKeeps
<1>5. QED
  BY <1>3, <1>4

(* The invariant of the search, for every graph.                            *)
THEOREM Invariance == Spec => []Inv
<1>1. Init => Inv
  BY InitInv
<1>2. Inv /\ [Next]_vars => Inv'
  <2>1. Inv /\ Next => Inv'
    BY StartKeeps, FollowKeeps, FinishKeeps DEF Next
  <2>2. Inv /\ UNCHANGED vars => Inv'
    BY StutterKeeps
  <2>3. QED
    BY <2>1, <2>2
<1>3. QED
  BY <1>1, <1>2, PTL DEF Spec

----------------------------------------------------------------------------
(* What the search maintains.                                               *)

(* The invariant has what StackIsOpen says.                                 *)
LEMMA InvOpen == Inv => StackIsOpen
<1> SUFFICES ASSUME Inv PROVE StackIsOpen
  OBVIOUS
<1> USE DEF Inv
<1>1. \A k \in 1 .. Len(components) : \A i, j \in 1 .. Len(components[k]) :
        i < j => components[k][i] < components[k][j]
  BY DEF StageInv
<1>2. Range(stack) = {n \in Nodes : onStack[n]}
  <2>1. stack \in Seq(Nodes)
    BY DEF Typed
  <2>2. Range(stack) = {stack[k] : k \in 1 .. Len(stack)}
    BY <2>1, RangeOfSeq DEF Range
  <2>3. \A k \in 1 .. Len(stack) : stack[k] \in Nodes
    BY <2>1
  <2>4. QED
    BY <2>2, <2>3 DEF StackInv
<1>3. \A n \in Nodes : onStack[n] <=> index[n] # None /\ n \notin Schedule!Scheduled
  BY DEF StackInv, Met
<1>4. \A n \in Schedule!Scheduled : Schedule!Reached(n) \subseteq Schedule!Scheduled
  BY ScheduledIs, ReachedInClosed DEF StageInv
<1>5. \A i, j \in 1 .. Len(stack) : i < j => index[stack[i]] < index[stack[j]]
  BY DEF StackInv
<1>6. ASSUME NEW f \in 1 .. Len(frames), NEW j \in 1 .. Len(stack),
             index[frames[f].node] < index[stack[j]]
      PROVE  stack[j] \in Schedule!Reached(frames[f].node)
  <2>1. stack[j] \in Nodes
    BY DEF Typed
  <2>2. onStack[stack[j]]
    BY <2>1 DEF StackInv
  <2>3. QED
    BY <1>6, <2>1, <2>2 DEF FrameInv
<1>7. ASSUME NEW n \in Range(stack)
      PROVE  \E m \in Range(stack) : index[m] = lowlink[n] /\ m \in Schedule!Reached(n)
  BY <1>2 DEF LowInv
<1>8. QED
  BY <1>1, <1>2, <1>3, <1>4, <1>5, <1>6, <1>7 DEF StackIsOpen

(* In every graph a leaf is on the stack as long as its component is open,  *)
(* closed leaves depend on closed leaves only, a leaf under visit depends   *)
(* on every leaf stacked after it, and a lowlink is the index of a stacked  *)
(* leaf that the leaf depends on.                                           *)
THEOREM StackStaysOpen == Spec => []StackIsOpen
BY Invariance, InvOpen, PTL

----------------------------------------------------------------------------
(* The stages the search emits.                                             *)

(* The search starts with no stage.                                         *)
LEMMA FirstStages == Init => Schedule!Init
<1> SUFFICES ASSUME Init PROVE Schedule!Init
  OBVIOUS
<1>1. Typed
  BY InitInv DEF Inv
<1>2. Arcs \subseteq Nodes \X Nodes
  <2> SUFFICES ASSUME NEW arc \in Arcs PROVE arc \in Nodes \X Nodes
    OBVIOUS
  <2>1. PICK n \in Nodes : \E k \in 1 .. Len(successors[n]) : arc = <<n, successors[n][k]>>
    BY DEF Arcs
  <2>2. QED
    BY <1>1, <2>1 DEF Typed
<1>3. Stages = <<>>
  BY DEF Init, Stages
<1>4. QED
  BY <1>2, <1>3 DEF Schedule!Init

(* A step of the search emits a stage, the next one, or none.               *)
LEMMA NextStage ==
  ASSUME Inv, [Next]_vars
  PROVE  [Schedule!Next]_<<Arcs, Stages>>
<1>1. CASE components' = components /\ successors' = successors
  BY <1>1, SameGraph, SameStages
<1>2. CASE Start
  BY <1>1, <1>2 DEF Start, Enter
<1>3. CASE Follow
  BY <1>1, <1>3 DEF Follow, Enter
<1>4. CASE Finish
  <2>1. /\ frames # <<>> /\ Top.at > Len(successors[Top.node]) /\ successors' = successors
    BY <1>4 DEF Finish
  <2>2. PICK v : v = Top.node
    OBVIOUS
  <2>3. CASE lowlink[v] # index[v]
    BY <1>1, <1>4, <2>2, <2>3 DEF Finish
  <2>4. CASE lowlink[v] = index[v]
    <3>1. Popped(v)
      BY <1>4, <2>2, <2>4 DEF Finish
    <3>2. components' = Append(components, Ascending(Since(v)))
      BY <2>1, <2>2, <3>1, PoppedFacts
    <3>3. Since(v) \in SUBSET Nodes
      BY DEF Since
    <3>4. Stages' = Append(Stages, Since(v))
      BY <3>2, <3>3, StageAppended DEF Inv
    <3>5. /\ Since(v) = Schedule!Component(v)
          /\ v \notin Schedule!Scheduled /\ v \in Nodes
          /\ Schedule!Reached(v) \subseteq Schedule!Scheduled \cup Schedule!Component(v)
      BY <2>1, <2>2, <2>4, SinceIsComponent
    <3>6. Arcs' = Arcs
      BY <2>1, SameGraph
    <3>7. Schedule!Schedule(v)
      BY <3>4, <3>5, <3>6 DEF Schedule!Schedule
    <3>8. QED
      BY <3>5, <3>7 DEF Schedule!Next
  <2>5. QED
    BY <2>3, <2>4
<1>5. CASE UNCHANGED vars
  BY <1>1, <1>5 DEF vars
<1>6. QED
  BY <1>2, <1>3, <1>4, <1>5 DEF Next

(* In every graph the search emits the strongly connected components, each  *)
(* whole and after all the components it depends on.                        *)
THEOREM StagesAreScheduled == Spec => SchedulesStages
<1>1. Inv /\ [Next]_vars => [Schedule!Next]_<<Arcs, Stages>>
  BY NextStage
<1>2. QED
  BY <1>1, FirstStages, Invariance, PTL DEF Spec, SchedulesStages, Schedule!Spec

----------------------------------------------------------------------------
(* The end of the search.                                                   *)

(* To depend on another leaf is to have a successor that depends on it.     *)
LEMMA ReachedStep ==
  ASSUME Typed, NEW a \in Nodes, NEW b \in Schedule!Reached(a), b # a
  PROVE  \E k \in 1 .. Len(successors[a]) : b \in Schedule!Reached(successors[a][k])
<1> DEFINE S == {n \in Nodes : n = a \/ \E k \in 1 .. Len(successors[a]) :
                                          n \in Schedule!Reached(successors[a][k])}
<1>1. a \in S /\ S \in SUBSET Nodes
  OBVIOUS
<1>2. Schedule!Closed(S)
  <2> SUFFICES ASSUME NEW n \in Nodes, NEW k \in 1 .. Len(successors[n]), n \in S
               PROVE  successors[n][k] \in S
    BY ClosedIs
  <2>1. successors[n][k] \in Nodes /\ successors[n][k] \in Schedule!Reached(n)
    BY ReachedArc
  <2>2. CASE n = a
    BY <2>1, <2>2, ReachedSelf
  <2>3. CASE \E i \in 1 .. Len(successors[a]) : n \in Schedule!Reached(successors[a][i])
    BY <2>1, <2>3, ReachedTransitive
  <2>4. QED
    BY <2>2, <2>3
<1>3. b \in S
  BY <1>1, <1>2, ReachedInClosed
<1>4. QED
  BY <1>3

(* Leaves that depend on each other are in the same components.             *)
LEMMA SameComponent ==
  ASSUME NEW n, NEW a \in Schedule!Component(n), NEW b,
         b \in Schedule!Reached(a), a \in Schedule!Reached(b)
  PROVE  b \in Schedule!Component(n)
<1>1. a \in Schedule!Reached(n) /\ n \in Schedule!Reached(a)
  BY DEF Schedule!Component
<1>2. b \in Schedule!Reached(n) /\ n \in Schedule!Reached(b)
  BY <1>1, ReachedTransitive
<1>3. QED
  BY <1>2 DEF Schedule!Component

(* A search that is done is complete.                                       *)
LEMMA DoneComplete ==
  ASSUME Inv, Done
  PROVE  Complete
<1> USE DEF Inv
<1>1. /\ Schedule!Scheduled = UNION {Range(components[k]) : k \in 1 .. Len(components)}
      /\ Schedule!Scheduled \in SUBSET Nodes
  BY ScheduledIs
<1>2. Schedule!Scheduled = Nodes
  <2>1. ASSUME NEW n \in Nodes
        PROVE  n \in Schedule!Scheduled
    <3>1. n < root
      BY DEF Done, Nodes
    <3>2. Met(n)
      BY <3>1 DEF RootInv
    <3>3. ~ onStack[n]
      BY DEF RootInv, Done
    <3>4. QED
      BY <3>2, <3>3 DEF StackInv
  <2>2. QED
    BY <1>1, <2>1
<1>3. ASSUME \A k \in 1 .. Len(components) : Len(components[k]) = 1,
             NEW arc \in Arcs, arc[1] \in Schedule!Reached(arc[2])
      PROVE  FALSE
  <2>1. PICK n \in Nodes : \E i \in 1 .. Len(successors[n]) : arc = <<n, successors[n][i]>>
    BY DEF Arcs
  <2>2. PICK i \in 1 .. Len(successors[n]) : arc = <<n, successors[n][i]>>
    BY <2>1
  <2>3. PICK m : m = successors[n][i]
    OBVIOUS
  <2>4. m \in Schedule!Reached(n) /\ n \in Schedule!Reached(m) /\ m # n
    BY <1>3, <2>2, <2>3, ReachedArc DEF Typed
  <2>5. PICK k \in 1 .. Len(components) : n \in Range(components[k])
    BY <1>1, <1>2
  <2>6. m \in Range(components[k])
    <3>1. PICK a \in Nodes : Range(components[k]) = Schedule!Component(a)
      BY <2>5 DEF StageInv
    <3>2. QED
      BY <2>4, <2>5, <3>1, SameComponent
  <2>7. components[k] \in Seq(Nodes) /\ Len(components[k]) = 1
    <3>1. components \in Seq(Seq(Nodes))
      BY DEF Inv, Typed
    <3>2. QED
      BY <1>3, <2>5, <3>1
  <2>8. PICK s : s = components[k]
    OBVIOUS
  <2>9. Range(s) = {s[j] : j \in 1 .. 1}
    BY <2>7, <2>8, RangeOfSeq DEF Range
  <2>10. n = s[1] /\ m = s[1]
    BY <2>5, <2>6, <2>8, <2>9
  <2>11. QED
    BY <2>4, <2>10
<1>4. ASSUME \A arc \in Arcs : arc[1] \notin Schedule!Reached(arc[2]),
             NEW k \in 1 .. Len(components)
      PROVE  Len(components[k]) = 1
  <2>1. PICK s : s = components[k]
    OBVIOUS
  <2>2. s \in Seq(Nodes) /\ Len(s) \in Nat
    BY <2>1 DEF Typed
  <2>3. Range(s) = {s[j] : j \in 1 .. Len(s)}
    BY <2>2, RangeOfSeq DEF Range
  <2>4. PICK n \in Nodes : Range(s) = Schedule!Component(n)
    BY <2>1 DEF StageInv
  <2>5. Len(s) # 0
    <3>1. n \in Schedule!Component(n)
      BY ReachedSelf DEF Schedule!Component
    <3>2. PICK j \in 1 .. Len(s) : s[j] = n
      BY <2>3, <2>4, <3>1
    <3>3. QED
      BY <2>2, <3>2
  <2>6. ASSUME Len(s) > 1
        PROVE  FALSE
    <3>1. 1 \in 1 .. Len(s) /\ 2 \in 1 .. Len(s)
      BY <2>2, <2>6
    <3>2. PICK a, b : a = s[1] /\ b = s[2]
      OBVIOUS
    <3>3. a \in Nodes /\ b \in Nodes /\ a < b
      BY <2>1, <2>2, <3>1, <3>2 DEF StageInv
    <3>4. a # b
      BY <3>3 DEF Nodes
    <3>5. a \in Schedule!Component(n) /\ b \in Schedule!Component(n)
      BY <2>3, <2>4, <3>1, <3>2
    <3>6. b \in Schedule!Reached(a) /\ a \in Schedule!Reached(b)
      BY <3>5, ReachedTransitive DEF Schedule!Component
    <3>7. PICK i \in 1 .. Len(successors[a]) : b \in Schedule!Reached(successors[a][i])
      BY <3>3, <3>4, <3>6, ReachedStep
    <3>8. a \in Schedule!Reached(successors[a][i])
      BY <3>6, <3>7, ReachedTransitive
    <3>9. <<a, successors[a][i]>> \in Arcs
      BY <3>3 DEF Arcs
    <3>10. QED
      BY <1>4, <3>8, <3>9
  <2>7. \A l \in Nat : l = 0 \/ l > 1 \/ l = 1
    OBVIOUS
  <2>8. QED
    BY <2>1, <2>2, <2>5, <2>6, <2>7
<1>5. QED
  BY <1>2, <1>3, <1>4 DEF Complete

(* Whenever the search is done, in any graph, every leaf is in a stage, and *)
(* the stages are single leaves exactly when the graph is acyclic.          *)
THEOREM DoneIsComplete == Spec => [](Done => Complete)
<1>1. Inv => (Done => Complete)
  BY DoneComplete
<1>2. QED
  BY <1>1, Invariance, PTL
=============================================================================
