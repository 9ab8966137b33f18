------------------------ MODULE ConnectedSystemProofs ------------------------
(***************************************************************************)
(* Proofs about what the constructors of layouts, bindings and leaves      *)
(* accept, for declarations of any size.                                   *)
(***************************************************************************)
EXTENDS ConnectedSystem, FiniteSetTheorems, WellFoundedInduction, TLAPS

(* A nonempty set of numbers has a least one.                               *)
LEMMA LeastNumber ==
  ASSUME NEW T \in SUBSET Nat, T # {}
  PROVE  \E n \in T : \A m \in T : n <= m
<1>1. IsWellFoundedOn({ss \in Nat \X Nat : ss[1] < ss[2]}, Nat)
  BY NatLessThanWellFounded DEF OpToRel
<1>2. \E n \in T : \A m \in T : ~ (<<m, n>> \in {ss \in Nat \X Nat : ss[1] < ss[2]})
  BY <1>1, WFMin, Zenon
<1>3. \A m, n \in T : ~ (<<m, n>> \in {ss \in Nat \X Nat : ss[1] < ss[2]}) => n <= m
  OBVIOUS
<1>4. QED
  BY <1>2, <1>3, Zenon

(* A set that has zero and the successor of each of its numbers has them    *)
(* all.                                                                     *)
LEMMA SetInduction ==
  ASSUME NEW T, 0 \in T, \A n \in Nat : n \in T => n + 1 \in T
  PROVE  \A n \in Nat : n \in T
<1> SUFFICES ASSUME Nat \ T # {} PROVE FALSE
  OBVIOUS
<1>1. PICK n \in Nat \ T : \A m \in Nat \ T : n <= m
  BY LeastNumber
<1>2. QED
  BY <1>1, n - 1 \in Nat

----------------------------------------------------------------------------
(* Sorting.                                                                 *)

(* Block k comes before block j, or is block j.                             *)
UpTo(blocks, j) ==
  {k \in DOMAIN blocks :
    \/ blocks[k].start < blocks[j].start
    \/ blocks[k].start = blocks[j].start /\ k <= j}

(* A sequence in another order.                                             *)
Reordered(p, n, blocks) == [r \in 1 .. n |-> blocks[p[r]]]

(* Ranks count from 1, and a block that comes later has the larger one.     *)
LEMMA RanksIncrease ==
  ASSUME NEW blocks, NEW n \in Nat, DOMAIN blocks = 1 .. n,
         \A k \in 1 .. n : blocks[k].start \in Nat
  PROVE  /\ \A j \in 1 .. n : Rank(blocks, j) \in 1 .. n
         /\ \A i, j \in 1 .. n :
              i # j /\ i \in UpTo(blocks, j) => Rank(blocks, i) < Rank(blocks, j)
<1>1. \A j \in 1 .. n : Rank(blocks, j) = Cardinality(UpTo(blocks, j))
  BY DEF Rank, UpTo
<1>2. IsFiniteSet(1 .. n) /\ Cardinality(1 .. n) = n
  BY FS_Interval
<1>3. ASSUME NEW j \in 1 .. n
      PROVE  /\ IsFiniteSet(UpTo(blocks, j)) /\ Cardinality(UpTo(blocks, j)) \in Nat
             /\ Cardinality(UpTo(blocks, j)) <= n
             /\ j \in UpTo(blocks, j)
  <2>1. UpTo(blocks, j) \in SUBSET (1 .. n)
    BY DEF UpTo
  <2>2. IsFiniteSet(UpTo(blocks, j)) /\ Cardinality(UpTo(blocks, j)) <= n
    BY <1>2, <2>1, FS_Subset
  <2>3. Cardinality(UpTo(blocks, j)) \in Nat
    BY <2>2, FS_CardinalityType
  <2>4. j \in UpTo(blocks, j)
    BY DEF UpTo
  <2>5. QED
    BY <2>2, <2>3, <2>4
<1>4. ASSUME NEW j \in 1 .. n
      PROVE  Rank(blocks, j) \in 1 .. n
  <2>1. Cardinality(UpTo(blocks, j)) # 0
    BY <1>3, FS_EmptySet
  <2>2. QED
    BY <1>1, <1>3, <2>1
<1>5. ASSUME NEW i \in 1 .. n, NEW j \in 1 .. n, i # j, i \in UpTo(blocks, j)
      PROVE  Rank(blocks, i) < Rank(blocks, j)
  <2>1. UpTo(blocks, i) \subseteq UpTo(blocks, j) /\ j \notin UpTo(blocks, i)
    BY <1>5 DEF UpTo
  <2>2. UpTo(blocks, i) # UpTo(blocks, j)
    BY <1>3, <2>1
  <2>3. /\ Cardinality(UpTo(blocks, i)) <= Cardinality(UpTo(blocks, j))
        /\ Cardinality(UpTo(blocks, i)) # Cardinality(UpTo(blocks, j))
    BY <1>3, <2>1, <2>2, FS_Subset
  <2>4. QED
    BY <1>1, <1>3, <2>3
<1>6. QED
  BY <1>4, <1>5

LEMMA Sorts ==
  ASSUME NEW blocks, NEW n \in Nat, DOMAIN blocks = 1 .. n, Len(blocks) = n,
         \A k \in 1 .. n : blocks[k].start \in Nat
  PROVE  \E p \in Bijection(1 .. n, 1 .. n) :
           /\ ByStart(blocks) = Reordered(p, n, blocks)
           /\ \A q, r \in 1 .. n : q <= r => blocks[p[q]].start <= blocks[p[r]].start
<1> DEFINE R == [j \in 1 .. n |-> Rank(blocks, j)]
           p == [r \in 1 .. n |-> CHOOSE j \in DOMAIN blocks : Rank(blocks, j) = r]
<1>1. \A j \in 1 .. n : Rank(blocks, j) \in 1 .. n
  BY RanksIncrease
<1>2. \A i, j \in 1 .. n : i # j /\ i \in UpTo(blocks, j) => Rank(blocks, i) < Rank(blocks, j)
  BY RanksIncrease
<1>3. \A i, j \in 1 .. n : i \in UpTo(blocks, j) \/ j \in UpTo(blocks, i)
  BY DEF UpTo
<1>4. \A i, j \in 1 .. n : Rank(blocks, i) = Rank(blocks, j) => i = j
  BY <1>1, <1>2, <1>3
<1>5. R \in Injection(1 .. n, 1 .. n)
  BY <1>1, <1>4 DEF Injection, IsInjective
<1>6. R \in Surjection(1 .. n, 1 .. n)
  BY <1>5, FS_Interval, FS_Injection
<1>7. ASSUME NEW r \in 1 .. n
      PROVE  p[r] \in 1 .. n /\ Rank(blocks, p[r]) = r
  <2>1. \E j \in 1 .. n : R[j] = r
    BY <1>6 DEF Surjection
  <2>2. \E j \in DOMAIN blocks : Rank(blocks, j) = r
    BY <2>1
  <2>3. QED
    BY <2>2
<1>8. \A j \in 1 .. n : p[Rank(blocks, j)] = j
  BY <1>1, <1>4, <1>7
<1> HIDE DEF p
<1>9. p \in [1 .. n -> 1 .. n]
  BY <1>7 DEF p
<1>10. p \in Bijection(1 .. n, 1 .. n)
  <2>1. p \in Injection(1 .. n, 1 .. n)
    <3>1. \A q, r \in 1 .. n : p[q] = p[r] => q = r
      BY <1>7
    <3>2. QED
      BY <1>9, <3>1 DEF Injection, IsInjective
  <2>2. p \in Surjection(1 .. n, 1 .. n)
    BY <1>1, <1>8, <1>9 DEF Surjection
  <2>3. QED
    BY <2>1, <2>2 DEF Bijection
<1>11. ByStart(blocks) = Reordered(p, n, blocks)
  BY DEF ByStart, Reordered, p
<1>12. ASSUME NEW q \in 1 .. n, NEW r \in 1 .. n, q <= r
       PROVE  blocks[p[q]].start <= blocks[p[r]].start
  <2> SUFFICES ASSUME blocks[p[r]].start < blocks[p[q]].start PROVE FALSE
    BY <1>7
  <2>1. p[q] \in 1 .. n /\ p[r] \in 1 .. n
    BY <1>7
  <2>2. p[r] \in UpTo(blocks, p[q]) /\ p[r] # p[q]
    BY <2>1 DEF UpTo
  <2>3. Rank(blocks, p[r]) < Rank(blocks, p[q])
    BY <1>2, <2>1, <2>2
  <2>4. QED
    BY <1>7, <1>12, <2>3
<1>13. QED
  BY <1>10, <1>11, <1>12

----------------------------------------------------------------------------
(* StateLayout::new.                                                        *)

Blocks(s, n) ==
  /\ DOMAIN s = 1 .. n
  /\ Len(s) = n
  /\ \A k \in 1 .. n : s[k].start \in Nat /\ s[k].end \in Nat

(* Each block starts where the one before it ends.                          *)
Consecutive(s, n) ==
  /\ \A k \in 1 .. n : s[k].start < s[k].end
  /\ s[1].start = 0
  /\ \A k \in 1 .. n - 1 : s[k + 1].start = s[k].end

Contiguous(s, n) ==
  /\ \A k \in 1 .. n : s[k].id # Blank
  /\ \A j, k \in 1 .. n : s[j].id = s[k].id => j = k
  /\ Consecutive(s, n)

(* What the loop finds, at any of its turns.                                *)
LEMMA NoFault ==
  ASSUME NEW s, NEW n \in Nat, Blocks(s, n), NEW k \in 1 .. n
  PROVE  LayoutFault(SeenBlocks(s, k), s[k]) = Ok <=>
           /\ s[k].id # Blank /\ s[k].start < s[k].end
           /\ \A j \in 1 .. k - 1 : s[j].id # s[k].id
           /\ s[k].start = IF k = 1 THEN 0 ELSE s[k - 1].end
<1>1. s[k].start \in Nat /\ s[k].end \in Nat /\ (k # 1 => s[k - 1].end \in Nat)
  BY DEF Blocks
<1>2. SeenBlocks(s, k).ids = {s[j].id : j \in 1 .. k - 1}
  BY DEF SeenBlocks
<1>3. SeenBlocks(s, k).end = IF k = 1 THEN 0 ELSE s[k - 1].end
  BY DEF SeenBlocks
<1>4. s[k].id \in SeenBlocks(s, k).ids <=> \E j \in 1 .. k - 1 : s[j].id = s[k].id
  BY <1>2
<1>5. SeenBlocks(s, k).end \in Nat
  BY <1>1, <1>3
<1>6. LayoutFault(SeenBlocks(s, k), s[k]) = Ok <=>
        /\ s[k].id # Blank /\ s[k].start < s[k].end
        /\ s[k].id \notin SeenBlocks(s, k).ids
        /\ s[k].start = SeenBlocks(s, k).end
  BY <1>1, <1>5 DEF LayoutFault, Ok
<1>7. QED
  BY <1>3, <1>4, <1>6

LEMMA NoFaultAtAll ==
  ASSUME NEW s, NEW n \in Nat \ {0}, Blocks(s, n)
  PROVE  (\A k \in 1 .. n : LayoutFault(SeenBlocks(s, k), s[k]) = Ok) <=> Contiguous(s, n)
<1>1. ASSUME \A k \in 1 .. n : LayoutFault(SeenBlocks(s, k), s[k]) = Ok
      PROVE  Contiguous(s, n)
  <2>1. \A k \in 1 .. n :
          /\ s[k].id # Blank /\ s[k].start < s[k].end
          /\ \A j \in 1 .. k - 1 : s[j].id # s[k].id
          /\ s[k].start = IF k = 1 THEN 0 ELSE s[k - 1].end
    BY <1>1, NoFault
  <2>2. \A j, k \in 1 .. n : s[j].id = s[k].id => j = k
    <3> SUFFICES ASSUME NEW j \in 1 .. n, NEW k \in 1 .. n, s[j].id = s[k].id, j # k
                 PROVE  FALSE
      OBVIOUS
    <3>1. j \in 1 .. k - 1 \/ k \in 1 .. j - 1
      OBVIOUS
    <3>2. QED
      BY <2>1, <3>1
  <2>3. s[1].start = 0
    BY <2>1
  <2>4. \A k \in 1 .. n - 1 : s[k + 1].start = s[k].end
    <3> TAKE k \in 1 .. n - 1
    <3>1. k + 1 \in 1 .. n /\ k + 1 # 1 /\ (k + 1) - 1 = k
      OBVIOUS
    <3>2. QED
      BY <2>1, <3>1
  <2>5. QED
    BY <2>1, <2>2, <2>3, <2>4 DEF Contiguous, Consecutive
<1>2. ASSUME Contiguous(s, n), NEW k \in 1 .. n
      PROVE  LayoutFault(SeenBlocks(s, k), s[k]) = Ok
  <2>1. \A j \in 1 .. k - 1 : s[j].id # s[k].id
    BY <1>2 DEF Contiguous, Consecutive
  <2>2. s[k].start = IF k = 1 THEN 0 ELSE s[k - 1].end
    <3>1. CASE k = 1
      BY <1>2, <3>1 DEF Contiguous, Consecutive
    <3>2. CASE k # 1
      <4>1. k - 1 \in 1 .. n - 1 /\ (k - 1) + 1 = k
        BY <3>2
      <4>2. s[(k - 1) + 1].start = s[k - 1].end
        BY <1>2, <4>1 DEF Contiguous, Consecutive
      <4>3. QED
        BY <3>2, <4>1, <4>2
    <3>3. QED
      BY <3>1, <3>2
  <2>3. s[k].id # Blank /\ s[k].start < s[k].end
    BY <1>2 DEF Contiguous, Consecutive
  <2>4. QED
    BY <2>1, <2>2, <2>3, NoFault
<1>3. QED
  BY <1>1, <1>2

(* The blocks a constructor sorts are blocks.                               *)
LEMMA SortedBlocks ==
  ASSUME NEW blocks, NEW n \in Nat, Blocks(blocks, n)
  PROVE  /\ Blocks(ByStart(blocks), n)
         /\ \A q, r \in 1 .. n : q <= r => ByStart(blocks)[q].start <= ByStart(blocks)[r].start
         /\ \E p \in Bijection(1 .. n, 1 .. n) :
              \A r \in 1 .. n : ByStart(blocks)[r] = blocks[p[r]]
<1> DEFINE s == ByStart(blocks)
<1>1. PICK p \in Bijection(1 .. n, 1 .. n) :
        /\ s = Reordered(p, n, blocks)
        /\ \A q, r \in 1 .. n : q <= r => blocks[p[q]].start <= blocks[p[r]].start
  BY Sorts DEF Blocks
<1>2. p \in [1 .. n -> 1 .. n]
  BY <1>1 DEF Bijection, Injection
<1>3. DOMAIN s = 1 .. n /\ \A r \in 1 .. n : s[r] = blocks[p[r]]
  BY <1>1 DEF Reordered
<1>4. Len(s) = n
  <2>1. s = [r \in 1 .. n |-> blocks[p[r]]]
    BY <1>1 DEF Reordered
  <2>2. QED
    BY <2>1
<1>5. QED
  BY <1>1, <1>2, <1>3, <1>4 DEF Blocks

LEMMA LayoutDecides ==
  ASSUME NEW blocks, NEW n \in Nat \ {0}, Blocks(blocks, n)
  PROVE  /\ NewLayout(blocks).reply = Ok <=> Contiguous(ByStart(blocks), n)
         /\ Contiguous(ByStart(blocks), n) =>
              NewLayout(blocks) = [reply |-> Ok, blocks |-> ByStart(blocks),
                                   width |-> ByStart(blocks)[n].end]
<1> DEFINE s == ByStart(blocks)
           fault(k) == LayoutFault(SeenBlocks(s, k), s[k])
           faulty == {k \in 1 .. n : fault(k) # Ok}
<1>1. blocks # <<>> /\ Len(blocks) = n
  BY DEF Blocks
<1>2. NewLayout(blocks) =
        IF faulty # {} THEN [reply |-> fault(Min(faulty))]
        ELSE [reply |-> Ok, blocks |-> s, width |-> s[n].end]
  BY <1>1 DEF NewLayout
<1>3. faulty = {} <=> Contiguous(s, n)
  <2>1. faulty = {} <=> \A k \in 1 .. n : LayoutFault(SeenBlocks(s, k), s[k]) = Ok
    OBVIOUS
  <2>2. Blocks(s, n)
    BY SortedBlocks
  <2>3. QED
    BY <2>1, <2>2, NoFaultAtAll
<1>4. faulty # {} => Min(faulty) \in faulty
  <2> SUFFICES ASSUME faulty # {} PROVE Min(faulty) \in faulty
    OBVIOUS
  <2>1. faulty \in SUBSET Nat
    OBVIOUS
  <2> HIDE DEF faulty
  <2>2. \E k \in faulty : \A m \in faulty : k <= m
    BY <2>1, LeastNumber
  <2>3. QED
    BY <2>2 DEF Min
<1>5. faulty # {} => NewLayout(blocks).reply # Ok
  BY <1>2, <1>4
<1>6. faulty = {} => NewLayout(blocks) = [reply |-> Ok, blocks |-> s, width |-> s[n].end]
  BY <1>2
<1> HIDE DEF faulty, s
<1>7. faulty = {} => NewLayout(blocks).reply = Ok
  BY <1>6
<1>8. QED
  BY <1>3, <1>5, <1>6, <1>7 DEF s

----------------------------------------------------------------------------
(* Blocks without gap or overlap cut the unknowns.                          *)

Covers(s, k, at) == s[k].start <= at /\ at < s[k].end

(* Partitions, without counting.                                            *)
LEMMA PartitionsMeans ==
  ASSUME NEW s, NEW n \in Nat, Blocks(s, n), NEW w \in Nat
  PROVE  Partitions(s, w) <=>
           /\ \A k \in 1 .. n : s[k].id # Blank /\ s[k].start < s[k].end /\ s[k].end <= w
           /\ \A j, k \in 1 .. n : s[j].id = s[k].id => j = k
           /\ \A at \in 0 .. w - 1 :
                /\ \E k \in 1 .. n : Covers(s, k, at)
                /\ \A j, k \in 1 .. n : Covers(s, j, at) /\ Covers(s, k, at) => j = k
<1> DEFINE C(at) == {k \in 1 .. n : Covers(s, k, at)}
<1>1. ASSUME NEW at \in 0 .. w - 1
      PROVE  Cardinality(C(at)) = 1 <=>
               /\ \E k \in 1 .. n : Covers(s, k, at)
               /\ \A j, k \in 1 .. n : Covers(s, j, at) /\ Covers(s, k, at) => j = k
  <2>1. IsFiniteSet(C(at))
    <3>1. IsFiniteSet(1 .. n) /\ C(at) \in SUBSET (1 .. n)
      BY FS_Interval
    <3>2. QED
      BY <3>1, FS_Subset
  <2>2. Cardinality(C(at)) = 1 <=> \E x : C(at) = {x}
    BY <2>1, FS_Singleton
  <2>3. (\E x : C(at) = {x}) <=>
          /\ \E k \in 1 .. n : Covers(s, k, at)
          /\ \A j, k \in 1 .. n : Covers(s, j, at) /\ Covers(s, k, at) => j = k
    <3>1. ASSUME NEW x, C(at) = {x}
          PROVE  /\ \E k \in 1 .. n : Covers(s, k, at)
                 /\ \A j, k \in 1 .. n : Covers(s, j, at) /\ Covers(s, k, at) => j = k
      <4>1. \A k : k \in C(at) <=> k = x
        BY <3>1
      <4>2. QED
        BY <4>1
    <3>2. ASSUME NEW k \in 1 .. n, Covers(s, k, at),
                 \A i, j \in 1 .. n : Covers(s, i, at) /\ Covers(s, j, at) => i = j
          PROVE  C(at) = {k}
      BY <3>2
    <3>3. QED
      BY <3>1, <3>2
  <2>4. QED
    BY <2>2, <2>3
<1>2. \A at : {k \in 1 .. Len(s) : s[k].start <= at /\ at < s[k].end} = C(at)
  BY DEF Blocks, Covers
<1>3. Len(s) = n /\ \A k \in 1 .. n : 0 <= s[k].start
  BY DEF Blocks
<1> HIDE DEF C
<1>4. QED
  BY <1>1, <1>2, <1>3 DEF Partitions

(* The blocks of a sequence without gaps come one after the other.          *)
LEMMA Ascends ==
  ASSUME NEW s, NEW n \in Nat, Blocks(s, n), Consecutive(s, n)
  PROVE  \A k \in 1 .. n : \A j \in 1 .. k - 1 : s[j].end <= s[k].start
<1> DEFINE T == {m \in Nat : m + 1 <= n => \A j \in 1 .. m : s[j].end <= s[m + 1].start}
<1>1. 0 \in T
  OBVIOUS
<1>2. ASSUME NEW m \in Nat, m \in T
      PROVE  m + 1 \in T
  <2> SUFFICES ASSUME (m + 1) + 1 <= n, NEW j \in 1 .. m + 1
               PROVE  s[j].end <= s[(m + 1) + 1].start
    OBVIOUS
  <2>1. m + 1 \in 1 .. n - 1 /\ m + 1 \in 1 .. n /\ j \in 1 .. n
    OBVIOUS
  <2>2. s[(m + 1) + 1].start = s[m + 1].end /\ s[m + 1].start < s[m + 1].end
    BY <2>1 DEF Consecutive
  <2>3. j # m + 1 => s[j].end <= s[m + 1].start
    BY <1>2
  <2>4. s[j].end \in Nat /\ s[m + 1].start \in Nat /\ s[m + 1].end \in Nat
    BY <2>1 DEF Blocks
  <2>5. QED
    BY <2>2, <2>3, <2>4
<1> HIDE DEF T
<1>3. \A m \in Nat : m \in T
  BY <1>1, <1>2, SetInduction
<1>4. ASSUME NEW k \in 1 .. n, NEW j \in 1 .. k - 1
      PROVE  s[j].end <= s[k].start
  <2>1. k - 1 \in Nat /\ k - 1 \in T /\ (k - 1) + 1 = k /\ (k - 1) + 1 <= n
    BY <1>3
  <2>2. QED
    BY <2>1 DEF T
<1>5. QED
  BY <1>4

LEMMA ContiguousAscends ==
  ASSUME NEW s, NEW n \in Nat, Blocks(s, n), Contiguous(s, n)
  PROVE  \A k \in 1 .. n : \A j \in 1 .. k - 1 : s[j].end <= s[k].start
BY Ascends DEF Contiguous

LEMMA ContiguousPartitions ==
  ASSUME NEW s, NEW n \in Nat \ {0}, Blocks(s, n), Contiguous(s, n)
  PROVE  s[n].end \in Nat /\ Partitions(s, s[n].end)
<1> DEFINE w == s[n].end
<1>1. /\ n \in 1 .. n /\ w \in Nat
      /\ \A k \in 1 .. n : s[k].start \in Nat /\ s[k].end \in Nat
  BY DEF Blocks
<1>2. \A k \in 1 .. n : \A j \in 1 .. k - 1 : s[j].end <= s[k].start
  BY ContiguousAscends
<1>3. \A k \in 1 .. n : s[k].id # Blank /\ s[k].start < s[k].end
  BY DEF Contiguous, Consecutive
<1>4. \A j, k \in 1 .. n : s[j].id = s[k].id => j = k
  BY DEF Contiguous, Consecutive
<1>5. ASSUME NEW k \in 1 .. n
      PROVE  s[k].end <= w
  <2>1. CASE k = n
    BY <1>1, <2>1
  <2>2. CASE k # n
    <3>1. k \in 1 .. n - 1
      BY <2>2
    <3>2. s[k].end <= s[n].start /\ s[n].start < s[n].end
      BY <1>1, <1>2, <1>3, <3>1
    <3>3. QED
      BY <1>1, <3>2
  <2>3. QED
    BY <2>1, <2>2
<1>6. ASSUME NEW at \in 0 .. w - 1
      PROVE  /\ \E k \in 1 .. n : Covers(s, k, at)
             /\ \A j, k \in 1 .. n : Covers(s, j, at) /\ Covers(s, k, at) => j = k
  <2> DEFINE Past == {k \in 1 .. n : at < s[k].end}
  <2>1. n \in Past
    BY <1>1
  <2>2. PICK k \in Past : \A m \in Past : k <= m
    <3>1. Past \in SUBSET Nat /\ Past # {}
      BY <2>1
    <3> HIDE DEF Past
    <3>2. QED
      BY <3>1, LeastNumber
  <2>3. s[k].start <= at
    <3>1. CASE k = 1
      BY <1>1, <3>1 DEF Contiguous, Consecutive
    <3>2. CASE k # 1
      <4>1. k - 1 \in 1 .. n - 1 /\ k - 1 \in 1 .. n /\ (k - 1) + 1 = k /\ ~ (k <= k - 1)
        BY <3>2
      <4>2. s[(k - 1) + 1].start = s[k - 1].end
        BY <4>1 DEF Contiguous, Consecutive
      <4>3. k - 1 \notin Past
        BY <2>2, <4>1
      <4>4. ~ (at < s[k - 1].end)
        BY <4>1, <4>3
      <4>5. QED
        BY <1>1, <4>1, <4>2, <4>4
    <3>3. QED
      BY <3>1, <3>2
  <2>4. Covers(s, k, at)
    BY <2>3 DEF Covers
  <2>5. ASSUME NEW i \in 1 .. n, NEW j \in 1 .. n, Covers(s, i, at), Covers(s, j, at), i < j
        PROVE  FALSE
    <3>1. s[i].end <= s[j].start
      BY <1>2, <2>5
    <3>2. QED
      BY <1>1, <2>5, <3>1 DEF Covers
  <2>6. \A i, j \in 1 .. n : Covers(s, i, at) /\ Covers(s, j, at) => i = j
    <3> SUFFICES ASSUME NEW i \in 1 .. n, NEW j \in 1 .. n, Covers(s, i, at), Covers(s, j, at),
                        i # j
                 PROVE  FALSE
      OBVIOUS
    <3>1. i < j \/ j < i
      OBVIOUS
    <3>2. QED
      BY <2>5, <3>1
  <2>7. QED
    BY <2>4, <2>6
<1> HIDE DEF w
<1>7. Partitions(s, w)
  BY <1>1, <1>3, <1>4, <1>5, <1>6, PartitionsMeans
<1>8. QED
  BY <1>1, <1>7 DEF w

LEMMA PartitionsContiguous ==
  ASSUME NEW s, NEW n \in Nat \ {0}, Blocks(s, n), NEW w \in Nat, Partitions(s, w),
         \A q, r \in 1 .. n : q <= r => s[q].start <= s[r].start
  PROVE  Contiguous(s, n) /\ s[n].end = w
<1>1. /\ \A k \in 1 .. n : s[k].id # Blank /\ s[k].start < s[k].end /\ s[k].end <= w
      /\ \A j, k \in 1 .. n : s[j].id = s[k].id => j = k
      /\ \A at \in 0 .. w - 1 :
           /\ \E k \in 1 .. n : Covers(s, k, at)
           /\ \A j, k \in 1 .. n : Covers(s, j, at) /\ Covers(s, k, at) => j = k
  BY PartitionsMeans
<1>2. \A k \in 1 .. n : s[k].start \in Nat /\ s[k].end \in Nat
  BY DEF Blocks
<1>3. ASSUME NEW j \in 1 .. n, NEW k \in 1 .. n, j < k
      PROVE  s[j].end <= s[k].start
  <2> SUFFICES ASSUME s[k].start < s[j].end PROVE FALSE
    BY <1>2
  <2>1. s[k].start \in 0 .. w - 1
    BY <1>1, <1>2
  <2>2. Covers(s, k, s[k].start) /\ Covers(s, j, s[k].start)
    BY <1>1, <1>2, <1>3 DEF Covers
  <2>3. QED
    BY <1>1, <1>3, <2>1, <2>2
<1>4. s[1].start = 0
  <2>1. 1 \in 1 .. n /\ 0 \in 0 .. w - 1
    BY <1>1, <1>2
  <2>2. PICK k \in 1 .. n : Covers(s, k, 0)
    BY <1>1, <2>1
  <2>3. s[1].start <= s[k].start
    BY <2>1
  <2>4. QED
    BY <1>2, <2>1, <2>2, <2>3 DEF Covers
<1>5. ASSUME NEW k \in 1 .. n, NEW top \in Nat, s[k].end < top, top <= w,
             \A j \in 1 .. n : k < j => top <= s[j].start
      PROVE  FALSE
  <2>1. s[k].end \in 0 .. w - 1
    BY <1>2, <1>5
  <2>2. PICK j \in 1 .. n : Covers(s, j, s[k].end)
    BY <1>1, <2>1
  <2>3. CASE k < j
    BY <1>2, <1>5, <2>2, <2>3 DEF Covers
  <2>4. CASE j < k
    <3>1. s[j].end <= s[k].start /\ s[k].start < s[k].end
      BY <1>1, <1>3, <2>4
    <3>2. QED
      BY <1>2, <2>2, <3>1 DEF Covers
  <2>5. CASE j = k
    BY <1>2, <2>2, <2>5 DEF Covers
  <2>6. QED
    BY <2>3, <2>4, <2>5
<1>6. ASSUME NEW k \in 1 .. n - 1
      PROVE  s[k + 1].start = s[k].end
  <2>1. k \in 1 .. n /\ k + 1 \in 1 .. n
    OBVIOUS
  <2>2. s[k].end <= s[k + 1].start /\ s[k + 1].start <= w
    BY <1>1, <1>2, <1>3, <2>1
  <2>3. \A j \in 1 .. n : k < j => s[k + 1].start <= s[j].start
    BY <2>1
  <2>4. ~ (s[k].end < s[k + 1].start)
    BY <1>2, <1>5, <2>1, <2>2, <2>3
  <2>5. QED
    BY <1>2, <2>1, <2>2, <2>4
<1>7. s[n].end = w
  <2>1. n \in 1 .. n /\ s[n].end <= w /\ \A j \in 1 .. n : ~ (n < j)
    BY <1>1
  <2>2. ~ (s[n].end < w)
    BY <1>5, <2>1
  <2>3. QED
    BY <1>2, <2>1, <2>2
<1>8. QED
  BY <1>1, <1>4, <1>6, <1>7 DEF Contiguous, Consecutive

(* p takes the positions of s to those of t, q takes them back.             *)
Exchange(s, t, n, p, q) ==
  \A r \in 1 .. n :
    /\ p[r] \in 1 .. n /\ q[r] \in 1 .. n
    /\ q[p[r]] = r /\ p[q[r]] = r
    /\ s[r] = t[p[r]]

(* The order of the blocks does not matter.                                 *)
LEMMA PartitionsCarried ==
  ASSUME NEW s, NEW t, NEW n \in Nat, Blocks(s, n), Blocks(t, n), NEW w \in Nat,
         NEW p, NEW q, Exchange(s, t, n, p, q),
         Partitions(t, w)
  PROVE  Partitions(s, w)
<1>0. /\ \A r \in 1 .. n : p[r] \in 1 .. n /\ q[r] \in 1 .. n
      /\ \A r \in 1 .. n : q[p[r]] = r /\ p[q[r]] = r
      /\ \A r \in 1 .. n : s[r] = t[p[r]]
  BY DEF Exchange
<1>1. /\ \A k \in 1 .. n : t[k].id # Blank /\ t[k].start < t[k].end /\ t[k].end <= w
      /\ \A j, k \in 1 .. n : t[j].id = t[k].id => j = k
      /\ \A at \in 0 .. w - 1 :
           /\ \E k \in 1 .. n : Covers(t, k, at)
           /\ \A j, k \in 1 .. n : Covers(t, j, at) /\ Covers(t, k, at) => j = k
  BY PartitionsMeans
<1>2. ASSUME NEW k \in 1 .. n
      PROVE  s[k].id # Blank /\ s[k].start < s[k].end /\ s[k].end <= w
  BY <1>0, <1>1
<1>3. ASSUME NEW j \in 1 .. n, NEW k \in 1 .. n, s[j].id = s[k].id
      PROVE  j = k
  <2>1. p[j] \in 1 .. n /\ p[k] \in 1 .. n /\ t[p[j]].id = t[p[k]].id
    BY <1>0, <1>3
  <2>2. p[j] = p[k]
    BY <1>1, <2>1
  <2>3. q[p[j]] = j /\ q[p[k]] = k
    BY <1>0
  <2>4. QED
    BY <2>2, <2>3
<1>4. ASSUME NEW at \in 0 .. w - 1
      PROVE  /\ \E k \in 1 .. n : Covers(s, k, at)
             /\ \A j, k \in 1 .. n : Covers(s, j, at) /\ Covers(s, k, at) => j = k
  <2>1. PICK k \in 1 .. n : Covers(t, k, at)
    BY <1>1
  <2>2. q[k] \in 1 .. n /\ s[q[k]] = t[k]
    <3>1. q[k] \in 1 .. n /\ p[q[k]] = k
      BY <1>0
    <3>2. s[q[k]] = t[p[q[k]]]
      BY <1>0, <3>1
    <3>3. QED
      BY <3>1, <3>2
  <2>3. Covers(s, q[k], at)
    BY <2>1, <2>2 DEF Covers
  <2>4. ASSUME NEW i \in 1 .. n, NEW j \in 1 .. n, Covers(s, i, at), Covers(s, j, at)
        PROVE  i = j
    <3>1. p[i] \in 1 .. n /\ p[j] \in 1 .. n /\ Covers(t, p[i], at) /\ Covers(t, p[j], at)
      BY <1>0, <2>4 DEF Covers
    <3>2. p[i] = p[j]
      BY <1>1, <3>1
    <3>3. q[p[i]] = i /\ q[p[j]] = j
      BY <1>0
    <3>4. QED
      BY <3>2, <3>3
  <2>5. QED
    BY <2>2, <2>3, <2>4
<1>5. QED
  BY <1>2, <1>3, <1>4, PartitionsMeans

LEMMA PartitionsReordered ==
  ASSUME NEW s, NEW t, NEW n \in Nat, Blocks(s, n), Blocks(t, n), NEW w \in Nat,
         NEW p \in Bijection(1 .. n, 1 .. n), \A r \in 1 .. n : s[r] = t[p[r]]
  PROVE  Partitions(s, w) <=> Partitions(t, w)
<1> DEFINE q == [j \in 1 .. n |-> CHOOSE r \in 1 .. n : p[r] = j]
<1>1. /\ \A r \in 1 .. n : p[r] \in 1 .. n
      /\ \A i, r \in 1 .. n : p[i] = p[r] => i = r
      /\ \A j \in 1 .. n : \E r \in 1 .. n : p[r] = j
  BY DEF Bijection, Injection, IsInjective, Surjection
<1>2. ASSUME NEW j \in 1 .. n PROVE q[j] \in 1 .. n /\ p[q[j]] = j
  <2>1. \E r \in 1 .. n : p[r] = j
    BY <1>1
  <2>2. QED
    BY <2>1
<1> HIDE DEF q
<1>3. ASSUME NEW r \in 1 .. n PROVE q[p[r]] = r
  <2>1. p[r] \in 1 .. n
    BY <1>1
  <2>2. q[p[r]] \in 1 .. n /\ p[q[p[r]]] = p[r]
    BY <1>2, <2>1
  <2>3. QED
    BY <1>1, <2>2
<1>4. ASSUME NEW j \in 1 .. n PROVE t[j] = s[q[j]]
  <2>1. q[j] \in 1 .. n /\ p[q[j]] = j
    BY <1>2
  <2>2. s[q[j]] = t[p[q[j]]]
    BY <2>1
  <2>3. QED
    BY <2>1, <2>2
<1>5. Exchange(s, t, n, p, q) /\ Exchange(t, s, n, q, p)
  BY <1>1, <1>2, <1>3, <1>4 DEF Exchange
<1>6. Partitions(t, w) => Partitions(s, w)
  BY <1>5, PartitionsCarried
<1>7. Partitions(s, w) => Partitions(t, w)
  BY <1>5, PartitionsCarried
<1>8. QED
  BY <1>6, <1>7

(* StateLayout::new takes exactly the blocks that cut the unknowns, and the *)
(* layout holds these blocks one after the other.                           *)
LEMMA LayoutAccepts ==
  ASSUME NEW blocks, NEW n \in Nat \ {0}, Blocks(blocks, n)
  PROVE  LET layout == NewLayout(blocks)
         IN  /\ \A w \in Nat : Partitions(blocks, w) <=> layout.reply = Ok /\ layout.width = w
             /\ layout.reply = Ok =>
                  /\ layout = [reply |-> Ok, blocks |-> layout.blocks, width |-> layout.width]
                  /\ layout.width \in Nat /\ layout.width = layout.blocks[n].end
                  /\ Blocks(layout.blocks, n) /\ Contiguous(layout.blocks, n)
                  /\ Partitions(layout.blocks, layout.width)
                  /\ Range(layout.blocks) = Range(blocks)
<1> DEFINE s == ByStart(blocks)
           layout == NewLayout(blocks)
<1>1. /\ Blocks(s, n)
      /\ \A q, r \in 1 .. n : q <= r => s[q].start <= s[r].start
  BY SortedBlocks
<1>2. PICK p \in Bijection(1 .. n, 1 .. n) : \A r \in 1 .. n : s[r] = blocks[p[r]]
  BY SortedBlocks
<1>3. /\ layout.reply = Ok <=> Contiguous(s, n)
      /\ Contiguous(s, n) => layout = [reply |-> Ok, blocks |-> s, width |-> s[n].end]
  BY LayoutDecides
<1>4. Range(s) = Range(blocks)
  <2>1. /\ \A r \in 1 .. n : p[r] \in 1 .. n
        /\ \A j \in 1 .. n : \E r \in 1 .. n : p[r] = j
    BY DEF Bijection, Injection, Surjection
  <2>2. DOMAIN s = 1 .. n /\ DOMAIN blocks = 1 .. n
    BY <1>1 DEF Blocks
  <2> HIDE DEF s
  <2>3. ASSUME NEW x \in Range(s) PROVE x \in Range(blocks)
    <3>1. PICK r \in 1 .. n : x = s[r]
      BY <2>2 DEF Range
    <3>2. p[r] \in 1 .. n /\ x = blocks[p[r]]
      BY <1>2, <2>1, <3>1
    <3>3. QED
      BY <2>2, <3>2 DEF Range
  <2>4. ASSUME NEW x \in Range(blocks) PROVE x \in Range(s)
    <3>1. PICK j \in 1 .. n : x = blocks[j]
      BY <2>2 DEF Range
    <3>2. PICK r \in 1 .. n : p[r] = j
      BY <2>1
    <3>3. x = s[r]
      BY <1>2, <3>1, <3>2
    <3>4. QED
      BY <2>2, <3>3 DEF Range
  <2>5. QED
    BY <2>3, <2>4
<1> HIDE DEF s, layout
<1>5. ASSUME NEW w \in Nat
      PROVE  Partitions(s, w) <=> Contiguous(s, n) /\ s[n].end = w
  BY <1>1, ContiguousPartitions, PartitionsContiguous
<1>6. \A w \in Nat : Partitions(blocks, w) <=> layout.reply = Ok /\ layout.width = w
  <2> TAKE w \in Nat
  <2>1. Partitions(blocks, w) <=> Partitions(s, w)
    BY <1>1, <1>2, PartitionsReordered
  <2>2. layout.reply = Ok => layout.width = s[n].end
    BY <1>3
  <2>3. QED
    BY <1>3, <1>5, <2>1, <2>2
<1>7. ASSUME layout.reply = Ok
      PROVE  /\ layout = [reply |-> Ok, blocks |-> layout.blocks, width |-> layout.width]
             /\ layout.width \in Nat /\ layout.width = layout.blocks[n].end
             /\ Blocks(layout.blocks, n) /\ Contiguous(layout.blocks, n)
             /\ Partitions(layout.blocks, layout.width)
             /\ Range(layout.blocks) = Range(blocks)
  <2>1. layout = [reply |-> Ok, blocks |-> s, width |-> s[n].end] /\ Contiguous(s, n)
    BY <1>3, <1>7
  <2>2. layout.blocks = s /\ layout.width = s[n].end
    BY <2>1
  <2>3. s[n].end \in Nat /\ Partitions(s, s[n].end)
    BY <1>1, <2>1, ContiguousPartitions
  <2>4. QED
    BY <1>1, <1>4, <2>1, <2>2, <2>3
<1>8. QED
  BY <1>6, <1>7 DEF layout

LEMMA LayoutPartitioned ==
  ASSUME NEW blocks, NEW n \in Nat, Blocks(blocks, n)
  PROVE  NewLayout(blocks).reply = Ok <=> Partitioned(blocks)
<1>1. CASE n = 0
  <2>1. blocks = <<>>
    BY <1>1 DEF Blocks
  <2>2. NewLayout(blocks).reply # Ok
    BY <2>1 DEF NewLayout, Ok
  <2>3. QED
    BY <2>1, <2>2 DEF Partitioned
<1>2. CASE n # 0
  <2>1. n \in Nat \ {0} /\ blocks # <<>> /\ DOMAIN blocks = 1 .. n
    BY <1>2 DEF Blocks
  <2>2. ASSUME NewLayout(blocks).reply = Ok PROVE Partitioned(blocks)
    <3>1. /\ NewLayout(blocks).width \in Nat
          /\ NewLayout(blocks).width = NewLayout(blocks).blocks[n].end
          /\ Blocks(NewLayout(blocks).blocks, n)
          /\ Range(NewLayout(blocks).blocks) = Range(blocks)
      BY <2>1, <2>2, LayoutAccepts
    <3>2. Partitions(blocks, NewLayout(blocks).width)
      BY <2>1, <2>2, <3>1, LayoutAccepts
    <3>3. n \in DOMAIN NewLayout(blocks).blocks
      BY <2>1, <3>1 DEF Blocks
    <3>4. NewLayout(blocks).blocks[n] \in Range(NewLayout(blocks).blocks)
      BY <3>3 DEF Range
    <3>5. QED
      BY <2>1, <3>1, <3>2, <3>4 DEF Partitioned
  <2>3. ASSUME Partitioned(blocks) PROVE NewLayout(blocks).reply = Ok
    <3>1. PICK final \in Range(blocks) : Partitions(blocks, final.end)
      BY <2>3 DEF Partitioned
    <3>2. PICK k \in 1 .. n : final = blocks[k]
      BY <2>1, <3>1 DEF Range
    <3>3. final.end \in Nat
      BY <3>2 DEF Blocks
    <3>4. QED
      BY <2>1, <3>1, <3>3, LayoutAccepts
  <2>4. QED
    BY <2>2, <2>3
<1>3. QED
  BY <1>1, <1>2

(* The layout does not depend on the order the blocks come in.              *)
LEMMA ContiguousUnique ==
  ASSUME NEW s, NEW t, NEW n \in Nat \ {0}, Blocks(s, n), Blocks(t, n),
         Contiguous(s, n), Contiguous(t, n), Range(s) = Range(t)
  PROVE  \A k \in 1 .. n : s[k] = t[k]
<1>1. DOMAIN s = 1 .. n /\ DOMAIN t = 1 .. n
  BY DEF Blocks
<1>2. ASSUME NEW k \in 1 .. n, s[k].start = t[k].start PROVE s[k] = t[k]
  <2>1. PICK j \in 1 .. n : t[j] = s[k]
    BY <1>1 DEF Range
  <2>2. t[j].start = t[k].start /\ t[j].start < t[j].end /\ t[k].start < t[k].end
    BY <1>2, <2>1 DEF Contiguous, Consecutive
  <2>3. ~ (j < k)
    <3> SUFFICES ASSUME j < k PROVE FALSE
      OBVIOUS
    <3>1. t[j].end <= t[k].start
      BY ContiguousAscends
    <3>2. t[j].start \in Nat /\ t[j].end \in Nat
      BY DEF Blocks
    <3>3. QED
      BY <2>2, <3>1, <3>2
  <2>4. ~ (k < j)
    <3> SUFFICES ASSUME k < j PROVE FALSE
      OBVIOUS
    <3>1. t[k].end <= t[j].start
      BY ContiguousAscends
    <3>2. t[k].start \in Nat /\ t[k].end \in Nat
      BY DEF Blocks
    <3>3. QED
      BY <2>2, <3>1, <3>2
  <2>5. QED
    BY <2>1, <2>3, <2>4
<1> DEFINE T == {m \in Nat : m + 1 <= n => s[m + 1] = t[m + 1]}
<1>3. 0 \in T
  BY <1>2 DEF Contiguous, Consecutive
<1>4. ASSUME NEW m \in Nat, m \in T PROVE m + 1 \in T
  <2> SUFFICES ASSUME (m + 1) + 1 <= n PROVE s[(m + 1) + 1] = t[(m + 1) + 1]
    OBVIOUS
  <2>1. m + 1 \in 1 .. n - 1 /\ (m + 1) + 1 \in 1 .. n
    OBVIOUS
  <2>2. s[(m + 1) + 1].start = s[m + 1].end /\ t[(m + 1) + 1].start = t[m + 1].end
    BY <2>1 DEF Contiguous, Consecutive
  <2>3. s[m + 1] = t[m + 1]
    BY <1>4
  <2>4. QED
    BY <1>2, <2>1, <2>2, <2>3
<1> HIDE DEF T
<1>5. \A m \in Nat : m \in T
  BY <1>3, <1>4, SetInduction
<1>6. ASSUME NEW k \in 1 .. n PROVE s[k] = t[k]
  <2>1. k - 1 \in T /\ (k - 1) + 1 = k
    BY <1>5
  <2>2. QED
    BY <2>1 DEF T
<1>7. QED
  BY <1>6

LEMMA LayoutUnique ==
  ASSUME NEW blocks, NEW n \in Nat \ {0}, Blocks(blocks, n), NewLayout(blocks).reply = Ok,
         NEW given, NEW m \in Nat, Blocks(given, m), NewLayout(given).reply = Ok
  PROVE  NewLayout(given) = NewLayout(blocks) <=> m = n /\ Range(given) = Range(blocks)
<1> DEFINE s == NewLayout(blocks)
           t == NewLayout(given)
<1>1. m \in Nat \ {0}
  <2>1. m = 0 => given = <<>>
    BY DEF Blocks
  <2>2. NewLayout(<<>>).reply # Ok
    BY DEF NewLayout, Ok
  <2>3. QED
    BY <2>1, <2>2
<1>2. /\ s = [reply |-> Ok, blocks |-> s.blocks, width |-> s.width]
      /\ s.width = s.blocks[n].end
      /\ Blocks(s.blocks, n) /\ Contiguous(s.blocks, n) /\ Range(s.blocks) = Range(blocks)
  BY LayoutAccepts
<1>3. /\ t = [reply |-> Ok, blocks |-> t.blocks, width |-> t.width]
      /\ t.width = t.blocks[m].end
      /\ Blocks(t.blocks, m) /\ Contiguous(t.blocks, m) /\ Range(t.blocks) = Range(given)
  BY <1>1, LayoutAccepts
<1>4. /\ s.blocks = [k \in 1 .. n |-> s.blocks[k]]
      /\ t.blocks = [k \in 1 .. m |-> t.blocks[k]]
  <2>1. s.blocks = ByStart(blocks) /\ t.blocks = ByStart(given)
    BY <1>1, LayoutDecides
  <2>2. Len(blocks) = n /\ Len(given) = m
    BY DEF Blocks
  <2>3. QED
    BY <2>1, <2>2 DEF ByStart
<1> HIDE DEF s, t
<1>5. ASSUME m = n, Range(given) = Range(blocks)
      PROVE  t = s
  <2>1. \A k \in 1 .. n : s.blocks[k] = t.blocks[k]
    BY <1>2, <1>3, <1>5, ContiguousUnique
  <2>2. s.blocks = t.blocks
    BY <1>4, <1>5, <2>1
  <2>3. s.width = t.width
    BY <1>2, <1>3, <1>5, <2>2
  <2>4. QED
    BY <1>2, <1>3, <2>2, <2>3
<1>6. ASSUME t = s
      PROVE  m = n /\ Range(given) = Range(blocks)
  BY <1>2, <1>3, <1>6 DEF Blocks
<1>7. QED
  BY <1>5, <1>6 DEF s, t

----------------------------------------------------------------------------
(* StateBinding::new.                                                       *)

Distinct(f, n) == \A j, k \in 1 .. n : f[j] = f[k] => j = k

(* How many values a function has on 1 .. n.                                *)
LEMMA ImageCounts ==
  ASSUME NEW n \in Nat, NEW f, f = [k \in 1 .. n |-> f[k]]
  PROVE  /\ IsFiniteSet({f[k] : k \in 1 .. n})
         /\ Cardinality({f[k] : k \in 1 .. n}) \in Nat
         /\ Cardinality({f[k] : k \in 1 .. n}) = n <=> Distinct(f, n)
<1> DEFINE T == {f[k] : k \in 1 .. n}
<1>1. IsFiniteSet(1 .. n) /\ Cardinality(1 .. n) = n
  BY FS_Interval
<1>2. f \in Surjection(1 .. n, T)
  <2>1. f \in [1 .. n -> T]
    OBVIOUS
  <2>2. \A y \in T : \E k \in 1 .. n : f[k] = y
    OBVIOUS
  <2> HIDE DEF T
  <2>3. QED
    BY <2>1, <2>2 DEF Surjection
<1>3. f \in Injection(1 .. n, T) <=> Distinct(f, n)
  <2>1. f \in [1 .. n -> T]
    OBVIOUS
  <2> HIDE DEF T
  <2>2. QED
    BY <2>1 DEF Injection, IsInjective, Distinct
<1> HIDE DEF T
<1>4. IsFiniteSet(T) /\ (Cardinality(T) = n <=> f \in Injection(1 .. n, T))
  BY <1>1, <1>2, FS_Surjection
<1>5. Cardinality(T) \in Nat
  BY <1>4, FS_CardinalityType
<1>6. QED
  BY <1>3, <1>4, <1>5 DEF T

Pairs(pairs, m) == DOMAIN pairs = 1 .. m /\ Len(pairs) = m

(* The blocks and the semantic ids of pairs, in their order.                *)
BlocksOf(pairs, m)    == [k \in 1 .. m |-> pairs[k].block]
SemanticsOf(pairs, m) == [k \in 1 .. m |-> pairs[k].semantic]

LEMMA PairSets ==
  ASSUME NEW pairs, NEW m \in Nat, Pairs(pairs, m)
  PROVE  /\ {p.block : p \in Range(pairs)} = {BlocksOf(pairs, m)[k] : k \in 1 .. m}
         /\ {p.semantic : p \in Range(pairs)} = {SemanticsOf(pairs, m)[k] : k \in 1 .. m}
<1>1. \A p : p \in Range(pairs) <=> \E k \in 1 .. m : p = pairs[k]
  BY DEF Range, Pairs
<1>2. ASSUME NEW b
      PROVE  b \in {p.block : p \in Range(pairs)} <=>
             b \in {BlocksOf(pairs, m)[k] : k \in 1 .. m}
  BY <1>1 DEF BlocksOf
<1>3. ASSUME NEW b
      PROVE  b \in {p.semantic : p \in Range(pairs)} <=>
             b \in {SemanticsOf(pairs, m)[k] : k \in 1 .. m}
  BY <1>1 DEF SemanticsOf
<1>4. QED
  BY <1>2, <1>3

LEMMA NoBindingFault ==
  ASSUME NEW layout, NEW pairs, NEW m \in Nat, Pairs(pairs, m)
  PROVE  (\A k \in 1 .. m : BindingFault(layout, SeenPairs(pairs, k), pairs[k]) = Ok) <=>
           /\ \A k \in 1 .. m : pairs[k].block \in Ids(layout)
           /\ Distinct(BlocksOf(pairs, m), m)
           /\ Distinct(SemanticsOf(pairs, m), m)
<1>1. ASSUME NEW k \in 1 .. m
      PROVE  BindingFault(layout, SeenPairs(pairs, k), pairs[k]) = Ok <=>
               /\ pairs[k].block \in Ids(layout)
               /\ \A j \in 1 .. k - 1 : pairs[j].block # pairs[k].block
               /\ \A j \in 1 .. k - 1 : pairs[j].semantic # pairs[k].semantic
  <2>1. /\ pairs[k].block \in SeenPairs(pairs, k).used <=>
             \E j \in 1 .. k - 1 : pairs[j].block = pairs[k].block
        /\ pairs[k].semantic \in SeenPairs(pairs, k).semantics <=>
             \E j \in 1 .. k - 1 : pairs[j].semantic = pairs[k].semantic
    BY DEF SeenPairs
  <2>2. BindingFault(layout, SeenPairs(pairs, k), pairs[k]) = Ok <=>
          /\ pairs[k].block \in Ids(layout)
          /\ pairs[k].block \notin SeenPairs(pairs, k).used
          /\ pairs[k].semantic \notin SeenPairs(pairs, k).semantics
    BY DEF BindingFault, Ok
  <2>3. QED
    BY <2>1, <2>2
<1>2. Distinct(BlocksOf(pairs, m), m) <=>
        \A k \in 1 .. m : \A j \in 1 .. k - 1 : pairs[j].block # pairs[k].block
  <2>1. \A j, k \in 1 .. m : j = k \/ j \in 1 .. k - 1 \/ k \in 1 .. j - 1
    OBVIOUS
  <2>2. \A k \in 1 .. m : \A j \in 1 .. k - 1 : j \in 1 .. m /\ j # k
    OBVIOUS
  <2>3. \A k \in 1 .. m : BlocksOf(pairs, m)[k] = pairs[k].block
    BY DEF BlocksOf
  <2>4. QED
    BY <2>1, <2>2, <2>3 DEF Distinct
<1>3. Distinct(SemanticsOf(pairs, m), m) <=>
        \A k \in 1 .. m : \A j \in 1 .. k - 1 : pairs[j].semantic # pairs[k].semantic
  <2>1. \A j, k \in 1 .. m : j = k \/ j \in 1 .. k - 1 \/ k \in 1 .. j - 1
    OBVIOUS
  <2>2. \A k \in 1 .. m : \A j \in 1 .. k - 1 : j \in 1 .. m /\ j # k
    OBVIOUS
  <2>3. \A k \in 1 .. m : SemanticsOf(pairs, m)[k] = pairs[k].semantic
    BY DEF SemanticsOf
  <2>4. QED
    BY <2>1, <2>2, <2>3 DEF Distinct
<1>4. QED
  BY <1>1, <1>2, <1>3

(* The ids of a layout, counted.                                            *)
LEMMA IdsCount ==
  ASSUME NEW layout, NEW n \in Nat, Blocks(layout.blocks, n), Contiguous(layout.blocks, n)
  PROVE  /\ Ids(layout) = {layout.blocks[k].id : k \in 1 .. n}
         /\ IsFiniteSet(Ids(layout)) /\ Cardinality(Ids(layout)) = n
<1> DEFINE f == [k \in 1 .. n |-> layout.blocks[k].id]
<1>1. Ids(layout) = {f[k] : k \in 1 .. n} /\ Ids(layout) = {layout.blocks[k].id : k \in 1 .. n}
  <2>1. \A b : b \in Range(layout.blocks) <=> \E k \in 1 .. n : b = layout.blocks[k]
    BY DEF Range, Blocks
  <2>2. ASSUME NEW id
        PROVE  /\ id \in Ids(layout) <=> id \in {layout.blocks[k].id : k \in 1 .. n}
               /\ id \in Ids(layout) <=> id \in {f[k] : k \in 1 .. n}
    BY <2>1 DEF Ids
  <2>3. QED
    BY <2>2
<1>2. Distinct(f, n)
  BY DEF Distinct, Contiguous
<1>3. f = [k \in 1 .. n |-> f[k]]
  OBVIOUS
<1> HIDE DEF f
<1>4. QED
  BY <1>1, <1>2, <1>3, ImageCounts

(* StateBinding::new takes exactly the pairs that bind every block to a     *)
(* semantic id of its own, and answers either way.                          *)
LEMMA BindingAccepts ==
  ASSUME NEW layout, NEW n \in Nat, Blocks(layout.blocks, n), Contiguous(layout.blocks, n),
         NEW pairs, NEW m \in Nat, Pairs(pairs, m)
  PROVE  LET binding == NewBinding(layout, pairs)
         IN  /\ binding.reply = Ok <=> Binds(pairs, Ids(layout))
             /\ binding.reply = Ok =>
                  /\ BoundBlocks(binding) = Ids(layout)
                  /\ \A p \in Range(pairs) : SemanticFor(binding, p.block) = p.semantic
<1> DEFINE binding == NewBinding(layout, pairs)
           fault(k) == BindingFault(layout, SeenPairs(pairs, k), pairs[k])
           faulty == {k \in 1 .. m : fault(k) # Ok}
           used == {BlocksOf(pairs, m)[k] : k \in 1 .. m}
           semantics == {SemanticsOf(pairs, m)[k] : k \in 1 .. m}
<1>1. Ids(layout) = {layout.blocks[k].id : k \in 1 .. n}
      /\ IsFiniteSet(Ids(layout)) /\ Cardinality(Ids(layout)) = n
  BY IdsCount
<1>2. /\ {p.block : p \in Range(pairs)} = used
      /\ {p.semantic : p \in Range(pairs)} = semantics
  BY PairSets
<1>3. /\ Cardinality(used) \in Nat /\ (Cardinality(used) = m <=> Distinct(BlocksOf(pairs, m), m))
      /\ Cardinality(semantics) \in Nat
      /\ (Cardinality(semantics) = m <=> Distinct(SemanticsOf(pairs, m), m))
  <2>1. BlocksOf(pairs, m) = [k \in 1 .. m |-> BlocksOf(pairs, m)[k]]
    BY DEF BlocksOf
  <2>2. SemanticsOf(pairs, m) = [k \in 1 .. m |-> SemanticsOf(pairs, m)[k]]
    BY DEF SemanticsOf
  <2>3. QED
    BY <2>1, <2>2, ImageCounts
<1>4. DOMAIN Mapped(pairs) = semantics
  BY <1>2 DEF Mapped
<1>5. Len(layout.blocks) = n /\ Len(pairs) = m
  BY DEF Blocks, Pairs
<1>6. binding = IF faulty # {} THEN [reply |-> fault(Min(faulty))]
                ELSE IF Cardinality(semantics) # n THEN [reply |-> "Incomplete"]
                ELSE [reply |-> Ok, map |-> Mapped(pairs)]
  BY <1>4, <1>5 DEF NewBinding
<1>7. faulty # {} => fault(Min(faulty)) # Ok
  <2> SUFFICES ASSUME faulty # {} PROVE Min(faulty) \in faulty
    OBVIOUS
  <2>1. faulty \in SUBSET Nat
    OBVIOUS
  <2> HIDE DEF faulty
  <2>2. \E k \in faulty : \A i \in faulty : k <= i
    BY <2>1, LeastNumber
  <2>3. QED
    BY <2>2 DEF Min
<1>8. faulty = {} <=> /\ \A k \in 1 .. m : pairs[k].block \in Ids(layout)
                      /\ Distinct(BlocksOf(pairs, m), m)
                      /\ Distinct(SemanticsOf(pairs, m), m)
  <2>1. faulty = {} <=> \A k \in 1 .. m : fault(k) = Ok
    OBVIOUS
  <2>2. QED
    BY <2>1, NoBindingFault
<1>9. (\A k \in 1 .. m : pairs[k].block \in Ids(layout)) <=> used \subseteq Ids(layout)
  BY DEF BlocksOf
<1> HIDE DEF binding, fault, faulty, used, semantics
<1>10. binding.reply = Ok <=> faulty = {} /\ Cardinality(semantics) = n
  BY <1>6, <1>7 DEF Ok
<1>11. Binds(pairs, Ids(layout)) <=>
         m = n /\ used = Ids(layout) /\ Cardinality(semantics) = n
  BY <1>1, <1>2, <1>5 DEF Binds
<1>12. ASSUME binding.reply = Ok PROVE Binds(pairs, Ids(layout))
  <2>1. /\ used \subseteq Ids(layout) /\ Cardinality(used) = m
        /\ Cardinality(semantics) = m /\ m = n
    BY <1>3, <1>8, <1>9, <1>10, <1>12
  <2>2. used = Ids(layout)
    BY <1>1, <2>1, FS_Subset
  <2>3. QED
    BY <1>11, <2>1, <2>2
<1>13. ASSUME Binds(pairs, Ids(layout)) PROVE binding.reply = Ok
  <2>1. m = n /\ used = Ids(layout) /\ Cardinality(semantics) = n
    BY <1>11, <1>13
  <2>2. Distinct(BlocksOf(pairs, m), m) /\ Distinct(SemanticsOf(pairs, m), m)
    BY <1>1, <1>3, <2>1
  <2>3. QED
    BY <1>8, <1>9, <1>10, <2>1, <2>2
<1>14. ASSUME binding.reply = Ok
       PROVE  /\ BoundBlocks(binding) = Ids(layout)
              /\ \A p \in Range(pairs) : SemanticFor(binding, p.block) = p.semantic
  <2>1. binding.map = Mapped(pairs)
    BY <1>6, <1>10, <1>14
  <2>2. /\ Distinct(BlocksOf(pairs, m), m) /\ Distinct(SemanticsOf(pairs, m), m)
        /\ used = Ids(layout)
    BY <1>8, <1>10, <1>11, <1>12, <1>14
  <2>3. \A p : p \in Range(pairs) <=> \E k \in 1 .. m : p = pairs[k]
    BY DEF Range, Pairs
  <2>4. ASSUME NEW p \in Range(pairs)
        PROVE  p.semantic \in DOMAIN Mapped(pairs) /\ Mapped(pairs)[p.semantic] = p.block
    <3> DEFINE c == CHOOSE q \in Range(pairs) : q.semantic = p.semantic
    <3>1. c \in Range(pairs) /\ c.semantic = p.semantic
      OBVIOUS
    <3>2. c = p
      <4>1. PICK j \in 1 .. m, k \in 1 .. m : c = pairs[j] /\ p = pairs[k]
        BY <2>3, <3>1
      <4>2. SemanticsOf(pairs, m)[j] = SemanticsOf(pairs, m)[k]
        BY <3>1, <4>1 DEF SemanticsOf
      <4>3. QED
        BY <2>2, <4>1, <4>2 DEF Distinct
    <3>3. QED
      BY <3>2 DEF Mapped
  <2>5. \A p, q \in Range(pairs) : p.block = q.block => p.semantic = q.semantic
    <3> SUFFICES ASSUME NEW p \in Range(pairs), NEW q \in Range(pairs), p.block = q.block
                 PROVE  p.semantic = q.semantic
      OBVIOUS
    <3>1. PICK j \in 1 .. m, k \in 1 .. m : p = pairs[j] /\ q = pairs[k]
      BY <2>3
    <3>2. BlocksOf(pairs, m)[j] = BlocksOf(pairs, m)[k]
      BY <3>1 DEF BlocksOf
    <3>3. QED
      BY <2>2, <3>1, <3>2 DEF Distinct
  <2>6. \A s \in DOMAIN Mapped(pairs) : \E p \in Range(pairs) : p.semantic = s
    BY DEF Mapped
  <2>7. Range(Mapped(pairs)) = used
    <3>1. ASSUME NEW b \in Range(Mapped(pairs)) PROVE b \in used
      <4>1. PICK s \in DOMAIN Mapped(pairs) : b = Mapped(pairs)[s]
        BY <3>1 DEF Range
      <4>2. PICK p \in Range(pairs) : p.semantic = s
        BY <2>6
      <4>3. QED
        BY <1>2, <2>4, <4>1, <4>2
    <3>2. ASSUME NEW b \in used PROVE b \in Range(Mapped(pairs))
      <4>1. PICK p \in Range(pairs) : b = p.block
        BY <1>2, <3>2
      <4>2. QED
        BY <2>4, <4>1 DEF Range
    <3>3. QED
      BY <3>1, <3>2
  <2>8. ASSUME NEW p \in Range(pairs)
        PROVE  SemanticFor(binding, p.block) = p.semantic
    <3>1. ASSUME NEW s \in DOMAIN Mapped(pairs), Mapped(pairs)[s] = p.block
          PROVE  s = p.semantic
      <4>1. PICK q \in Range(pairs) : q.semantic = s
        BY <2>6
      <4>2. q.block = p.block
        BY <2>4, <3>1, <4>1
      <4>3. QED
        BY <2>5, <4>1, <4>2
    <3>2. p.semantic \in DOMAIN Mapped(pairs) /\ Mapped(pairs)[p.semantic] = p.block
      BY <2>4
    <3>3. QED
      BY <2>1, <3>1, <3>2 DEF SemanticFor
  <2>9. QED
    BY <2>1, <2>2, <2>7, <2>8 DEF BoundBlocks
<1>15. QED
  BY <1>12, <1>13, <1>14 DEF binding

----------------------------------------------------------------------------
(* The layout of a solver: blocks of given lengths, one after the other.    *)

(* f tells where each of the first n blocks starts.                         *)
Starts(f, lengths, n) ==
  f = [k \in 1 .. n |-> IF k = 1 THEN 0 ELSE f[k - 1] + lengths[k - 1]]

(* There is such a function.                                                *)
LEMMA StartsExist ==
  ASSUME NEW lengths, NEW n \in Nat
  PROVE  \E f : Starts(f, lengths, n)
<1> DEFINE T == {m \in Nat : \E f : Starts(f, lengths, m)}
<1>1. 0 \in T
  <2> DEFINE none == [k \in 1 .. 0 |-> 0]
  <2>1. \A k \in 1 .. 0 : FALSE
    OBVIOUS
  <2>2. none = [k \in 1 .. 0 |-> IF k = 1 THEN 0 ELSE none[k - 1] + lengths[k - 1]]
    BY <2>1
  <2> HIDE DEF none
  <2>3. Starts(none, lengths, 0)
    BY <2>2 DEF Starts
  <2>4. QED
    BY <2>3
<1>2. ASSUME NEW m \in Nat, m \in T
      PROVE  m + 1 \in T
  <2>1. PICK f : Starts(f, lengths, m)
    BY <1>2
  <2> DEFINE longer == [k \in 1 .. m + 1 |->
                          IF k <= m THEN f[k]
                          ELSE IF k = 1 THEN 0 ELSE f[k - 1] + lengths[k - 1]]
             value(k) == IF k = 1 THEN 0 ELSE longer[k - 1] + lengths[k - 1]
  <2>2. ASSUME NEW k \in 1 .. m + 1 PROVE longer[k] = value(k)
    <3>1. k # 1 => k - 1 \in 1 .. m + 1 /\ k - 1 <= m /\ longer[k - 1] = f[k - 1]
      OBVIOUS
    <3>2. CASE k <= m
      <4>1. k \in 1 .. m /\ longer[k] = f[k]
        BY <3>2
      <4>2. f[k] = IF k = 1 THEN 0 ELSE f[k - 1] + lengths[k - 1]
        <5> HIDE DEF longer, value
        <5>1. QED
          BY <2>1, <4>1 DEF Starts
      <4>3. QED
        BY <3>1, <4>1, <4>2
    <3>3. CASE ~ (k <= m)
      BY <3>1, <3>3
    <3>4. QED
      BY <3>2, <3>3
  <2>3. longer = [k \in 1 .. m + 1 |-> value(k)]
    <3>1. longer = [k \in 1 .. m + 1 |-> longer[k]]
      OBVIOUS
    <3> HIDE DEF longer, value
    <3>2. QED
      BY <2>2, <3>1
  <2>4. Starts(longer, lengths, m + 1)
    <3> HIDE DEF longer
    <3>1. QED
      BY <2>3 DEF Starts
  <2>5. QED
    <3> HIDE DEF longer
    <3>1. QED
      BY <2>4
<1>3. QED
  <2> HIDE DEF T
  <2>1. n \in T
    BY <1>1, <1>2, SetInduction
  <2>2. QED
    BY <2>1 DEF T

LEMMA SolverLayoutConsecutive ==
  ASSUME NEW n \in Nat \ {0}, NEW lengths \in [1 .. n -> Nat \ {0}]
  PROVE  Blocks(SolverLayout(lengths), n) /\ Consecutive(SolverLayout(lengths), n)
<1> DEFINE f == CHOOSE f : Starts(f, lengths, n)
           s == [k \in 1 .. n |-> [start |-> f[k], end |-> f[k] + lengths[k]]]
<1>0. Len(lengths) = n
  OBVIOUS
<1>1. SolverLayout(lengths) = s
  BY <1>0 DEF SolverLayout, Starts
<1>2. Starts(f, lengths, n)
  BY StartsExist
<1> HIDE DEF f
<1>3. \A k \in 1 .. n : f[k] = IF k = 1 THEN 0 ELSE f[k - 1] + lengths[k - 1]
  BY <1>2 DEF Starts
<1> DEFINE T == {m \in Nat : m + 1 <= n => f[m + 1] \in Nat}
<1>4. 0 \in T
  BY <1>3
<1>5. ASSUME NEW m \in Nat, m \in T
      PROVE  m + 1 \in T
  <2> SUFFICES ASSUME (m + 1) + 1 <= n PROVE f[(m + 1) + 1] \in Nat
    OBVIOUS
  <2>1. (m + 1) + 1 \in 1 .. n /\ (m + 1) + 1 # 1 /\ ((m + 1) + 1) - 1 = m + 1 /\ m + 1 \in 1 .. n
    OBVIOUS
  <2>2. f[(m + 1) + 1] = f[m + 1] + lengths[m + 1]
    BY <1>3, <2>1
  <2>3. f[m + 1] \in Nat /\ lengths[m + 1] \in Nat
    BY <1>5, <2>1
  <2>4. QED
    BY <2>2, <2>3
<1> HIDE DEF T
<1>6. \A m \in Nat : m \in T
  BY <1>4, <1>5, SetInduction
<1>7. ASSUME NEW k \in 1 .. n PROVE f[k] \in Nat
  <2>1. k - 1 \in T /\ (k - 1) + 1 = k
    BY <1>6
  <2>2. QED
    BY <2>1 DEF T
<1>8. DOMAIN s = 1 .. n /\ Len(s) = n
  OBVIOUS
<1>9. \A k \in 1 .. n : s[k].start = f[k] /\ s[k].end = f[k] + lengths[k]
  OBVIOUS
<1> HIDE DEF s
<1>10. Blocks(s, n)
  BY <1>7, <1>8, <1>9 DEF Blocks
<1>11. s[1].start = 0
  <2>1. 1 \in 1 .. n
    OBVIOUS
  <2>2. f[1] = 0
    BY <1>3, <2>1
  <2>3. QED
    BY <1>9, <2>1, <2>2
<1>12. \A k \in 1 .. n : s[k].start < s[k].end
  BY <1>7, <1>9
<1>13. ASSUME NEW k \in 1 .. n - 1 PROVE s[k + 1].start = s[k].end
  <2>1. k \in 1 .. n /\ k + 1 \in 1 .. n /\ k + 1 # 1 /\ (k + 1) - 1 = k
    OBVIOUS
  <2>2. f[k + 1] = f[k] + lengths[k]
    BY <1>3, <2>1
  <2>3. QED
    BY <1>9, <2>1, <2>2
<1>14. QED
  BY <1>1, <1>10, <1>11, <1>12, <1>13 DEF Consecutive

----------------------------------------------------------------------------
(* check_blocks_tile_layout.                                                *)

(* A turn of the walk, when what the later turns tell is told by f.         *)
Turn(f, solver, blocks, n, m, at) ==
  IF at[1] > n THEN IF at[2] > m THEN Ok ELSE "OutsideBlocks"
  ELSE IF at[3] >= solver[at[1]].end
       THEN f[<<at[1] + 1, at[2], IF at[1] + 1 <= n THEN solver[at[1] + 1].start ELSE 0>>]
  ELSE IF at[2] > m THEN "PastLastBlock"
  ELSE IF blocks[at[2]].start # at[3] \/ blocks[at[2]].end > solver[at[1]].end THEN "NotTiled"
  ELSE f[<<at[1], at[2] + 1, blocks[at[2]].end>>]

Walk(n, m)  == (1 .. n + 1) \X (1 .. m + 1) \X Nat
Ahead(n, m, at) == (n + 1 - at[1]) + (m + 1 - at[2])

(* f tells what the walk answers from the turns with so many blocks ahead.  *)
Walks(f, solver, blocks, n, m, S) == f = [at \in S |-> Turn(f, solver, blocks, n, m, at)]

(* There is such a function for all turns.                                  *)
LEMMA WalksExist ==
  ASSUME NEW solver, NEW blocks, NEW n \in Nat, NEW m \in Nat,
         Blocks(solver, n), Blocks(blocks, m)
  PROVE  \E f : Walks(f, solver, blocks, n, m, Walk(n, m))
<1> DEFINE Near(i) == {at \in Walk(n, m) : Ahead(n, m, at) <= i}
           T == {i \in Nat : \E f : Walks(f, solver, blocks, n, m, Near(i))}
<1>1. ASSUME NEW at \in Walk(n, m)
      PROVE  /\ Ahead(n, m, at) \in Nat
             /\ Ahead(n, m, at) <= n + m
             /\ Ahead(n, m, at) = 0 => at[1] > n
  BY DEF Walk, Ahead
<1>2. ASSUME NEW at \in Walk(n, m), at[1] <= n
      PROVE  LET next == <<at[1] + 1, at[2], IF at[1] + 1 <= n THEN solver[at[1] + 1].start ELSE 0>>
             IN  next \in Walk(n, m) /\ Ahead(n, m, next) = Ahead(n, m, at) - 1
  <2>1. (IF at[1] + 1 <= n THEN solver[at[1] + 1].start ELSE 0) \in Nat
    BY <1>2 DEF Walk, Blocks
  <2>2. QED
    BY <1>2, <2>1 DEF Walk, Ahead
<1>3. ASSUME NEW at \in Walk(n, m), at[2] <= m
      PROVE  LET next == <<at[1], at[2] + 1, blocks[at[2]].end>>
             IN  next \in Walk(n, m) /\ Ahead(n, m, next) = Ahead(n, m, at) - 1
  <2>1. blocks[at[2]].end \in Nat
    BY <1>3 DEF Walk, Blocks
  <2>2. QED
    BY <1>3, <2>1 DEF Walk, Ahead
<1>4. ASSUME NEW f, NEW g, NEW i \in Nat, NEW at \in Walk(n, m), Ahead(n, m, at) <= i + 1,
             \A a \in Near(i) : f[a] = g[a]
      PROVE  Turn(f, solver, blocks, n, m, at) = Turn(g, solver, blocks, n, m, at)
  <2>1. CASE at[1] > n
    BY <2>1 DEF Turn
  <2>2. CASE at[1] <= n
    <3> DEFINE next == <<at[1] + 1, at[2], IF at[1] + 1 <= n THEN solver[at[1] + 1].start ELSE 0>>
               after == <<at[1], at[2] + 1, blocks[at[2]].end>>
    <3>0. at[1] \in Nat /\ at[2] \in Nat /\ ~ (at[1] > n)
      BY <2>2 DEF Walk
    <3>1. f[next] = g[next]
      <4>1. next \in Near(i)
        BY <1>1, <1>2, <1>4, <2>2
      <4> HIDE DEF next, Near
      <4>2. QED
        BY <1>4, <4>1
    <3>2. at[2] <= m => f[after] = g[after]
      <4> SUFFICES ASSUME at[2] <= m PROVE f[after] = g[after]
        OBVIOUS
      <4>1. after \in Near(i)
        BY <1>1, <1>3, <1>4
      <4> HIDE DEF after, Near
      <4>2. QED
        BY <1>4, <4>1
    <3>3. at[2] > m \/ at[2] <= m
      BY <3>0
    <3>4. \A h : Turn(h, solver, blocks, n, m, at) =
            IF at[3] >= solver[at[1]].end THEN h[next]
            ELSE IF at[2] > m THEN "PastLastBlock"
            ELSE IF blocks[at[2]].start # at[3] \/ blocks[at[2]].end > solver[at[1]].end
                 THEN "NotTiled"
            ELSE h[after]
      BY <3>0 DEF Turn
    <3> HIDE DEF next, after
    <3>5. QED
      BY <3>1, <3>2, <3>3, <3>4
  <2>3. QED
    BY <2>1, <2>2 DEF Walk
<1>5. 0 \in T
  <2> DEFINE f == [at \in Near(0) |-> IF at[2] > m THEN Ok ELSE "OutsideBlocks"]
  <2>1. \A at \in Near(0) : Turn(f, solver, blocks, n, m, at)
                              = IF at[2] > m THEN Ok ELSE "OutsideBlocks"
    BY <1>1 DEF Turn
  <2>2. f = [at \in Near(0) |-> Turn(f, solver, blocks, n, m, at)]
    BY <2>1
  <2>3. Walks(f, solver, blocks, n, m, Near(0))
    <3> HIDE DEF f, Near
    <3>1. QED
      BY <2>2 DEF Walks
  <2> HIDE DEF f, Near
  <2>4. QED
    BY <2>3
<1>6. ASSUME NEW i \in Nat, i \in T
      PROVE  i + 1 \in T
  <2>1. PICK f : Walks(f, solver, blocks, n, m, Near(i))
    BY <1>6
  <2> DEFINE g == [at \in Near(i + 1) |-> Turn(f, solver, blocks, n, m, at)]
  <2>2. \A at \in Near(i + 1) : at \in Walk(n, m) /\ Ahead(n, m, at) <= i + 1
    OBVIOUS
  <2>3. \A at \in Near(i) : at \in Near(i + 1)
    BY <1>1
  <2> HIDE DEF T
  <2>4. \A at \in Near(i) : g[at] = f[at]
    <3> HIDE DEF Near
    <3>1. \A at \in Near(i) : f[at] = Turn(f, solver, blocks, n, m, at)
      BY <2>1 DEF Walks
    <3>2. \A at \in Near(i) : g[at] = Turn(f, solver, blocks, n, m, at)
      BY <2>3
    <3>3. QED
      BY <3>1, <3>2
  <2>5. ASSUME NEW at \in Near(i + 1)
        PROVE  Turn(f, solver, blocks, n, m, at) = Turn(g, solver, blocks, n, m, at)
    <3>1. at \in Walk(n, m) /\ Ahead(n, m, at) <= i + 1
      BY <2>2
    <3>2. \A a \in Near(i) : f[a] = g[a]
      BY <2>4
    <3> HIDE DEF g, Near
    <3>3. QED
      BY <1>4, <3>1, <3>2
  <2>6. g = [at \in Near(i + 1) |-> Turn(g, solver, blocks, n, m, at)]
    <3>1. g = [at \in Near(i + 1) |-> Turn(f, solver, blocks, n, m, at)]
      OBVIOUS
    <3> HIDE DEF g, Near
    <3>2. QED
      BY <2>5, <3>1
  <2>7. Walks(g, solver, blocks, n, m, Near(i + 1))
    <3> HIDE DEF g, Near
    <3>1. QED
      BY <2>6 DEF Walks
  <2>8. QED
    <3> HIDE DEF g, Near
    <3>1. QED
      BY <2>7 DEF T
<1>7. Near(n + m) = Walk(n, m)
  BY <1>1
<1>8. n + m \in T
  <2> HIDE DEF T
  <2>1. QED
    BY <1>5, <1>6, SetInduction
<1>9. QED
  <2> HIDE DEF Near
  <2>1. QED
    BY <1>7, <1>8

LEMMA TilesWalks ==
  ASSUME NEW solver, NEW blocks, NEW n \in Nat \ {0}, NEW m \in Nat,
         Blocks(solver, n), Blocks(blocks, m)
  PROVE  \E f : /\ \A at \in Walk(n, m) : f[at] = Turn(f, solver, blocks, n, m, at)
                /\ Tiles(solver, blocks) <=> f[<<1, 1, solver[1].start>>] = Ok
<1> DEFINE f == CHOOSE f : Walks(f, solver, blocks, n, m, Walk(n, m))
<1>1. Len(solver) = n /\ Len(blocks) = m
  BY DEF Blocks
<1>2. Tiles(solver, blocks) <=> f[<<1, 1, IF 1 <= n THEN solver[1].start ELSE 0>>] = Ok
  BY <1>1 DEF Tiles, Walks, Walk, Turn
<1>3. Walks(f, solver, blocks, n, m, Walk(n, m))
  BY WalksExist
<1> HIDE DEF f
<1>4. \A at \in Walk(n, m) : f[at] = Turn(f, solver, blocks, n, m, at)
  BY <1>3 DEF Walks
<1>5. 1 <= n
  OBVIOUS
<1>6. QED
  BY <1>2, <1>4, <1>5

(* The cuts of consecutive blocks, in order.                                *)
CutAt(blocks, m, k) == IF k <= m THEN blocks[k].start ELSE blocks[m].end

LEMMA CutsAscend ==
  ASSUME NEW b, NEW m \in Nat \ {0}, Blocks(b, m), Consecutive(b, m)
  PROVE  /\ \A k \in 1 .. m + 1 : CutAt(b, m, k) \in Nat
         /\ CutAt(b, m, 1) = 0
         /\ \A k \in 1 .. m : CutAt(b, m, k + 1) = b[k].end /\ b[k].start = CutAt(b, m, k)
         /\ \A j, k \in 1 .. m + 1 : j < k => CutAt(b, m, j) < CutAt(b, m, k)
<1>1. m \in 1 .. m /\ 1 \in 1 .. m
  OBVIOUS
<1>2. \A k \in 1 .. m : b[k].start \in Nat /\ b[k].end \in Nat /\ b[k].start < b[k].end
  BY DEF Blocks, Consecutive
<1>3. \A k \in 1 .. m + 1 : CutAt(b, m, k) \in Nat
  BY <1>1, <1>2 DEF CutAt
<1>4. CutAt(b, m, 1) = 0
  BY <1>1 DEF CutAt, Consecutive
<1>5. ASSUME NEW k \in 1 .. m PROVE CutAt(b, m, k + 1) = b[k].end /\ b[k].start = CutAt(b, m, k)
  <2>1. CASE k = m
    BY <2>1 DEF CutAt
  <2>2. CASE k # m
    <3>1. k \in 1 .. m - 1 /\ k + 1 <= m
      BY <2>2
    <3>2. b[k + 1].start = b[k].end
      BY <3>1 DEF Consecutive
    <3>3. QED
      BY <3>1, <3>2 DEF CutAt
  <2>3. QED
    BY <2>1, <2>2
<1>6. ASSUME NEW j \in 1 .. m + 1, NEW k \in 1 .. m + 1, j < k
      PROVE  CutAt(b, m, j) < CutAt(b, m, k)
  <2>1. j \in 1 .. m /\ k - 1 \in 1 .. m /\ (k - 1) + 1 = k
    BY <1>6
  <2>2. CutAt(b, m, k) = b[k - 1].end /\ CutAt(b, m, j) = b[j].start
    <3>1. CutAt(b, m, (k - 1) + 1) = b[k - 1].end
      BY <1>5, <2>1
    <3>2. QED
      BY <1>5, <2>1, <3>1
  <2>3. b[j].start < b[k - 1].end
    <3>1. CASE j = k - 1
      BY <1>2, <2>1, <3>1
    <3>2. CASE j # k - 1
      <4>1. j \in 1 .. (k - 1) - 1
        BY <1>6, <3>2
      <4>2. b[j].end <= b[k - 1].start
        BY <2>1, <4>1, Ascends
      <4>3. b[j].start < b[j].end /\ b[k - 1].start < b[k - 1].end
        BY <1>2, <2>1
      <4>4. b[j].start \in Nat /\ b[j].end \in Nat /\ b[k - 1].start \in Nat /\ b[k - 1].end \in Nat
        BY <1>2, <2>1
      <4>5. QED
        BY <4>2, <4>3, <4>4
    <3>3. QED
      BY <3>1, <3>2
  <2>4. QED
    BY <2>2, <2>3
<1>7. QED
  BY <1>3, <1>4, <1>5, <1>6

(* The solver's blocks from the s-th on end where blocks of the state end,  *)
(* and the last ones of both together.                                      *)
EndTogether(a, n, b, m, s) ==
  /\ a[n].end = b[m].end
  /\ \A t \in s .. n : \E k \in 1 .. m : b[k].end = a[t].end

(* A turn asks of the state's next block to start where the walk is.        *)
LEMMA WalkTells ==
  ASSUME NEW a, NEW n \in Nat \ {0}, Blocks(a, n), Consecutive(a, n),
         NEW b, NEW m \in Nat \ {0}, Blocks(b, m), Consecutive(b, m),
         NEW f, \A at \in Walk(n, m) : f[at] = Turn(f, a, b, n, m, at)
  PROVE  \A s \in 1 .. n : \A k \in 1 .. m + 1 :
           a[s].start <= CutAt(b, m, k) /\ CutAt(b, m, k) <= a[s].end =>
             (f[<<s, k, CutAt(b, m, k)>>] = Ok <=> EndTogether(a, n, b, m, s))
<1> DEFINE Tells(s, k) == a[s].start <= CutAt(b, m, k) /\ CutAt(b, m, k) <= a[s].end =>
                            (f[<<s, k, CutAt(b, m, k)>>] = Ok <=> EndTogether(a, n, b, m, s))
           T == {i \in Nat : \A s \in 1 .. n : \A k \in 1 .. m + 1 :
                               (n + 1 - s) + (m + 1 - k) <= i => Tells(s, k)}
<1>1. /\ \A k \in 1 .. m + 1 : CutAt(b, m, k) \in Nat
      /\ CutAt(b, m, 1) = 0
      /\ \A k \in 1 .. m : CutAt(b, m, k + 1) = b[k].end /\ b[k].start = CutAt(b, m, k)
      /\ \A j, k \in 1 .. m + 1 : j < k => CutAt(b, m, j) < CutAt(b, m, k)
  BY CutsAscend
<1>2. \A s \in 1 .. n : a[s].start \in Nat /\ a[s].end \in Nat /\ a[s].start < a[s].end
  BY DEF Blocks, Consecutive
<1>3. CutAt(b, m, m + 1) = b[m].end
  BY DEF CutAt
<1>4. ASSUME NEW s \in 1 .. n
      PROVE  a[s].end <= a[n].end
  <2>1. CASE s = n
    BY <1>2, <2>1
  <2>2. CASE s # n
    <3>1. s \in 1 .. n - 1 /\ n \in 1 .. n
      BY <2>2
    <3>2. a[s].end <= a[n].start
      BY <3>1, Ascends
    <3>3. QED
      BY <1>2, <3>1, <3>2
  <2>3. QED
    BY <2>1, <2>2
<1>5. ASSUME NEW i \in Nat, NEW s \in 1 .. n, NEW k \in 1 .. m + 1,
             \A t \in 1 .. n : \A j \in 1 .. m + 1 :
               (n + 1 - t) + (m + 1 - j) <= i => Tells(t, j),
             (n + 1 - s) + (m + 1 - k) <= i + 1,
             a[s].start <= CutAt(b, m, k), CutAt(b, m, k) <= a[s].end
      PROVE  f[<<s, k, CutAt(b, m, k)>>] = Ok <=> EndTogether(a, n, b, m, s)
  <2> DEFINE c == CutAt(b, m, k)
             at == <<s, k, c>>
             next == <<s + 1, k, IF s + 1 <= n THEN a[s + 1].start ELSE 0>>
             after == <<s, k + 1, b[k].end>>
  <2>1. c \in Nat /\ at \in Walk(n, m)
    BY <1>1 DEF Walk
  <2>2. f[at] = IF c >= a[s].end THEN f[next]
                ELSE IF k > m THEN "PastLastBlock"
                ELSE IF b[k].start # c \/ b[k].end > a[s].end THEN "NotTiled"
                ELSE f[after]
    <3>1. f[at] = Turn(f, a, b, n, m, at)
      BY <2>1
    <3>2. at[1] = s /\ at[2] = k /\ at[3] = c /\ ~ (s > n)
      OBVIOUS
    <3> HIDE DEF at, c
    <3>3. QED
      BY <3>1, <3>2 DEF Turn
  <2>3. CASE c >= a[s].end
    <3>1. f[at] = f[next] /\ c = a[s].end
      BY <1>2, <1>5, <2>1, <2>2, <2>3
    <3>2. \E j \in 1 .. m : b[j].end = a[s].end
      <4>1. k # 1
        BY <1>1, <1>2, <3>1
      <4>2. k - 1 \in 1 .. m /\ (k - 1) + 1 = k
        BY <4>1
      <4>3. b[k - 1].end = CutAt(b, m, (k - 1) + 1)
        BY <1>1, <4>2
      <4>4. QED
        BY <3>1, <4>2, <4>3
    <3>3. CASE s = n
      <4>1. next = <<n + 1, k, 0>> /\ next \in Walk(n, m)
        BY <3>3 DEF Walk
      <4>2. f[next] = Ok <=> k > m
        <5>1. f[<<n + 1, k, 0>>] = Turn(f, a, b, n, m, <<n + 1, k, 0>>)
          BY <4>1
        <5>2. Turn(f, a, b, n, m, <<n + 1, k, 0>>) = IF k > m THEN Ok ELSE "OutsideBlocks"
          BY DEF Turn
        <5>3. QED
          BY <4>1, <5>1, <5>2 DEF Ok
      <4>3. k > m <=> c = b[m].end
        <5>1. k > m => k = m + 1
          OBVIOUS
        <5>2. ~ (k > m) => k < m + 1 /\ m + 1 \in 1 .. m + 1
          OBVIOUS
        <5>3. ~ (k > m) => CutAt(b, m, k) < CutAt(b, m, m + 1)
          BY <1>1, <5>2
        <5>4. CutAt(b, m, m + 1) \in Nat
          BY <1>1
        <5>5. QED
          BY <1>3, <2>1, <5>1, <5>3, <5>4
      <4>4. EndTogether(a, n, b, m, s) <=> c = b[m].end
        <5>1. \A t \in s .. n : t = s
          BY <3>3
        <5>2. QED
          BY <3>1, <3>2, <3>3, <5>1 DEF EndTogether
      <4>5. QED
        BY <3>1, <4>2, <4>3, <4>4
    <3>4. CASE s # n
      <4>1. s + 1 \in 1 .. n /\ s \in 1 .. n - 1 /\ s + 1 <= n
        BY <3>4
      <4>2. a[s + 1].start = c /\ c <= a[s + 1].end
        <5>1. a[s + 1].start = a[s].end
          BY <4>1 DEF Consecutive
        <5>2. QED
          BY <1>2, <3>1, <4>1, <5>1
      <4>3. next = <<s + 1, k, c>>
        BY <4>1, <4>2
      <4>4. Tells(s + 1, k)
        <5>1. (n + 1 - (s + 1)) + (m + 1 - k) <= i
          BY <1>5
        <5> HIDE DEF Tells
        <5>2. QED
          BY <1>5, <4>1, <5>1
      <4>5. f[next] = Ok <=> EndTogether(a, n, b, m, s + 1)
        <5>1. a[s + 1].start <= c
          BY <2>1, <4>2
        <5>2. QED
          BY <4>2, <4>3, <4>4, <5>1
      <4>6. EndTogether(a, n, b, m, s + 1) <=> EndTogether(a, n, b, m, s)
        <5>1. \A t : t \in s .. n <=> t = s \/ t \in s + 1 .. n
          BY <4>1
        <5>2. QED
          BY <3>2, <5>1 DEF EndTogether
      <4>7. QED
        BY <3>1, <4>5, <4>6
    <3>5. QED
      BY <3>3, <3>4
  <2>4. CASE c < a[s].end /\ k > m
    <3>1. f[at] # Ok
      BY <1>2, <2>1, <2>2, <2>4 DEF Ok
    <3>2. c = b[m].end /\ a[s].end <= a[n].end
      BY <1>3, <1>4, <2>4
    <3>3. a[n].end # b[m].end
      BY <1>2, <2>1, <2>4, <3>2
    <3>4. QED
      BY <3>1, <3>3 DEF EndTogether
  <2>5. CASE c < a[s].end /\ ~ (k > m)
    <3>1. k \in 1 .. m /\ b[k].start = c /\ b[k].end = CutAt(b, m, k + 1)
      BY <1>1, <2>5
    <3>2. CASE b[k].end > a[s].end
      <4>1. f[at] # Ok
        BY <1>2, <2>1, <2>2, <2>5, <3>2 DEF Ok
      <4>2. \A j \in 1 .. m : b[j].end # a[s].end
        <5> SUFFICES ASSUME NEW j \in 1 .. m, b[j].end = a[s].end PROVE FALSE
          OBVIOUS
        <5>1. CutAt(b, m, j + 1) = a[s].end /\ j + 1 \in 1 .. m + 1 /\ k + 1 \in 1 .. m + 1
          BY <1>1, <3>1
        <5>2. k < j + 1
          <6>1. ~ (j + 1 < k)
            <7> SUFFICES ASSUME j + 1 < k PROVE FALSE
              OBVIOUS
            <7>1. CutAt(b, m, j + 1) < CutAt(b, m, k)
              BY <1>1, <5>1
            <7>2. QED
              BY <1>2, <2>1, <2>5, <5>1, <7>1
          <6>2. j + 1 # k
            BY <1>2, <2>1, <2>5, <5>1
          <6>3. QED
            BY <6>1, <6>2
        <5>3. ~ (k + 1 <= j + 1)
          <6> SUFFICES ASSUME k + 1 <= j + 1 PROVE FALSE
            OBVIOUS
          <6>1. CutAt(b, m, k + 1) <= CutAt(b, m, j + 1)
            <7>1. k + 1 = j + 1 \/ k + 1 < j + 1
              OBVIOUS
            <7>2. CutAt(b, m, k + 1) \in Nat /\ CutAt(b, m, j + 1) \in Nat
              BY <1>1, <5>1
            <7>3. QED
              BY <1>1, <5>1, <7>1, <7>2
          <6>2. CutAt(b, m, k + 1) \in Nat
            BY <1>1, <5>1
          <6>3. QED
            BY <1>2, <3>1, <3>2, <5>1, <6>1, <6>2
        <5>4. QED
          BY <5>2, <5>3
      <4>3. s \in s .. n
        OBVIOUS
      <4>4. QED
        BY <4>1, <4>2, <4>3 DEF EndTogether
    <3>3. CASE ~ (b[k].end > a[s].end)
      <4>1. f[at] = f[after]
        BY <1>2, <2>1, <2>2, <2>5, <3>1, <3>3
      <4>2. k + 1 \in 1 .. m + 1
        BY <3>1
      <4>3. CutAt(b, m, k) < CutAt(b, m, k + 1) /\ CutAt(b, m, k + 1) \in Nat
        BY <1>1, <4>2
      <4>4. a[s].start <= CutAt(b, m, k + 1) /\ CutAt(b, m, k + 1) <= a[s].end
        BY <1>2, <1>5, <2>1, <3>1, <3>3, <4>3
      <4>5. Tells(s, k + 1)
        <5>1. (n + 1 - s) + (m + 1 - (k + 1)) <= i
          BY <1>5
        <5> HIDE DEF Tells
        <5>2. QED
          BY <1>5, <4>2, <5>1
      <4>6. after = <<s, k + 1, CutAt(b, m, k + 1)>>
        BY <3>1
      <4>7. QED
        BY <4>1, <4>4, <4>5, <4>6
    <3>4. QED
      BY <3>2, <3>3
  <2>6. QED
    BY <1>2, <2>1, <2>3, <2>4, <2>5
<1>6. 0 \in T
  <2>1. \A s \in 1 .. n : \A k \in 1 .. m + 1 : ~ ((n + 1 - s) + (m + 1 - k) <= 0)
    OBVIOUS
  <2> HIDE DEF Tells
  <2>2. QED
    BY <2>1
<1>7. ASSUME NEW i \in Nat, i \in T
      PROVE  i + 1 \in T
  <2>1. \A t \in 1 .. n : \A j \in 1 .. m + 1 : (n + 1 - t) + (m + 1 - j) <= i => Tells(t, j)
    <3> HIDE DEF Tells
    <3>1. QED
      BY <1>7
  <2>2. ASSUME NEW s \in 1 .. n, NEW k \in 1 .. m + 1, (n + 1 - s) + (m + 1 - k) <= i + 1
        PROVE  Tells(s, k)
    BY <1>5, <2>1, <2>2
  <2> HIDE DEF Tells
  <2>3. QED
    BY <2>2
<1>8. ASSUME NEW s \in 1 .. n, NEW k \in 1 .. m + 1
      PROVE  Tells(s, k)
  <2> HIDE DEF T, Tells
  <2>1. n + m \in T
    BY <1>6, <1>7, SetInduction
  <2>2. (n + 1 - s) + (m + 1 - k) <= n + m
    OBVIOUS
  <2>3. QED
    BY <2>1, <2>2 DEF T
<1>9. QED
  BY <1>8

(* A solver's blocks tile a layout exactly if they end with it and cut it   *)
(* where it is cut.                                                         *)
LEMMA TilesMean ==
  ASSUME NEW a, NEW n \in Nat \ {0}, Blocks(a, n), Consecutive(a, n),
         NEW b, NEW m \in Nat \ {0}, Blocks(b, m), Consecutive(b, m)
  PROVE  Tiles(a, b) <=> a[n].end = b[m].end /\ Cuts(a) \subseteq Cuts(b)
<1>1. PICK f : /\ \A at \in Walk(n, m) : f[at] = Turn(f, a, b, n, m, at)
               /\ Tiles(a, b) <=> f[<<1, 1, a[1].start>>] = Ok
  BY TilesWalks
<1>2. /\ CutAt(b, m, 1) = 0
      /\ \A k \in 1 .. m : CutAt(b, m, k + 1) = b[k].end /\ b[k].start = CutAt(b, m, k)
  BY CutsAscend
<1>3. /\ \A s \in 1 .. n : a[s].start \in Nat /\ a[s].end \in Nat /\ a[s].start < a[s].end
      /\ a[1].start = 0
      /\ \A s \in 1 .. n - 1 : a[s + 1].start = a[s].end
  BY DEF Blocks, Consecutive
<1>4. Tiles(a, b) <=> EndTogether(a, n, b, m, 1)
  <2>1. 1 \in 1 .. n /\ 1 \in 1 .. m + 1
    OBVIOUS
  <2>2. a[1].start <= CutAt(b, m, 1) /\ CutAt(b, m, 1) <= a[1].end
    BY <1>2, <1>3, <2>1
  <2>3. f[<<1, 1, CutAt(b, m, 1)>>] = Ok <=> EndTogether(a, n, b, m, 1)
    BY <1>1, <2>1, <2>2, WalkTells
  <2>4. QED
    BY <1>1, <1>2, <1>3, <2>3
<1>5. \A x : x \in Cuts(a) <=> \E t \in 1 .. n : x = a[t].start \/ x = a[t].end
  <2>1. \A y : y \in Range(a) <=> \E t \in 1 .. n : y = a[t]
    BY DEF Range, Blocks
  <2>2. QED
    BY <2>1 DEF Cuts
<1>6. \A x : x \in Cuts(b) <=> \E k \in 1 .. m : x = b[k].start \/ x = b[k].end
  <2>1. \A y : y \in Range(b) <=> \E k \in 1 .. m : y = b[k]
    BY DEF Range, Blocks
  <2>2. QED
    BY <2>1 DEF Cuts
<1>7. ASSUME EndTogether(a, n, b, m, 1), NEW x \in Cuts(a)
      PROVE  x \in Cuts(b)
  <2>1. \A t \in 1 .. n : a[t].end \in Cuts(b)
    BY <1>6, <1>7 DEF EndTogether
  <2>2. PICK t \in 1 .. n : x = a[t].start \/ x = a[t].end
    BY <1>5, <1>7
  <2>3. CASE x = a[t].end
    BY <2>1, <2>3
  <2>4. CASE x = a[t].start /\ t = 1
    <3>1. x = b[1].start /\ 1 \in 1 .. m
      BY <1>2, <1>3, <2>4
    <3>2. QED
      BY <1>6, <3>1
  <2>5. CASE x = a[t].start /\ t # 1
    <3>1. t - 1 \in 1 .. n - 1 /\ t - 1 \in 1 .. n /\ (t - 1) + 1 = t
      BY <2>5
    <3>2. a[(t - 1) + 1].start = a[t - 1].end
      BY <1>3, <3>1
    <3>3. QED
      BY <2>1, <2>5, <3>1, <3>2
  <2>6. QED
    BY <2>2, <2>3, <2>4, <2>5
<1>8. ASSUME Cuts(a) \subseteq Cuts(b), NEW t \in 1 .. n
      PROVE  \E k \in 1 .. m : b[k].end = a[t].end
  <2>1. PICK k \in 1 .. m : a[t].end = b[k].start \/ a[t].end = b[k].end
    BY <1>5, <1>6, <1>8
  <2>2. CASE a[t].end = b[k].start
    <3>1. k # 1
      BY <1>2, <1>3, <2>2
    <3>2. k - 1 \in 1 .. m /\ (k - 1) + 1 = k
      BY <3>1
    <3>3. b[k - 1].end = CutAt(b, m, (k - 1) + 1) /\ b[k].start = CutAt(b, m, k)
      BY <1>2, <3>2
    <3>4. QED
      BY <2>2, <3>2, <3>3
  <2>3. QED
    BY <2>1, <2>2
<1>9. QED
  BY <1>4, <1>7, <1>8 DEF EndTogether

(* The tiling conjunct of the property, for a layout's blocks.              *)
LEMMA SolversTile ==
  ASSUME NEW b, NEW m \in Nat \ {0}, Blocks(b, m), Consecutive(b, m), NEW w \in Nat, b[m].end = w,
         NEW n \in Nat \ {0}, NEW lengths \in [1 .. n -> 1 .. w]
  PROVE  Tiles(SolverLayout(lengths), b) <=>
           /\ Last(SolverLayout(lengths)).end = w
           /\ Cuts(SolverLayout(lengths)) \subseteq Cuts(b)
<1>1. lengths \in [1 .. n -> Nat \ {0}]
  OBVIOUS
<1>2. Blocks(SolverLayout(lengths), n) /\ Consecutive(SolverLayout(lengths), n)
  BY <1>1, SolverLayoutConsecutive
<1>3. Last(SolverLayout(lengths)) = SolverLayout(lengths)[n]
  BY <1>2 DEF Last, Blocks
<1>4. QED
  BY <1>2, <1>3, TilesMean

----------------------------------------------------------------------------
(* What a caller hands in, and what a leaf is.                              *)

LEMMA FromBlockSeq ==
  ASSUME NEW blocks, BlockSeq(blocks)
  PROVE  Len(blocks) \in Nat /\ Blocks(blocks, Len(blocks)) /\ (blocks = <<>> <=> Len(blocks) = 0)
<1> DEFINE B == [id : {b.id : b \in Range(blocks)}, start : Nat, end : Nat]
<1>1. blocks \in Seq(B)
  BY DEF BlockSeq
<1>2. \A b \in B : b.start \in Nat /\ b.end \in Nat
  OBVIOUS
<1> HIDE DEF B
<1>3. Len(blocks) \in Nat /\ DOMAIN blocks = 1 .. Len(blocks)
      /\ \A k \in 1 .. Len(blocks) : blocks[k] \in B
  BY <1>1
<1>4. blocks = <<>> <=> Len(blocks) = 0
  BY <1>1
<1>5. QED
  BY <1>2, <1>3, <1>4 DEF Blocks

LEMMA FromPairSeq ==
  ASSUME NEW pairs, PairSeq(pairs)
  PROVE  Len(pairs) \in Nat /\ Pairs(pairs, Len(pairs))
<1> DEFINE P == [semantic : {p.semantic : p \in Range(pairs)}, block : {p.block : p \in Range(pairs)}]
<1>1. pairs \in Seq(P)
  BY DEF PairSeq
<1> HIDE DEF P
<1>2. QED
  BY <1>1 DEF Pairs

(* A layout over the given blocks, and a leaf.                              *)
LaidOut(layout, n) ==
  /\ n \in Nat \ {0}
  /\ Blocks(layout.blocks, n)
  /\ Contiguous(layout.blocks, n)
  /\ layout.width \in Nat
  /\ layout.blocks[n].end = layout.width
  /\ Partitions(layout.blocks, layout.width)

Leaf(leaf) ==
  leaf = [name |-> leaf.name, dimension |-> leaf.dimension, layout |-> leaf.layout,
          binding |-> leaf.binding, operator |-> leaf.operator, source |-> leaf.source,
          kinds |-> leaf.kinds]

(* A leaf over blocks with these ids.                                       *)
RightLeaf(leaf, ids, dimension) ==
  /\ Leaf(leaf)
  /\ \E n : LaidOut(leaf.layout, n)
  /\ leaf.dimension = dimension /\ leaf.layout.width = dimension
  /\ Ids(leaf.layout) = ids

(* Every pair is found again in the binding.                                *)
Looks(binding, pairs) == \A p \in Range(pairs) : SemanticFor(binding, p.block) = p.semantic

LEMMA LaysOut ==
  ASSUME NEW blocks, BlockSeq(blocks)
  PROVE  /\ NewLayout(blocks).reply = Ok <=> Partitioned(blocks)
         /\ NewLayout(blocks).reply = Ok =>
              /\ LaidOut(NewLayout(blocks), Len(blocks))
              /\ Range(NewLayout(blocks).blocks) = Range(blocks)
              /\ Ids(NewLayout(blocks)) = {b.id : b \in Range(blocks)}
         /\ \A w \in Nat : NewLayout(blocks).reply = Ok /\ NewLayout(blocks).width = w <=>
                             blocks # <<>> /\ Partitions(blocks, w)
<1> DEFINE n == Len(blocks)
           layout == NewLayout(blocks)
<1>1. n \in Nat /\ Blocks(blocks, n) /\ (blocks = <<>> <=> n = 0)
  BY FromBlockSeq
<1>2. layout.reply = Ok <=> Partitioned(blocks)
  BY <1>1, LayoutPartitioned
<1>3. layout.reply = Ok => n # 0
  BY <1>1, <1>2 DEF Partitioned
<1>4. ASSUME layout.reply = Ok
      PROVE  /\ LaidOut(layout, n)
             /\ Range(layout.blocks) = Range(blocks)
             /\ Ids(layout) = {b.id : b \in Range(blocks)}
  <2>1. n \in Nat \ {0}
    BY <1>1, <1>3, <1>4
  <2>2. /\ layout.width \in Nat /\ layout.width = layout.blocks[n].end
        /\ Blocks(layout.blocks, n) /\ Contiguous(layout.blocks, n)
        /\ Partitions(layout.blocks, layout.width)
        /\ Range(layout.blocks) = Range(blocks)
    BY <1>1, <1>4, <2>1, LayoutAccepts
  <2> HIDE DEF layout, n
  <2>3. QED
    BY <2>1, <2>2 DEF LaidOut, Ids
<1>5. \A w \in Nat : layout.reply = Ok /\ layout.width = w <=> blocks # <<>> /\ Partitions(blocks, w)
  <2>1. CASE n = 0
    BY <1>1, <1>3, <2>1
  <2>2. CASE n # 0
    <3>1. n \in Nat \ {0} /\ blocks # <<>>
      BY <1>1, <2>2
    <3>2. QED
      BY <1>1, <3>1, LayoutAccepts
  <2>3. QED
    BY <2>1, <2>2
<1>6. QED
  BY <1>2, <1>4, <1>5

LEMMA Binding ==
  ASSUME NEW layout, NEW n, LaidOut(layout, n), NEW pairs, NEW m \in Nat, Pairs(pairs, m)
  PROVE  /\ NewBinding(layout, pairs).reply = Ok <=> Binds(pairs, Ids(layout))
         /\ NewBinding(layout, pairs).reply = Ok =>
              /\ BoundBlocks(NewBinding(layout, pairs)) = Ids(layout)
              /\ Looks(NewBinding(layout, pairs), pairs)
<1>1. n \in Nat /\ Blocks(layout.blocks, n) /\ Contiguous(layout.blocks, n)
  BY DEF LaidOut
<1>2. QED
  BY <1>1, BindingAccepts DEF Looks

LEMMA NewLeafMeans ==
  ASSUME NEW name, NEW operator, NEW layout, NEW n, LaidOut(layout, n), NEW binding
  PROVE  /\ NewLeaf(name, operator, layout, binding).reply = Ok <=>
              /\ name # Blank /\ operator.dimension = layout.width
              /\ Ids(layout) = BoundBlocks(binding)
         /\ NewLeaf(name, operator, layout, binding).reply = Ok =>
              LET leaf == NewLeaf(name, operator, layout, binding).leaf
              IN  /\ NewLeaf(name, operator, layout, binding) = [reply |-> Ok, leaf |-> leaf]
                  /\ RightLeaf(leaf, Ids(layout), layout.width)
                  /\ leaf.layout = layout /\ leaf.binding = binding
<1> DEFINE new == NewLeaf(name, operator, layout, binding)
           made == [name |-> name, dimension |-> operator.dimension, layout |-> layout,
                    binding |-> binding, operator |-> operator, source |-> "Opaque",
                    kinds |-> None]
<1>1. new.reply = Ok <=>
        /\ name # Blank /\ operator.dimension = layout.width
        /\ Ids(layout) = BoundBlocks(binding)
  BY DEF NewLeaf, Ok
<1>2. ASSUME new.reply = Ok PROVE new = [reply |-> Ok, leaf |-> made] /\ made.dimension = layout.width
  BY <1>1, <1>2 DEF NewLeaf
<1>3. Leaf(made)
  BY DEF Leaf
<1>4. made.layout = layout /\ made.binding = binding
  OBVIOUS
<1> HIDE DEF new, made
<1>5. ASSUME new.reply = Ok
      PROVE  /\ new = [reply |-> Ok, leaf |-> new.leaf]
             /\ RightLeaf(new.leaf, Ids(layout), layout.width)
             /\ new.leaf.layout = layout /\ new.leaf.binding = binding
  <2>1. new = [reply |-> Ok, leaf |-> made] /\ new.leaf = made
    BY <1>2, <1>5
  <2>2. RightLeaf(made, Ids(layout), layout.width)
    BY <1>2, <1>3, <1>4, <1>5 DEF RightLeaf
  <2>3. QED
    BY <1>4, <2>1, <2>2
<1>6. QED
  BY <1>1, <1>5 DEF new

----------------------------------------------------------------------------
(* The constructors of a leaf.                                              *)

(* Buildable, as far as the leaf itself goes.                               *)
Constructible(d) ==
  /\ d.name # Blank
  /\ d.via # "reduced" =>
       /\ d.blocks # <<>>
       /\ Partitions(d.blocks, d.operator.dimension)
       /\ d.via = "realization" => d.pairs # None
       /\ Binds(d.pairs, BlockIds(d))
  /\ d.via = "realization" =>
       /\ Len(d.given) = Len(d.blocks)
       /\ Range(d.given) = Range(d.blocks)
       /\ d.mask # None => Len(d.mask) = d.operator.dimension

(* What is built of it.                                                     *)
Made(d, built) ==
  /\ built = [reply |-> Ok, leaf |-> built.leaf]
  /\ RightLeaf(built.leaf, BlockIds(d), d.operator.dimension)
  /\ d.via # "reduced" =>
       /\ Range(built.leaf.layout.blocks) = Range(d.blocks)
       /\ Looks(built.leaf.binding, d.pairs)

LEMMA ConstructsNew ==
  ASSUME NEW d, d.via = "new", d.operator.dimension \in Nat, BlockSeq(d.blocks), PairSeq(d.pairs)
  PROVE  /\ Constructed(d).reply = Ok <=> Constructible(d)
         /\ Constructed(d).reply = Ok => Made(d, Constructed(d))
<1> DEFINE layout == NewLayout(d.blocks)
           binding == NewBinding(layout, d.pairs)
           new == NewLeaf(d.name, d.operator, layout, binding)
<1>1. Constructed(d) = IF layout.reply = Ok THEN IF binding.reply = Ok THEN new ELSE binding
                       ELSE layout
  BY DEF Constructed, Then
<1>2. /\ layout.reply = Ok /\ layout.width = d.operator.dimension <=>
           d.blocks # <<>> /\ Partitions(d.blocks, d.operator.dimension)
      /\ layout.reply = Ok =>
           /\ LaidOut(layout, Len(d.blocks))
           /\ Range(layout.blocks) = Range(d.blocks)
           /\ Ids(layout) = BlockIds(d)
  BY LaysOut DEF BlockIds
<1>3. layout.reply = Ok =>
        /\ binding.reply = Ok <=> Binds(d.pairs, BlockIds(d))
        /\ binding.reply = Ok => BoundBlocks(binding) = Ids(layout) /\ Looks(binding, d.pairs)
  <2> SUFFICES ASSUME layout.reply = Ok
               PROVE  /\ binding.reply = Ok <=> Binds(d.pairs, BlockIds(d))
                      /\ binding.reply = Ok =>
                           BoundBlocks(binding) = Ids(layout) /\ Looks(binding, d.pairs)
    OBVIOUS
  <2>1. LaidOut(layout, Len(d.blocks)) /\ Ids(layout) = BlockIds(d)
    BY <1>2
  <2>2. Len(d.pairs) \in Nat /\ Pairs(d.pairs, Len(d.pairs))
    BY FromPairSeq
  <2> HIDE DEF layout
  <2>3. QED
    BY <2>1, <2>2, Binding
<1>4. layout.reply = Ok =>
        /\ new.reply = Ok <=>
             /\ d.name # Blank /\ d.operator.dimension = layout.width
             /\ Ids(layout) = BoundBlocks(binding)
        /\ new.reply = Ok =>
             /\ new = [reply |-> Ok, leaf |-> new.leaf]
             /\ RightLeaf(new.leaf, Ids(layout), layout.width)
             /\ new.leaf.layout = layout /\ new.leaf.binding = binding
  <2> HIDE DEF layout, binding
  <2>1. QED
    BY <1>2, NewLeafMeans
<1> HIDE DEF layout, binding, new
<1>5. Constructed(d).reply = Ok <=>
        layout.reply = Ok /\ binding.reply = Ok /\ new.reply = Ok
  BY <1>1
<1>6. Constructed(d).reply = Ok <=> Constructible(d)
  BY <1>2, <1>3, <1>4, <1>5 DEF Constructible
<1>7. ASSUME Constructed(d).reply = Ok PROVE Made(d, Constructed(d))
  <2>1. layout.reply = Ok /\ binding.reply = Ok /\ new.reply = Ok /\ Constructed(d) = new
    BY <1>1, <1>5, <1>7
  <2>2. layout.width = d.operator.dimension /\ Ids(layout) = BlockIds(d)
    BY <1>2, <1>4, <2>1
  <2>3. QED
    BY <1>2, <1>3, <1>4, <2>1, <2>2 DEF Made
<1>8. QED
  BY <1>6, <1>7

(* The same blocks in another order.                                        *)
LEMMA SameBlocks ==
  ASSUME NEW s, NEW t, NEW n \in Nat, Blocks(s, n), Blocks(t, n), NEW w \in Nat,
         Range(s) = Range(t), Partitions(t, w)
  PROVE  Partitions(s, w)
<1> DEFINE p == [r \in 1 .. n |-> CHOOSE j \in 1 .. n : t[j] = s[r]]
           q == [j \in 1 .. n |-> CHOOSE r \in 1 .. n : s[r] = t[j]]
           f == [r \in 1 .. n |-> s[r]]
           g == [r \in 1 .. n |-> t[r]]
<1>1. \A x : (\E r \in 1 .. n : x = s[r]) <=> (\E j \in 1 .. n : x = t[j])
  BY DEF Range, Blocks
<1>2. \A r \in 1 .. n : p[r] \in 1 .. n /\ t[p[r]] = s[r]
  <2> TAKE r \in 1 .. n
  <2>1. \E j \in 1 .. n : t[j] = s[r]
    BY <1>1
  <2>2. QED
    BY <2>1
<1>3. \A j \in 1 .. n : q[j] \in 1 .. n /\ s[q[j]] = t[j]
  <2> TAKE j \in 1 .. n
  <2>1. \E r \in 1 .. n : s[r] = t[j]
    BY <1>1
  <2>2. QED
    BY <2>1
<1>4. \A j, k \in 1 .. n : t[j] = t[k] => j = k
  BY PartitionsMeans
<1>5. \A j, k \in 1 .. n : s[j] = s[k] => j = k
  <2>1. Distinct(g, n)
    BY <1>4 DEF Distinct
  <2>2. {f[k] : k \in 1 .. n} = {g[k] : k \in 1 .. n}
    <3>1. \A x : x \in {f[k] : k \in 1 .. n} <=> \E r \in 1 .. n : x = s[r]
      OBVIOUS
    <3>2. \A x : x \in {g[k] : k \in 1 .. n} <=> \E r \in 1 .. n : x = t[r]
      OBVIOUS
    <3> HIDE DEF f, g
    <3>3. QED
      BY <1>1, <3>1, <3>2
  <2>3. f = [k \in 1 .. n |-> f[k]] /\ g = [k \in 1 .. n |-> g[k]]
    OBVIOUS
  <2>4. \A k \in 1 .. n : f[k] = s[k]
    OBVIOUS
  <2> HIDE DEF f, g
  <2>5. Distinct(f, n)
    <3>1. Cardinality({g[k] : k \in 1 .. n}) = n
      BY <2>1, <2>3, ImageCounts
    <3>2. Cardinality({f[k] : k \in 1 .. n}) = n
      BY <2>2, <3>1
    <3>3. QED
      BY <2>3, <3>2, ImageCounts
  <2>6. QED
    BY <2>4, <2>5 DEF Distinct
<1> HIDE DEF p, q
<1>6. Exchange(s, t, n, p, q)
  <2> SUFFICES ASSUME NEW r \in 1 .. n
               PROVE  /\ p[r] \in 1 .. n /\ q[r] \in 1 .. n
                      /\ q[p[r]] = r /\ p[q[r]] = r
                      /\ s[r] = t[p[r]]
    BY DEF Exchange
  <2>1. p[r] \in 1 .. n /\ q[r] \in 1 .. n /\ s[r] = t[p[r]] /\ s[q[r]] = t[r]
    BY <1>2, <1>3
  <2>2. q[p[r]] = r
    <3>1. q[p[r]] \in 1 .. n /\ s[q[p[r]]] = s[r]
      BY <1>3, <2>1
    <3>2. QED
      BY <1>5, <3>1
  <2>3. p[q[r]] = r
    <3>1. p[q[r]] \in 1 .. n /\ t[p[q[r]]] = t[r]
      BY <1>2, <2>1
    <3>2. QED
      BY <1>4, <3>1
  <2>4. QED
    BY <2>1, <2>2, <2>3
<1>7. QED
  BY <1>6, PartitionsCarried

(* Layouts over the same blocks, and only these, are the same.              *)
LEMMA GivenLayout ==
  ASSUME NEW blocks, BlockSeq(blocks), NewLayout(blocks).reply = Ok,
         NEW given, BlockSeq(given)
  PROVE  NewLayout(given).reply = Ok /\ NewLayout(given) = NewLayout(blocks) <=>
           Len(given) = Len(blocks) /\ Range(given) = Range(blocks)
<1> DEFINE n == Len(blocks)
           m == Len(given)
<1>1. /\ n \in Nat /\ Blocks(blocks, n)
      /\ m \in Nat /\ Blocks(given, m) /\ (given = <<>> <=> m = 0)
  BY FromBlockSeq
<1>2. LaidOut(NewLayout(blocks), n)
  BY LaysOut
<1>3. n \in Nat \ {0} /\ NewLayout(blocks).width \in Nat
  BY <1>2 DEF LaidOut
<1>4. Partitions(blocks, NewLayout(blocks).width)
  BY <1>3, LaysOut
<1> HIDE DEF n, m
<1>5. ASSUME NewLayout(given).reply = Ok, NewLayout(given) = NewLayout(blocks)
      PROVE  m = n /\ Range(given) = Range(blocks)
  BY <1>1, <1>3, <1>5, LayoutUnique
<1>6. ASSUME m = n, Range(given) = Range(blocks)
      PROVE  NewLayout(given).reply = Ok /\ NewLayout(given) = NewLayout(blocks)
  <2>1. Partitions(given, NewLayout(blocks).width)
    BY <1>1, <1>3, <1>4, <1>6, SameBlocks
  <2>2. NewLayout(given).reply = Ok
    BY <1>1, <1>3, <1>6, <2>1, LaysOut
  <2>3. QED
    BY <1>1, <1>3, <1>6, <2>2, LayoutUnique
<1>7. QED
  BY <1>5, <1>6 DEF n, m

LEMMA ConstructsRealization ==
  ASSUME NEW d, d.via = "realization", d.operator.dimension \in Nat,
         BlockSeq(d.blocks), BlockSeq(d.given),
         d.pairs # None => PairSeq(d.pairs),
         d.pairs # None /\ NewLayout(d.blocks).reply = Ok =>
           NewBinding(NewLayout(d.blocks), d.pairs) # None
  PROVE  /\ Constructed(d).reply = Ok <=> Constructible(d)
         /\ Constructed(d).reply = Ok => Made(d, Constructed(d))
<1> DEFINE layout == NewLayout(d.blocks)
           found == IF d.pairs = None THEN [reply |-> Ok] ELSE NewBinding(layout, d.pairs)
           bound == IF d.pairs = None THEN None ELSE found
           coupled == NewCoupledOperator(d.operator, layout, bound, d.mask)
           given == NewLayout(d.given)
           new == RealizationLeaf(d.name, coupled.operator, given)
<1>1. Constructed(d) =
        IF layout.reply = Ok
        THEN IF found.reply = Ok
             THEN IF coupled.reply = Ok
                  THEN IF given.reply = Ok THEN new ELSE given
                  ELSE coupled
             ELSE found
        ELSE layout
  BY DEF Constructed, Then
<1>2. /\ layout.reply = Ok /\ layout.width = d.operator.dimension <=>
           d.blocks # <<>> /\ Partitions(d.blocks, d.operator.dimension)
      /\ layout.reply = Ok =>
           /\ LaidOut(layout, Len(d.blocks))
           /\ Range(layout.blocks) = Range(d.blocks)
           /\ Ids(layout) = BlockIds(d)
  BY LaysOut DEF BlockIds
<1>3. layout.reply = Ok /\ d.pairs # None =>
        /\ found.reply = Ok <=> Binds(d.pairs, BlockIds(d))
        /\ found.reply = Ok => BoundBlocks(found) = Ids(layout) /\ Looks(found, d.pairs)
        /\ found # None /\ bound = found
  <2> SUFFICES ASSUME layout.reply = Ok, d.pairs # None
               PROVE  /\ found.reply = Ok <=> Binds(d.pairs, BlockIds(d))
                      /\ found.reply = Ok =>
                           BoundBlocks(found) = Ids(layout) /\ Looks(found, d.pairs)
                      /\ found # None /\ bound = found
    OBVIOUS
  <2>1. LaidOut(layout, Len(d.blocks)) /\ Ids(layout) = BlockIds(d)
    BY <1>2
  <2>2. Len(d.pairs) \in Nat /\ Pairs(d.pairs, Len(d.pairs))
    BY FromPairSeq
  <2>3. found = NewBinding(layout, d.pairs) /\ found # None /\ bound = found
    OBVIOUS
  <2> HIDE DEF layout, found, bound
  <2>4. QED
    BY <2>1, <2>2, <2>3, Binding
<1>4. d.pairs = None => found.reply = Ok /\ bound = None
  OBVIOUS
<1>5. layout.reply = Ok /\ found.reply = Ok =>
        /\ coupled.reply = Ok <=>
             /\ d.operator.dimension = layout.width
             /\ d.mask # None => Len(d.mask) = d.operator.dimension
        /\ coupled.reply = Ok =>
             /\ coupled.operator.dimension = d.operator.dimension
             /\ coupled.operator.layout = layout /\ coupled.operator.binding = bound
             /\ coupled.operator.kinds = d.mask
  <2> SUFFICES ASSUME layout.reply = Ok, found.reply = Ok
               PROVE  /\ coupled.reply = Ok <=>
                           /\ d.operator.dimension = layout.width
                           /\ d.mask # None => Len(d.mask) = d.operator.dimension
                      /\ coupled.reply = Ok =>
                           /\ coupled.operator.dimension = d.operator.dimension
                           /\ coupled.operator.layout = layout
                           /\ coupled.operator.binding = bound
                           /\ coupled.operator.kinds = d.mask
    OBVIOUS
  <2>1. ~ (bound # None /\ Ids(layout) # BoundBlocks(bound))
    BY <1>3, <1>4
  <2> HIDE DEF layout, found, bound
  <2>2. coupled = IF d.operator.dimension # layout.width THEN [reply |-> "InvalidCoupling"]
                  ELSE IF d.mask # None /\ Len(d.mask) # d.operator.dimension
                       THEN [reply |-> "ConsistentInitializationMaskLength"]
                  ELSE [reply |-> Ok,
                        operator |-> [dimension |-> d.operator.dimension,
                                      digest |-> d.operator.digest,
                                      stores |-> d.operator.stores,
                                      vertices |-> d.operator.vertices, diagonal |-> FALSE,
                                      layout |-> layout, binding |-> bound, kinds |-> d.mask]]
    BY <2>1 DEF NewCoupledOperator
  <2> HIDE DEF coupled
  <2>3. QED
    BY <2>2 DEF Ok
<1>6. layout.reply = Ok =>
        (given.reply = Ok /\ given = layout <=>
           Len(d.given) = Len(d.blocks) /\ Range(d.given) = Range(d.blocks))
  BY GivenLayout
<1>7. layout.reply = Ok /\ found.reply = Ok /\ coupled.reply = Ok =>
        /\ new.reply = Ok <=> d.pairs # None /\ given = layout /\ d.name # Blank
        /\ new.reply = Ok =>
             /\ new = [reply |-> Ok, leaf |-> new.leaf]
             /\ RightLeaf(new.leaf, Ids(layout), layout.width)
             /\ new.leaf.layout = layout /\ new.leaf.binding = bound
  <2> DEFINE inner == NewLeaf(d.name, coupled.operator, layout, bound)
             made == [inner EXCEPT !.leaf.source = "Realization", !.leaf.kinds = d.mask]
  <2> SUFFICES ASSUME layout.reply = Ok, found.reply = Ok, coupled.reply = Ok
               PROVE  /\ new.reply = Ok <=> d.pairs # None /\ given = layout /\ d.name # Blank
                      /\ new.reply = Ok =>
                           /\ new = [reply |-> Ok, leaf |-> new.leaf]
                           /\ RightLeaf(new.leaf, Ids(layout), layout.width)
                           /\ new.leaf.layout = layout /\ new.leaf.binding = bound
    OBVIOUS
  <2>1. /\ coupled.operator.dimension = layout.width
        /\ coupled.operator.layout = layout /\ coupled.operator.binding = bound
        /\ coupled.operator.kinds = d.mask
    BY <1>5
  <2>2. bound = None <=> d.pairs = None
    BY <1>2, <1>3, <1>4
  <2>3. d.pairs # None => Ids(layout) = BoundBlocks(bound)
    BY <1>3
  <2>4. LaidOut(layout, Len(d.blocks))
    BY <1>2
  <2> HIDE DEF layout, found, bound, coupled, given
  <2>5. /\ inner.reply = Ok <=>
             /\ d.name # Blank /\ coupled.operator.dimension = layout.width
             /\ Ids(layout) = BoundBlocks(bound)
        /\ inner.reply = Ok =>
             /\ inner = [reply |-> Ok, leaf |-> inner.leaf]
             /\ RightLeaf(inner.leaf, Ids(layout), layout.width)
             /\ inner.leaf.layout = layout /\ inner.leaf.binding = bound
    BY <2>4, NewLeafMeans
  <2>6. new = IF bound = None \/ given # layout THEN [reply |-> "InvalidCoupling"]
              ELSE IF inner.reply = Ok THEN made ELSE inner
    BY <2>1 DEF RealizationLeaf, Then
  <2>7. ASSUME inner.reply = Ok
        PROVE  /\ made = [reply |-> Ok, leaf |-> made.leaf]
               /\ RightLeaf(made.leaf, Ids(layout), layout.width)
               /\ made.leaf.layout = layout /\ made.leaf.binding = bound
    <3> DEFINE l == inner.leaf
               marked == [name |-> l.name, dimension |-> l.dimension, layout |-> l.layout,
                          binding |-> l.binding, operator |-> l.operator,
                          source |-> "Realization", kinds |-> d.mask]
    <3>1. /\ inner = [reply |-> Ok, leaf |-> l]
          /\ l = [name |-> l.name, dimension |-> l.dimension, layout |-> l.layout,
                  binding |-> l.binding, operator |-> l.operator, source |-> l.source,
                  kinds |-> l.kinds]
          /\ RightLeaf(l, Ids(layout), layout.width)
          /\ l.layout = layout /\ l.binding = bound
      BY <2>5, <2>7 DEF RightLeaf, Leaf
    <3> HIDE DEF inner, l
    <3>2. made = [reply |-> Ok, leaf |-> marked]
      <4> DEFINE first == [l EXCEPT !.source = "Realization"]
      <4>1. first = [name |-> l.name, dimension |-> l.dimension, layout |-> l.layout,
                     binding |-> l.binding, operator |-> l.operator, source |-> "Realization",
                     kinds |-> l.kinds]
        BY <3>1
      <4>2. [first EXCEPT !.kinds = d.mask] = marked
        <5> HIDE DEF first
        <5>1. QED
          BY <4>1
      <4>3. [inner EXCEPT !.leaf.source = "Realization"] = [reply |-> Ok, leaf |-> first]
        BY <3>1
      <4>4. made = [[inner EXCEPT !.leaf.source = "Realization"] EXCEPT !.leaf.kinds = d.mask]
        OBVIOUS
      <4> HIDE DEF first, made, marked
      <4>5. QED
        BY <4>2, <4>3, <4>4
    <3>3. RightLeaf(marked, Ids(layout), layout.width)
      BY <3>1 DEF RightLeaf, Leaf
    <3>4. marked.layout = layout /\ marked.binding = bound
      BY <3>1
    <3> HIDE DEF made, marked
    <3>5. QED
      BY <3>2, <3>3, <3>4
  <2> HIDE DEF new, inner, made
  <2>8. QED
    BY <2>1, <2>2, <2>3, <2>5, <2>6, <2>7 DEF Ok
<1> HIDE DEF layout, found, bound, coupled, given, new
<1>8. Constructed(d).reply = Ok <=>
        layout.reply = Ok /\ found.reply = Ok /\ coupled.reply = Ok /\ given.reply = Ok /\ new.reply = Ok
  BY <1>1
<1>9. Constructed(d).reply = Ok <=> Constructible(d)
  BY <1>2, <1>3, <1>4, <1>5, <1>6, <1>7, <1>8 DEF Constructible
<1>10. ASSUME Constructed(d).reply = Ok PROVE Made(d, Constructed(d))
  <2>1. /\ layout.reply = Ok /\ found.reply = Ok /\ coupled.reply = Ok /\ new.reply = Ok
        /\ Constructed(d) = new
    BY <1>1, <1>8, <1>10
  <2>2. /\ layout.width = d.operator.dimension /\ Ids(layout) = BlockIds(d)
        /\ bound = found /\ Looks(found, d.pairs)
    BY <1>2, <1>3, <1>5, <1>7, <2>1
  <2>3. QED
    BY <1>2, <1>7, <2>1, <2>2 DEF Made
<1>11. QED
  BY <1>9, <1>10

(* Ids and semantic ids in their order, both without duplicates, bind.      *)
LEMMA BindsAll ==
  ASSUME NEW layout, NEW n, LaidOut(layout, n), NEW pairs, Pairs(pairs, n),
         Distinct(SemanticsOf(pairs, n), n),
         {p.block : p \in Range(pairs)} = Ids(layout)
  PROVE  /\ NewBinding(layout, pairs).reply = Ok
         /\ BoundBlocks(NewBinding(layout, pairs)) = Ids(layout)
         /\ Looks(NewBinding(layout, pairs), pairs)
<1>1. n \in Nat /\ Cardinality(Ids(layout)) = n /\ Len(pairs) = n
  BY IdsCount DEF LaidOut, Pairs
<1>2. Cardinality({SemanticsOf(pairs, n)[k] : k \in 1 .. n}) = n
  <2>1. SemanticsOf(pairs, n) = [k \in 1 .. n |-> SemanticsOf(pairs, n)[k]]
    BY DEF SemanticsOf
  <2>2. QED
    BY <1>1, <2>1, ImageCounts
<1>3. {p.semantic : p \in Range(pairs)} = {SemanticsOf(pairs, n)[k] : k \in 1 .. n}
  BY <1>1, PairSets
<1>4. Binds(pairs, Ids(layout))
  BY <1>1, <1>2, <1>3 DEF Binds
<1>5. QED
  BY <1>1, <1>4, Binding

NamedRange(b) == b = [id |-> b.id, start |-> b.start, end |-> b.end]

(* block_state_layout of a product space makes a block for every field and  *)
(* binds it to the field's variable.                                        *)
LEMMA FieldsLaidOut ==
  ASSUME NEW fields, NEW w \in Nat, ProductSpace(fields, w), NEW name, Distinguishes(name, fields)
  PROVE  LET built == BlockStateLayout(fields)
         IN  /\ built.reply = Ok
             /\ LaidOut(built.layout, Len(fields)) /\ built.layout.width = w
             /\ Ids(built.layout) = {FieldBlock(f.variable) : f \in Range(fields)}
             /\ \A b \in Range(built.layout.blocks) : NamedRange(b)
             /\ \A f \in Range(fields) :
                  SemanticFor(built.binding, FieldBlock(f.variable)) = f.variable
<1> DEFINE n == Len(fields)
           blocks == [k \in 1 .. n |-> [id |-> FieldBlock(fields[k].variable),
                                        start |-> fields[k].offset,
                                        end |-> fields[k].offset + fields[k].extent]]
           pairs == [k \in 1 .. n |-> [semantic |-> fields[k].variable,
                                       block |-> FieldBlock(fields[k].variable)]]
           layout == NewLayout(blocks)
           binding == NewBinding(layout, pairs)
           F == [variable : {f.variable : f \in Range(fields)}, offset : Nat, extent : Nat \ {0}]
<1>1. /\ fields \in Seq(F) /\ fields # <<>>
      /\ \A j, k \in 1 .. n : fields[j].variable = fields[k].variable => j = k
      /\ fields[1].offset = 0
      /\ \A k \in 1 .. n - 1 : fields[k + 1].offset = fields[k].offset + fields[k].extent
      /\ fields[n].offset + fields[n].extent = w
  BY DEF ProductSpace
<1>2. \A f \in F : f.offset \in Nat /\ f.extent \in Nat \ {0}
  OBVIOUS
<1> HIDE DEF F
<1>3. /\ n \in Nat \ {0} /\ DOMAIN fields = 1 .. n
      /\ \A k \in 1 .. n : fields[k].offset \in Nat /\ fields[k].extent \in Nat \ {0}
  BY <1>1, <1>2
<1>4. \A f : f \in Range(fields) <=> \E k \in 1 .. n : f = fields[k]
  BY <1>3 DEF Range
<1>5. \A j, k \in 1 .. n : FieldBlock(fields[j].variable) = FieldBlock(fields[k].variable) => j = k
  BY <1>1, <1>4 DEF Distinguishes
<1>6. \A k \in 1 .. n : FieldBlock(fields[k].variable) # Blank
  BY <1>4 DEF Distinguishes
<1>7. DOMAIN blocks = 1 .. n /\ Len(blocks) = n /\ DOMAIN pairs = 1 .. n /\ Len(pairs) = n
  BY <1>3
<1>8. \A k \in 1 .. n :
        /\ blocks[k].id = FieldBlock(fields[k].variable) /\ blocks[k].start = fields[k].offset
        /\ blocks[k].end = fields[k].offset + fields[k].extent
        /\ pairs[k].semantic = fields[k].variable
        /\ pairs[k].block = FieldBlock(fields[k].variable)
  OBVIOUS
<1>8a. \A k \in 1 .. n : NamedRange(blocks[k])
  BY DEF NamedRange
<1>9. BlockStateLayout(fields) = IF layout.reply = Ok
                                 THEN IF binding.reply = Ok
                                      THEN [reply |-> Ok, layout |-> layout, binding |-> binding]
                                      ELSE binding
                                 ELSE layout
  BY DEF BlockStateLayout, Then
<1> HIDE DEF blocks, pairs, n
<1>10. Blocks(blocks, n)
  <2> SUFFICES ASSUME NEW k \in 1 .. n PROVE blocks[k].start \in Nat /\ blocks[k].end \in Nat
    BY <1>7 DEF Blocks
  <2>1. fields[k].offset \in Nat /\ fields[k].extent \in Nat
    BY <1>3
  <2>2. blocks[k].start = fields[k].offset /\ blocks[k].end = fields[k].offset + fields[k].extent
    BY <1>8
  <2>3. QED
    BY <2>1, <2>2
<1>11. Contiguous(blocks, n)
  <2>1. \A k \in 1 .. n : blocks[k].id # Blank /\ blocks[k].start < blocks[k].end
    BY <1>3, <1>6, <1>8
  <2>2. \A j, k \in 1 .. n : blocks[j].id = blocks[k].id => j = k
    BY <1>5, <1>8
  <2>3. blocks[1].start = 0
    <3>1. 1 \in 1 .. n
      BY <1>3
    <3>2. QED
      BY <1>1, <1>8, <3>1
  <2>4. \A k \in 1 .. n - 1 : blocks[k + 1].start = blocks[k].end
    <3> TAKE k \in 1 .. n - 1
    <3>1. k \in 1 .. n /\ k + 1 \in 1 .. n
      BY <1>3
    <3>2. QED
      BY <1>1, <1>8, <3>1
  <2>5. QED
    BY <2>1, <2>2, <2>3, <2>4 DEF Contiguous, Consecutive
<1>12. Partitions(blocks, w)
  <2>1. n \in 1 .. n
    BY <1>3
  <2>2. blocks[n].end = w
    BY <1>1, <1>8, <2>1
  <2>3. QED
    BY <1>3, <1>10, <1>11, <2>2, ContiguousPartitions
<1>13. /\ layout.reply = Ok /\ layout.width = w
       /\ LaidOut(layout, n) /\ Range(layout.blocks) = Range(blocks)
  <2>1. layout.reply = Ok /\ layout.width = w
    BY <1>3, <1>10, <1>12, LayoutAccepts
  <2>2. /\ layout.width \in Nat /\ layout.width = layout.blocks[n].end
        /\ Blocks(layout.blocks, n) /\ Contiguous(layout.blocks, n)
        /\ Partitions(layout.blocks, layout.width)
        /\ Range(layout.blocks) = Range(blocks)
    BY <1>3, <1>10, <2>1, LayoutAccepts
  <2>3. QED
    BY <1>3, <2>1, <2>2 DEF LaidOut
<1> HIDE DEF layout, binding
<1>14. \A b : b \in Range(layout.blocks) <=> \E k \in 1 .. n : b = blocks[k]
  BY <1>7, <1>13 DEF Range
<1>15. Ids(layout) = {FieldBlock(f.variable) : f \in Range(fields)}
  <2>1. \A id : id \in Ids(layout) <=> \E k \in 1 .. n : id = FieldBlock(fields[k].variable)
    BY <1>8, <1>14 DEF Ids
  <2>2. \A id : id \in {FieldBlock(f.variable) : f \in Range(fields)} <=>
                \E k \in 1 .. n : id = FieldBlock(fields[k].variable)
    BY <1>4
  <2>3. QED
    BY <2>1, <2>2
<1>16. \A p : p \in Range(pairs) <=> \E k \in 1 .. n : p = pairs[k]
  BY <1>7 DEF Range
<1>17. {p.block : p \in Range(pairs)} = Ids(layout)
  <2>1. \A id : id \in {p.block : p \in Range(pairs)} <=>
                \E k \in 1 .. n : id = FieldBlock(fields[k].variable)
    BY <1>8, <1>16
  <2>2. \A id : id \in Ids(layout) <=> \E k \in 1 .. n : id = FieldBlock(fields[k].variable)
    BY <1>8, <1>14 DEF Ids
  <2>3. QED
    BY <2>1, <2>2
<1>18. Distinct(SemanticsOf(pairs, n), n)
  BY <1>1, <1>8 DEF Distinct, SemanticsOf, n
<1>19. binding.reply = Ok /\ Looks(binding, pairs)
  <2>1. Pairs(pairs, n)
    BY <1>7 DEF Pairs
  <2>2. QED
    BY <1>13, <1>17, <1>18, <2>1, BindsAll DEF binding
<1>20. ASSUME NEW f \in Range(fields)
       PROVE  SemanticFor(binding, FieldBlock(f.variable)) = f.variable
  <2>1. PICK k \in 1 .. n : f = fields[k]
    BY <1>4
  <2>2. pairs[k] \in Range(pairs)
    BY <1>16
  <2>3. SemanticFor(binding, pairs[k].block) = pairs[k].semantic
    BY <1>19, <2>2 DEF Looks
  <2>4. QED
    BY <1>8, <2>1, <2>3
<1>21. \A b \in Range(layout.blocks) : NamedRange(b)
  BY <1>8a, <1>14
<1>22. BlockStateLayout(fields) = [reply |-> Ok, layout |-> layout, binding |-> binding]
  BY <1>9, <1>13, <1>19
<1>23. /\ BlockStateLayout(fields).reply = Ok
       /\ BlockStateLayout(fields).layout = layout
       /\ BlockStateLayout(fields).binding = binding
  BY <1>22
<1>24. QED
  BY <1>13, <1>15, <1>20, <1>21, <1>23 DEF n

(* CoupledLeaf::reduced_system refuses nothing but a blank name.            *)
LEMMA ConstructsReduced ==
  ASSUME NEW d, d.via = "reduced", d.operator.dimension \in Nat,
         ProductSpace(d.operator.fields, d.operator.dimension),
         Distinguishes(d.name, d.operator.fields)
  PROVE  /\ Constructed(d).reply = Ok <=> Constructible(d)
         /\ Constructed(d).reply = Ok => Made(d, Constructed(d))
<1> DEFINE fields == BlockStateLayout(d.operator.fields)
           n == Len(d.operator.fields)
           w == d.operator.dimension
           own == fields.layout.blocks
           blocks == [j \in DOMAIN own |-> [own[j] EXCEPT !.id = Prefixed(d.name, @)]]
           pairs == [j \in DOMAIN own |-> [semantic |-> SemanticFor(fields.binding, own[j].id),
                                           block |-> blocks[j].id]]
           layout == NewLayout(blocks)
           binding == NewBinding(layout, pairs)
           new == NewLeaf(d.name, d.operator, layout, binding)
           made == [new EXCEPT !.leaf.source = "ReducedSystem"]
<1>1. /\ fields.reply = Ok
      /\ LaidOut(fields.layout, n) /\ fields.layout.width = w
      /\ Ids(fields.layout) = {FieldBlock(f.variable) : f \in Range(d.operator.fields)}
      /\ \A b \in Range(own) : NamedRange(b)
      /\ \A f \in Range(d.operator.fields) :
           SemanticFor(fields.binding, FieldBlock(f.variable)) = f.variable
  BY FieldsLaidOut
<1>2. Constructed(d) = IF fields.reply = Ok
                       THEN IF layout.reply = Ok
                            THEN IF binding.reply = Ok
                                 THEN IF new.reply = Ok THEN made ELSE new
                                 ELSE binding
                            ELSE layout
                       ELSE fields
  BY DEF Constructed, ReducedLeaf, Then
<1> HIDE DEF fields, n, w
<1>3. /\ n \in Nat \ {0} /\ w \in Nat
      /\ DOMAIN own = 1 .. n /\ Len(own) = n
      /\ \A k \in 1 .. n : own[k].start \in Nat /\ own[k].end \in Nat
      /\ own[n].end = w
      /\ Contiguous(own, n)
  BY <1>1 DEF LaidOut, Blocks, w
<1> HIDE DEF own
<1>4. \A b : b \in Range(own) <=> \E k \in 1 .. n : b = own[k]
  BY <1>3 DEF Range
<1>5. DOMAIN blocks = 1 .. n /\ Len(blocks) = n /\ DOMAIN pairs = 1 .. n /\ Len(pairs) = n
  BY <1>3
<1>6. ASSUME NEW k \in 1 .. n
      PROVE  /\ blocks[k].id = Prefixed(d.name, own[k].id)
             /\ blocks[k].start = own[k].start /\ blocks[k].end = own[k].end
             /\ pairs[k].semantic = SemanticFor(fields.binding, own[k].id)
             /\ pairs[k].block = blocks[k].id
  <2>1. own[k] = [id |-> own[k].id, start |-> own[k].start, end |-> own[k].end]
    BY <1>1, <1>4 DEF NamedRange, own
  <2>2. blocks[k] = [own[k] EXCEPT !.id = Prefixed(d.name, @)]
    BY <1>3
  <2>3. pairs[k] = [semantic |-> SemanticFor(fields.binding, own[k].id), block |-> blocks[k].id]
    BY <1>3
  <2> HIDE DEF blocks, pairs
  <2>4. QED
    BY <2>1, <2>2, <2>3
<1> HIDE DEF blocks, pairs
<1>7. ASSUME NEW k \in 1 .. n
      PROVE  \E f \in Range(d.operator.fields) :
               own[k].id = FieldBlock(f.variable) /\ pairs[k].semantic = f.variable
  <2>1. own[k].id \in Ids(fields.layout)
    BY <1>4 DEF Ids, own
  <2>2. PICK f \in Range(d.operator.fields) : own[k].id = FieldBlock(f.variable)
    BY <1>1, <2>1
  <2>3. QED
    BY <1>1, <1>6, <2>2
<1>8. ASSUME NEW j \in 1 .. n, NEW k \in 1 .. n,
             blocks[j].id = blocks[k].id \/ pairs[j].semantic = pairs[k].semantic
      PROVE  j = k
  <2>1. PICK f \in Range(d.operator.fields) :
          own[j].id = FieldBlock(f.variable) /\ pairs[j].semantic = f.variable
    BY <1>7
  <2>2. PICK g \in Range(d.operator.fields) :
          own[k].id = FieldBlock(g.variable) /\ pairs[k].semantic = g.variable
    BY <1>7
  <2>3. f.variable = g.variable
    BY <1>6, <1>8, <2>1, <2>2 DEF Distinguishes
  <2>4. own[j].id = own[k].id
    BY <2>1, <2>2, <2>3
  <2>5. QED
    BY <1>3, <2>4 DEF Contiguous
<1>9. Blocks(blocks, n)
  BY <1>3, <1>5, <1>6 DEF Blocks
<1>10. Contiguous(blocks, n)
  <2>1. \A k \in 1 .. n : blocks[k].id # Blank
    BY <1>6, <1>7 DEF Distinguishes
  <2>2. \A j, k \in 1 .. n : blocks[j].id = blocks[k].id => j = k
    BY <1>8
  <2>3. Consecutive(own, n)
    BY <1>3 DEF Contiguous
  <2>4. \A k \in 1 .. n : blocks[k].start < blocks[k].end
    BY <1>6, <2>3 DEF Consecutive
  <2>5. blocks[1].start = 0
    <3>1. 1 \in 1 .. n
      BY <1>3
    <3>2. QED
      BY <1>6, <2>3, <3>1 DEF Consecutive
  <2>6. ASSUME NEW k \in 1 .. n - 1 PROVE blocks[k + 1].start = blocks[k].end
    <3>1. k \in 1 .. n /\ k + 1 \in 1 .. n
      BY <1>3
    <3>2. QED
      BY <1>6, <2>3, <3>1 DEF Consecutive
  <2>7. QED
    BY <2>1, <2>2, <2>4, <2>5, <2>6 DEF Contiguous, Consecutive
<1>11. /\ layout.reply = Ok /\ layout.width = w
       /\ LaidOut(layout, n) /\ Range(layout.blocks) = Range(blocks)
  <2>1. Partitions(blocks, w)
    <3>1. n \in 1 .. n
      BY <1>3
    <3>2. blocks[n].end = w
      BY <1>3, <1>6, <3>1
    <3>3. QED
      BY <1>3, <1>9, <1>10, <3>2, ContiguousPartitions
  <2>2. layout.reply = Ok /\ layout.width = w
    BY <1>3, <1>9, <2>1, LayoutAccepts
  <2>3. /\ layout.width \in Nat /\ layout.width = layout.blocks[n].end
        /\ Blocks(layout.blocks, n) /\ Contiguous(layout.blocks, n)
        /\ Partitions(layout.blocks, layout.width)
        /\ Range(layout.blocks) = Range(blocks)
    BY <1>3, <1>9, <2>2, LayoutAccepts
  <2>4. QED
    BY <1>3, <2>2, <2>3 DEF LaidOut
<1> HIDE DEF layout, binding
<1>12. \A b : b \in Range(blocks) <=> \E k \in 1 .. n : b = blocks[k]
  BY <1>5 DEF Range
<1>13. \A id : id \in Ids(layout) <=> \E k \in 1 .. n : id = blocks[k].id
  BY <1>11, <1>12 DEF Ids
<1>14. Ids(layout) = BlockIds(d)
  <2>1. ASSUME NEW id \in Ids(layout) PROVE id \in BlockIds(d)
    <3>1. PICK k \in 1 .. n : id = blocks[k].id
      BY <1>13, <2>1
    <3>2. PICK f \in Range(d.operator.fields) : own[k].id = FieldBlock(f.variable)
      BY <1>7
    <3>3. QED
      BY <1>6, <3>1, <3>2 DEF BlockIds
  <2>2. ASSUME NEW f \in Range(d.operator.fields)
        PROVE  Prefixed(d.name, FieldBlock(f.variable)) \in Ids(layout)
    <3>1. FieldBlock(f.variable) \in Ids(fields.layout)
      BY <1>1
    <3>2. PICK k \in 1 .. n : FieldBlock(f.variable) = own[k].id
      BY <1>4, <3>1 DEF Ids, own
    <3>3. QED
      BY <1>6, <1>13, <3>2
  <2>3. QED
    BY <2>1, <2>2 DEF BlockIds
<1>15. binding.reply = Ok /\ BoundBlocks(binding) = Ids(layout)
  <2>1. Pairs(pairs, n)
    BY <1>5 DEF Pairs
  <2>2. Distinct(SemanticsOf(pairs, n), n)
    BY <1>8 DEF Distinct, SemanticsOf
  <2>3. {p.block : p \in Range(pairs)} = Ids(layout)
    <3>1. \A p : p \in Range(pairs) <=> \E k \in 1 .. n : p = pairs[k]
      BY <1>5 DEF Range
    <3>2. \A id : id \in {p.block : p \in Range(pairs)} <=> \E k \in 1 .. n : id = pairs[k].block
      BY <3>1
    <3>3. QED
      BY <1>6, <1>13, <3>2
  <2>4. QED
    BY <1>11, <2>1, <2>2, <2>3, BindsAll DEF binding
<1>16. /\ new.reply = Ok <=> d.name # Blank
       /\ new.reply = Ok =>
            /\ new = [reply |-> Ok, leaf |-> new.leaf]
            /\ RightLeaf(new.leaf, BlockIds(d), w)
  BY <1>11, <1>14, <1>15, NewLeafMeans DEF w
<1>17. ASSUME new.reply = Ok
       PROVE  made = [reply |-> Ok, leaf |-> made.leaf] /\ RightLeaf(made.leaf, BlockIds(d), w)
  <2> DEFINE l == new.leaf
             marked == [name |-> l.name, dimension |-> l.dimension, layout |-> l.layout,
                        binding |-> l.binding, operator |-> l.operator,
                        source |-> "ReducedSystem", kinds |-> l.kinds]
  <2>1. /\ new = [reply |-> Ok, leaf |-> l]
        /\ l = [name |-> l.name, dimension |-> l.dimension, layout |-> l.layout,
                binding |-> l.binding, operator |-> l.operator, source |-> l.source,
                kinds |-> l.kinds]
        /\ RightLeaf(l, BlockIds(d), w)
    BY <1>16, <1>17 DEF RightLeaf, Leaf
  <2> HIDE DEF new, l
  <2>2. made = [reply |-> Ok, leaf |-> marked]
    <3>1. [l EXCEPT !.source = "ReducedSystem"] = marked
      BY <2>1
    <3>2. made = [reply |-> Ok, leaf |-> [l EXCEPT !.source = "ReducedSystem"]]
      BY <2>1
    <3>3. QED
      BY <3>1, <3>2
  <2>3. RightLeaf(marked, BlockIds(d), w)
    BY <2>1 DEF RightLeaf, Leaf
  <2> HIDE DEF made, marked
  <2>4. QED
    BY <2>2, <2>3
<1> HIDE DEF new, made
<1>18. /\ new.reply = Ok => Constructed(d) = made
       /\ new.reply # Ok => Constructed(d) = new
  BY <1>1, <1>2, <1>11, <1>15
<1>19. Constructed(d).reply = Ok <=> d.name # Blank
  BY <1>16, <1>17, <1>18
<1>20. Constructible(d) <=> d.name # Blank
  BY DEF Constructible
<1>21. ASSUME Constructed(d).reply = Ok PROVE Made(d, Constructed(d))
  BY <1>16, <1>17, <1>18, <1>19, <1>21 DEF Made, w
<1>22. QED
  BY <1>19, <1>20, <1>21

----------------------------------------------------------------------------
(* A declaration: the constructors, another binding, the row kinds.         *)

LEMMA Constructs ==
  ASSUME NEW d, Declarable(d)
  PROVE  /\ Constructed(d).reply = Ok <=> Constructible(d)
         /\ Constructed(d).reply = Ok => Made(d, Constructed(d))
<1>1. CASE d.via = "new"
  BY <1>1, ConstructsNew DEF Declarable
<1>2. CASE d.via = "realization"
  BY <1>2, ConstructsRealization DEF Declarable
<1>3. CASE d.via = "reduced"
  BY <1>3, ConstructsReduced DEF Declarable
<1>4. QED
  BY <1>1, <1>2, <1>3 DEF Declarable

Rebindable(d) ==
  d.rebind # None =>
    /\ Partitioned(d.rebind.blocks)
    /\ {b.id : b \in Range(d.rebind.blocks)} = BlockIds(d)
    /\ Binds(d.rebind.pairs, BlockIds(d))

(* The leaf of the one is the leaf of the other, but for what it is bound   *)
(* to and the kinds of its rows.                                            *)
Rebuilt(d, built, leaf) ==
  /\ built = [reply |-> Ok, leaf |-> built.leaf]
  /\ RightLeaf(built.leaf, BlockIds(d), d.operator.dimension)
  /\ built.leaf.layout = leaf.layout

Rebound(d, built) ==
  IF d.rebind = None THEN built
  ELSE IF NewLayout(d.rebind.blocks).reply = Ok
       THEN IF NewBinding(NewLayout(d.rebind.blocks), d.rebind.pairs).reply = Ok
            THEN WithBinding(built.leaf, NewBinding(NewLayout(d.rebind.blocks), d.rebind.pairs))
            ELSE NewBinding(NewLayout(d.rebind.blocks), d.rebind.pairs)
       ELSE NewLayout(d.rebind.blocks)

Marked(d, built) == IF d.kinds = None THEN built ELSE WithRowKinds(built.leaf, d.kinds)

LEMMA Rebinds ==
  ASSUME NEW d, Declarable(d), NEW built, Rebuilt(d, built, built.leaf)
  PROVE  /\ Rebound(d, built).reply = Ok <=> Rebindable(d)
         /\ Rebound(d, built).reply = Ok =>
              /\ Rebuilt(d, Rebound(d, built), built.leaf)
              /\ d.rebind # None => Looks(Rebound(d, built).leaf.binding, d.rebind.pairs)
              /\ d.rebind = None => Rebound(d, built) = built
<1>1. CASE d.rebind = None
  <2>1. built.reply = Ok
    BY DEF Rebuilt
  <2>2. QED
    BY <1>1, <2>1 DEF Rebound, Rebindable
<1>2. CASE d.rebind # None
  <2> DEFINE layout == NewLayout(d.rebind.blocks)
             binding == NewBinding(layout, d.rebind.pairs)
             new == WithBinding(built.leaf, binding)
  <2>1. BlockSeq(d.rebind.blocks) /\ PairSeq(d.rebind.pairs)
    BY <1>2 DEF Declarable
  <2>2. /\ layout.reply = Ok <=> Partitioned(d.rebind.blocks)
        /\ layout.reply = Ok =>
             /\ LaidOut(layout, Len(d.rebind.blocks))
             /\ Ids(layout) = {b.id : b \in Range(d.rebind.blocks)}
    BY <2>1, LaysOut
  <2>3. Rebound(d, built) = IF layout.reply = Ok
                            THEN IF binding.reply = Ok THEN new ELSE binding
                            ELSE layout
    BY <1>2 DEF Rebound
  <2> HIDE DEF layout
  <2>4. layout.reply = Ok =>
          /\ binding.reply = Ok <=> Binds(d.rebind.pairs, Ids(layout))
          /\ binding.reply = Ok =>
               BoundBlocks(binding) = Ids(layout) /\ Looks(binding, d.rebind.pairs)
    <3>1. Len(d.rebind.pairs) \in Nat /\ Pairs(d.rebind.pairs, Len(d.rebind.pairs))
      BY <2>1, FromPairSeq
    <3>2. QED
      BY <2>2, <3>1, Binding
  <2> HIDE DEF binding
  <2>5. /\ new.reply = Ok <=> BlockIds(d) = BoundBlocks(binding)
        /\ new.reply = Ok => Rebuilt(d, new, built.leaf) /\ new.leaf.binding = binding
    <3> DEFINE l == built.leaf
               bound == [name |-> l.name, dimension |-> l.dimension, layout |-> l.layout,
                         binding |-> binding, operator |-> l.operator, source |-> l.source,
                         kinds |-> l.kinds]
    <3>1. /\ RightLeaf(l, BlockIds(d), d.operator.dimension)
          /\ l = [name |-> l.name, dimension |-> l.dimension, layout |-> l.layout,
                  binding |-> l.binding, operator |-> l.operator, source |-> l.source,
                  kinds |-> l.kinds]
          /\ Ids(l.layout) = BlockIds(d)
      BY DEF Rebuilt, RightLeaf, Leaf
    <3> HIDE DEF l
    <3>2. [l EXCEPT !.binding = binding] = bound
      BY <3>1
    <3>3. new = IF BlockIds(d) # BoundBlocks(binding) THEN [reply |-> "StateBindingLayoutMismatch"]
                ELSE [reply |-> Ok, leaf |-> bound]
      BY <3>1, <3>2 DEF WithBinding, l
    <3>4. RightLeaf(bound, BlockIds(d), d.operator.dimension)
      BY <3>1 DEF RightLeaf, Leaf
    <3>5. bound.layout = l.layout /\ bound.binding = binding
      OBVIOUS
    <3> HIDE DEF bound, new
    <3>6. new.reply = Ok <=> BlockIds(d) = BoundBlocks(binding)
      BY <3>3 DEF Ok
    <3>7. new.reply = Ok => new = [reply |-> Ok, leaf |-> bound] /\ new.leaf = bound
      BY <3>3, <3>6
    <3>8. QED
      BY <3>4, <3>5, <3>6, <3>7 DEF Rebuilt, l
  <2> HIDE DEF new
  <2>6. Rebound(d, built).reply = Ok <=>
          layout.reply = Ok /\ binding.reply = Ok /\ new.reply = Ok
    BY <2>3
  <2>7. Rebound(d, built).reply = Ok <=> Rebindable(d)
    BY <1>2, <2>2, <2>4, <2>5, <2>6 DEF Rebindable
  <2>8. QED
    BY <1>2, <2>3, <2>4, <2>5, <2>6, <2>7
<1>3. QED
  BY <1>1, <1>2

LEMMA Marks ==
  ASSUME NEW d, NEW built, Rebuilt(d, built, built.leaf)
  PROVE  /\ Marked(d, built).reply = Ok <=>
              (d.kinds # None => Len(d.kinds) = d.operator.dimension)
         /\ Marked(d, built).reply = Ok =>
              /\ Rebuilt(d, Marked(d, built), built.leaf)
              /\ Marked(d, built).leaf.binding = built.leaf.binding
<1>1. CASE d.kinds = None
  <2>1. built.reply = Ok
    BY DEF Rebuilt
  <2>2. QED
    BY <1>1, <2>1 DEF Marked
<1>2. CASE d.kinds # None
  <2> DEFINE new == WithRowKinds(built.leaf, d.kinds)
             l == built.leaf
             kept == [name |-> l.name, dimension |-> l.dimension, layout |-> l.layout,
                      binding |-> l.binding, operator |-> l.operator, source |-> l.source,
                      kinds |-> d.kinds]
  <2>1. /\ RightLeaf(l, BlockIds(d), d.operator.dimension)
        /\ l = [name |-> l.name, dimension |-> l.dimension, layout |-> l.layout,
                binding |-> l.binding, operator |-> l.operator, source |-> l.source,
                kinds |-> l.kinds]
        /\ l.dimension = d.operator.dimension
    BY DEF Rebuilt, RightLeaf, Leaf
  <2> HIDE DEF l
  <2>2. [l EXCEPT !.kinds = d.kinds] = kept
    BY <2>1
  <2>3. new = IF Len(d.kinds) # d.operator.dimension
              THEN [reply |-> "ConsistentInitializationMaskLength"]
              ELSE [reply |-> Ok, leaf |-> kept]
    BY <2>1, <2>2 DEF WithRowKinds, l
  <2>4. RightLeaf(kept, BlockIds(d), d.operator.dimension)
    BY <2>1 DEF RightLeaf, Leaf
  <2>5. kept.layout = l.layout /\ kept.binding = l.binding
    OBVIOUS
  <2>6. Marked(d, built) = new
    BY <1>2 DEF Marked
  <2> HIDE DEF kept, new
  <2>7. new.reply = Ok <=> Len(d.kinds) = d.operator.dimension
    BY <2>3 DEF Ok
  <2>8. new.reply = Ok => new = [reply |-> Ok, leaf |-> kept] /\ new.leaf = kept
    BY <2>3, <2>7
  <2>9. QED
    BY <1>2, <2>4, <2>5, <2>6, <2>7, <2>8 DEF Rebuilt, l
<1>3. QED
  BY <1>1, <1>2

LEMMA Builds ==
  ASSUME NEW d, Declarable(d)
  PROVE  /\ Built(d).reply = Ok <=> Buildable(d)
         /\ Built(d).reply = Ok =>
              /\ RightLeaf(Built(d).leaf, BlockIds(d), d.operator.dimension)
              /\ d.via # "reduced" => Range(Built(d).leaf.layout.blocks) = Range(d.blocks)
              /\ d.via # "reduced" \/ d.rebind # None =>
                   Looks(Built(d).leaf.binding,
                         IF d.rebind # None THEN d.rebind.pairs ELSE d.pairs)
<1> DEFINE first == Constructed(d)
           second == IF first.reply = Ok THEN Rebound(d, first) ELSE first
           third == IF second.reply = Ok THEN Marked(d, second) ELSE second
<1>1. Built(d) = third
  BY DEF Built, Then, Rebound, Marked
<1>2. /\ first.reply = Ok <=> Constructible(d)
      /\ first.reply = Ok => Made(d, first)
  BY Constructs
<1>3. first.reply = Ok => Rebuilt(d, first, first.leaf)
  BY <1>2 DEF Made, Rebuilt
<1> HIDE DEF first
<1>4. first.reply = Ok =>
        /\ second.reply = Ok <=> Rebindable(d)
        /\ second.reply = Ok =>
             /\ Rebuilt(d, second, first.leaf)
             /\ d.rebind # None => Looks(second.leaf.binding, d.rebind.pairs)
             /\ d.rebind = None => second = first
  BY <1>3, Rebinds
<1>5. first.reply # Ok => second.reply # Ok
  OBVIOUS
<1> HIDE DEF second
<1>6. second.reply = Ok => Rebuilt(d, second, second.leaf)
  BY <1>4, <1>5 DEF Rebuilt
<1>7. second.reply = Ok =>
        /\ third.reply = Ok <=> (d.kinds # None => Len(d.kinds) = d.operator.dimension)
        /\ third.reply = Ok =>
             /\ Rebuilt(d, third, second.leaf)
             /\ third.leaf.binding = second.leaf.binding
  BY <1>6, Marks
<1>8. second.reply # Ok => third.reply # Ok
  OBVIOUS
<1> HIDE DEF third
<1>9. third.reply = Ok <=> Buildable(d)
  <2>1. Buildable(d) <=> /\ Constructible(d)
                         /\ Rebindable(d)
                         /\ d.kinds # None => Len(d.kinds) = d.operator.dimension
    BY DEF Buildable, Constructible, Rebindable
  <2>2. QED
    BY <1>2, <1>4, <1>5, <1>7, <1>8, <2>1
<1>10. ASSUME third.reply = Ok
       PROVE  /\ RightLeaf(third.leaf, BlockIds(d), d.operator.dimension)
              /\ d.via # "reduced" => Range(third.leaf.layout.blocks) = Range(d.blocks)
              /\ d.via # "reduced" \/ d.rebind # None =>
                   Looks(third.leaf.binding, IF d.rebind # None THEN d.rebind.pairs ELSE d.pairs)
  <2>1. first.reply = Ok /\ second.reply = Ok
    BY <1>5, <1>8, <1>10
  <2>2. /\ third.leaf.layout = first.leaf.layout
        /\ RightLeaf(third.leaf, BlockIds(d), d.operator.dimension)
    BY <1>4, <1>7, <1>10, <2>1 DEF Rebuilt
  <2>3. d.via # "reduced" => Range(first.leaf.layout.blocks) = Range(d.blocks)
                             /\ Looks(first.leaf.binding, d.pairs)
    BY <1>2, <2>1 DEF Made
  <2>4. /\ d.rebind # None => Looks(third.leaf.binding, d.rebind.pairs)
        /\ d.rebind = None => third.leaf.binding = first.leaf.binding
    BY <1>4, <1>7, <1>10, <2>1
  <2>5. QED
    BY <2>2, <2>3, <2>4
<1>11. QED
  BY <1>1, <1>9, <1>10

(* All that the property says of a declaration.                             *)
LEMMA Promises ==
  ASSUME NEW d, Declarable(d), Built(d).reply = Ok
  PROVE  LET leaf   == Built(d).leaf
             blocks == leaf.layout.blocks
             pairs  == IF d.rebind # None THEN d.rebind.pairs ELSE d.pairs
         IN  /\ Partitions(blocks, leaf.dimension)
             /\ Ids(leaf.layout) = BlockIds(d)
             /\ d.via # "reduced" => Range(blocks) = Range(d.blocks)
             /\ d.via # "reduced" \/ d.rebind # None =>
                  \A p \in Range(pairs) : SemanticFor(leaf.binding, p.block) = p.semantic
             /\ \A k \in 1 .. Len(blocks) - 1 : blocks[k].end = blocks[k + 1].start
             /\ \A lengths \in UNION {[1 .. n -> 1 .. leaf.dimension] : n \in 1 .. leaf.dimension} :
                  Tiles(SolverLayout(lengths), blocks) <=>
                    /\ Last(SolverLayout(lengths)).end = leaf.dimension
                    /\ Cuts(SolverLayout(lengths)) \subseteq Cuts(blocks)
<1> DEFINE leaf == Built(d).leaf
           blocks == leaf.layout.blocks
           pairs == IF d.rebind # None THEN d.rebind.pairs ELSE d.pairs
<1>1. /\ RightLeaf(leaf, BlockIds(d), d.operator.dimension)
      /\ d.via # "reduced" => Range(blocks) = Range(d.blocks)
      /\ d.via # "reduced" \/ d.rebind # None => Looks(leaf.binding, pairs)
  BY Builds
<1> HIDE DEF leaf, pairs
<1>2. PICK m : LaidOut(leaf.layout, m)
  BY <1>1 DEF RightLeaf
<1>3. /\ m \in Nat \ {0} /\ Blocks(blocks, m) /\ Contiguous(blocks, m) /\ Len(blocks) = m
      /\ leaf.dimension \in Nat /\ blocks[m].end = leaf.dimension
      /\ Partitions(blocks, leaf.dimension)
      /\ Consecutive(blocks, m)
      /\ Ids(leaf.layout) = BlockIds(d)
  BY <1>1, <1>2 DEF RightLeaf, LaidOut, Blocks, Contiguous
<1> HIDE DEF blocks
<1>4. \A k \in 1 .. Len(blocks) - 1 : blocks[k].end = blocks[k + 1].start
  BY <1>3 DEF Consecutive
<1>5. ASSUME NEW lengths \in UNION {[1 .. n -> 1 .. leaf.dimension] : n \in 1 .. leaf.dimension}
      PROVE  Tiles(SolverLayout(lengths), blocks) <=>
               /\ Last(SolverLayout(lengths)).end = leaf.dimension
               /\ Cuts(SolverLayout(lengths)) \subseteq Cuts(blocks)
  <2>1. PICK n \in 1 .. leaf.dimension : lengths \in [1 .. n -> 1 .. leaf.dimension]
    BY <1>5
  <2>2. n \in Nat \ {0}
    BY <1>3
  <2>3. QED
    BY <1>3, <2>1, <2>2, SolversTile
<1>6. QED
  BY <1>1, <1>3, <1>4, <1>5 DEF Looks, leaf, blocks, pairs

----------------------------------------------------------------------------
(* The specification.                                                       *)

(* The property is inductive once the leaves are known to be a sequence: how*)
(* many there are tells which declarations the caller may make next.        *)
LayoutsInv == LayoutsPartition /\ \E S : leaves \in Seq(S)

LEMMA LayoutsInit == Init => LayoutsInv
<1> SUFFICES ASSUME Init PROVE LayoutsInv
  OBVIOUS
<1>1. LayoutsPartition
  BY DEF Init, LayoutsPartition
<1>2. leaves \in Seq({})
  BY DEF Init
<1>3. QED
  BY <1>1, <1>2 DEF LayoutsInv

LEMMA LayoutsNext == LayoutsInv /\ [Next]_vars => LayoutsInv'
<1> SUFFICES ASSUME LayoutsInv, [Next]_vars PROVE LayoutsInv'
  OBVIOUS
<1>1. PICK S : leaves \in Seq(S)
  BY DEF LayoutsInv
<1>2. CASE /\ Len(leaves) < MaxLeaves
           /\ \E d \in Declarations(Len(leaves) + 1) : DeclareLeaf(d)
  <2>1. PICK d \in Declarations(Len(leaves) + 1) : DeclareLeaf(d)
    BY <1>2
  <2>2. Declarable(d)
    <3>1. Len(leaves) + 1 \in 1 .. MaxLeaves
      BY <1>1, <1>2, DeclarationAssumption
    <3>2. QED
      BY <2>1, <3>1, DeclarationAssumption
  <2>3. last' = [declaration |-> d, built |-> Built(d)]
    BY <2>1 DEF DeclareLeaf
  <2>4. Built(d).reply = Ok <=> Buildable(d)
    BY <2>2, Builds
  <2>5. LayoutsPartition'
    <3>1. last'.declaration = d /\ last'.built = Built(d)
      BY <2>3
    <3>2. CASE Built(d).reply # Ok
      BY <2>4, <3>1, <3>2 DEF LayoutsPartition
    <3>3. CASE Built(d).reply = Ok
      BY <2>2, <2>4, <3>1, <3>3, Promises DEF LayoutsPartition
    <3>4. QED
      BY <3>2, <3>3
  <2>6. \E T : leaves' \in Seq(T)
    <3>1. CASE Built(d).reply = Ok
      <4>1. leaves' = Append(leaves, Built(d).leaf)
        BY <2>1, <3>1 DEF DeclareLeaf
      <4>2. leaves \in Seq(S \cup {Built(d).leaf})
        BY <1>1
      <4>3. leaves' \in Seq(S \cup {Built(d).leaf})
        BY <4>1, <4>2
      <4>4. QED
        BY <4>3
    <3>2. CASE Built(d).reply # Ok
      BY <1>1, <2>1, <3>2 DEF DeclareLeaf
    <3>3. QED
      BY <3>1, <3>2
  <2>7. QED
    BY <2>5, <2>6 DEF LayoutsInv
<1>3. CASE \E es \in Edges(leaves) : Compose(es)
  <2>1. last' = None /\ leaves' = leaves
    BY <1>3 DEF Compose
  <2>2. QED
    BY <1>1, <2>1 DEF LayoutsInv, LayoutsPartition
<1>4. CASE \E c \in Connections(composed.system) : Connect(c)
  <2>1. last' = last /\ leaves' = leaves
    BY <1>4 DEF Connect
  <2>2. QED
    BY <2>1 DEF LayoutsInv, LayoutsPartition
<1>5. CASE UNCHANGED vars
  BY <1>5 DEF LayoutsInv, LayoutsPartition, vars
<1>6. QED
  BY <1>2, <1>3, <1>4, <1>5 DEF Next

(* A leaf is built from blocks that cut its unknowns and pairs that bind    *)
(* them, and from nothing else, whatever the number and the order of the    *)
(* blocks, the pairs and the fields: StateLayout::new, StateBinding::new,   *)
(* block_state_layout, the constructors of CoupledLeaf; and a solver's      *)
(* blocks tile the layout exactly if no cut of theirs is inside a block:    *)
(* check_blocks_tile_layout.                                                *)
THEOREM LayoutsAlwaysPartition == Spec => []LayoutsPartition
<1>1. LayoutsInv => LayoutsPartition
  BY DEF LayoutsInv
<1>2. QED
  BY <1>1, LayoutsInit, LayoutsNext, PTL DEF Spec
=============================================================================
