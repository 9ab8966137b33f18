----------------------------- MODULE StateLayout -----------------------------
(***************************************************************************)
(* StateLayout: how a state vector is cut into named blocks, how semantic  *)
(* ids are bound to the blocks, and how the blocks of a solver lie over    *)
(* them.  The constructors either return what they build or the first      *)
(* error they meet: what they tell of an element depends on those before it.*)
(* Positions count from 0 and a range ends before its end.                 *)
(***************************************************************************)
EXTENDS Integers, Sequences, FiniteSets, SequencesExt

CONSTANTS
  Blank,          (* Any id or name that is empty once trimmed.              *)
  FieldBlock(_)   (* The id of the block of a field, field_<variable>.       *)

Ok == "Ok"

(* A constructor goes on with what the one before has built.                *)
Then(built, Continue(_)) == IF built.reply = Ok THEN Continue(built) ELSE built

----------------------------------------------------------------------------
(* StateLayout::new.                                                        *)

(* Mutant: a block may start after the end of the previous one.             *)
LayoutFaultNoGap(seen, block) ==
  IF block.id = Blank THEN "EmptyBlockId"
  ELSE IF block.start >= block.end THEN "EmptyBlock"
  ELSE IF block.id \in seen.ids THEN "DuplicateBlock"
  ELSE IF block.start < seen.end THEN "OverlappingBlock"
  ELSE Ok

(* What is wrong with the next block, given the ids and the end of those    *)
(* before it.                                                               *)
LayoutFault(seen, block) ==
  IF block.id = Blank THEN "EmptyBlockId"
  ELSE IF block.start >= block.end THEN "EmptyBlock"
  ELSE IF block.id \in seen.ids THEN "DuplicateBlock"
  ELSE IF block.start < seen.end THEN "OverlappingBlock"
  ELSE IF block.start > seen.end THEN "BlockGap"
  ELSE Ok

(* Sorted by start, blocks that start together in the order they came in.   *)
Rank(blocks, j) ==
  Cardinality({k \in DOMAIN blocks :
    \/ blocks[k].start < blocks[j].start
    \/ blocks[k].start = blocks[j].start /\ k <= j})

ByStart(blocks) ==
  [r \in 1 .. Len(blocks) |-> blocks[CHOOSE j \in DOMAIN blocks : Rank(blocks, j) = r]]

(* What the loop has seen of the sorted blocks before the k-th.             *)
SeenBlocks(sorted, k) ==
  [ids |-> {sorted[j].id : j \in 1 .. k - 1}, end |-> IF k = 1 THEN 0 ELSE sorted[k - 1].end]

NewLayout(blocks) ==
  LET sorted   == ByStart(blocks)
      fault(k) == LayoutFault(SeenBlocks(sorted, k), sorted[k])
      faulty   == {k \in 1 .. Len(blocks) : fault(k) # Ok}
  IN  IF blocks = <<>> THEN [reply |-> "EmptyLayout"]
      ELSE IF faulty # {} THEN [reply |-> fault(Min(faulty))]
      ELSE [reply |-> Ok, blocks |-> sorted, width |-> sorted[Len(blocks)].end]

Ids(layout)      == {block.id : block \in Range(layout.blocks)}
Block(layout, b) == CHOOSE block \in Range(layout.blocks) : block.id = b

----------------------------------------------------------------------------
(* StateBinding::new.                                                       *)

BindingFault(layout, seen, pair) ==
  IF pair.block \notin Ids(layout) THEN "UnknownBlock"
  ELSE IF pair.block \in seen.used THEN "DuplicateBlock"
  ELSE IF pair.semantic \in seen.semantics THEN "DuplicateSemanticId"
  ELSE Ok

(* What the loop has seen of the pairs before the k-th.                     *)
SeenPairs(pairs, k) ==
  [used |-> {pairs[j].block : j \in 1 .. k - 1},
   semantics |-> {pairs[j].semantic : j \in 1 .. k - 1}]

(* The map of pairs without duplicates.                                     *)
Mapped(pairs) ==
  [s \in {p.semantic : p \in Range(pairs)} |->
     (CHOOSE p \in Range(pairs) : p.semantic = s).block]

NewBinding(layout, pairs) ==
  LET fault(k) == BindingFault(layout, SeenPairs(pairs, k), pairs[k])
      faulty   == {k \in 1 .. Len(pairs) : fault(k) # Ok}
  IN  IF faulty # {} THEN [reply |-> fault(Min(faulty))]
      ELSE IF Cardinality(DOMAIN Mapped(pairs)) # Len(layout.blocks)
           THEN [reply |-> "Incomplete"]
      ELSE [reply |-> Ok, map |-> Mapped(pairs)]

BoundBlocks(binding)    == Range(binding.map)
SemanticFor(binding, b) == CHOOSE s \in DOMAIN binding.map : binding.map[s] = b

----------------------------------------------------------------------------
(* block_state_layout: a block for every field of a product space, bound to *)
(* the field's variable.                                                    *)

BlockStateLayout(fields) ==
  LET id(k)  == FieldBlock(fields[k].variable)
      layout == NewLayout([k \in 1 .. Len(fields) |->
                  [id |-> id(k), start |-> fields[k].offset,
                   end |-> fields[k].offset + fields[k].extent]])
      pairs  == [k \in 1 .. Len(fields) |-> [semantic |-> fields[k].variable, block |-> id(k)]]
  IN  Then(layout, LAMBDA l :
        Then(NewBinding(l, pairs), LAMBDA b : [reply |-> Ok, layout |-> l, binding |-> b]))

----------------------------------------------------------------------------
(* check_blocks_tile_layout: every solver block must be a run of whole      *)
(* state blocks.  The loop over the solver's blocks and the one inside it   *)
(* take the state's blocks from one iterator.  A turn of the walk is at block*)
(* s of the solver and block k of the state, s is covered up to covered.    *)

Tiles(solver, blocks) ==
  LET next(s) == IF s <= Len(solver) THEN solver[s].start ELSE 0
      Walk == (1 .. Len(solver) + 1) \X (1 .. Len(blocks) + 1) \X Nat
      reply[at \in Walk] ==
        LET s       == at[1]
            k       == at[2]
            covered == at[3]
        IN  IF s > Len(solver) THEN IF k > Len(blocks) THEN Ok ELSE "OutsideBlocks"
            ELSE IF covered >= solver[s].end THEN reply[<<s + 1, k, next(s + 1)>>]
            ELSE IF k > Len(blocks) THEN "PastLastBlock"
            ELSE IF blocks[k].start # covered \/ blocks[k].end > solver[s].end
                 THEN "NotTiled"
            ELSE reply[<<s, k + 1, blocks[k].end>>]
  IN  reply[<<1, 1, next(1)>>] = Ok

(* The solver layout with blocks of these lengths (Methodus: consecutive).  *)
SolverLayout(lengths) ==
  LET start[k \in 1 .. Len(lengths)] == IF k = 1 THEN 0 ELSE start[k - 1] + lengths[k - 1]
  IN  [k \in 1 .. Len(lengths) |-> [start |-> start[k], end |-> start[k] + lengths[k]]]

----------------------------------------------------------------------------
(* What the constructors promise, stated without their loops.               *)

(* The blocks cut 0 .. width - 1 into intervals with names of their own.    *)
Partitions(blocks, width) ==
  /\ \A k \in 1 .. Len(blocks) : blocks[k].id # Blank /\ blocks[k].start < blocks[k].end
  /\ \A j, k \in 1 .. Len(blocks) : blocks[j].id = blocks[k].id => j = k
  /\ \A at \in 0 .. width - 1 :
       Cardinality({k \in 1 .. Len(blocks) : blocks[k].start <= at /\ at < blocks[k].end}) = 1
  /\ \A k \in 1 .. Len(blocks) : 0 <= blocks[k].start /\ blocks[k].end <= width

Cuts(blocks) == {block.start : block \in Range(blocks)} \cup {block.end : block \in Range(blocks)}

(* Blocks that make a layout: they cut as much as the last of them ends at. *)
Partitioned(blocks) == blocks # <<>> /\ \E last \in Range(blocks) : Partitions(blocks, last.end)
=============================================================================
