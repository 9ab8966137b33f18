---------------------------- MODULE CoupledSystem ----------------------------
(***************************************************************************)
(* CoupledSystem: leaves over Methodus DAE operators composed into one     *)
(* operator over the concatenation of their states, with coupling edges    *)
(* between them.  Leaves count from 1, the unknowns of a leaf and of the   *)
(* composed state from 0; a vector is a function from the unknowns.        *)
(*                                                                         *)
(* A leaf's operator is linear here, with integer coefficients: what the   *)
(* composition does with the leaves is linear and does not look at them.   *)
(***************************************************************************)
EXTENDS StateLayout, ConsistentInitialization

CONSTANTS
  None,
  Prefixed(_, _),             (* A block's id under a leaf's name            *)
  StateCoefficient(_, _, _),  (* of a leaf's name, row and column            *)
  RateCoefficient(_, _, _),
  Forcing(_, _),              (* of a leaf's name and row                    *)
  EdgeCoefficient(_, _, _)    (* of an edge's identity, row and column       *)

Sum(Term(_), S) == MapThenSumSet(Term, S)

----------------------------------------------------------------------------
(* CoupledLeaf::new.  Of an operator, stores is the set of the rows its     *)
(* rate really enters and diagonal whether it supplies one.                 *)

NewLeaf(name, operator, layout, binding) ==
  IF name = Blank THEN [reply |-> "InvalidCoupling"]
  ELSE IF operator.dimension # layout.width THEN [reply |-> "InvalidCoupling"]
  ELSE IF Ids(layout) # BoundBlocks(binding) THEN [reply |-> "StateBindingLayoutMismatch"]
  ELSE [reply |-> Ok,
        leaf |-> [name |-> name, dimension |-> operator.dimension, layout |-> layout,
                  binding |-> binding, operator |-> operator, source |-> "Opaque",
                  kinds |-> None]]

(* CoupledOperator::new_with_bindings, with_consistent_initialization: what *)
(* Krasis makes of a realization plan.  It supplies no diagonal.            *)
NewCoupledOperator(plan, layout, binding, kinds) ==
  IF plan.dimension # layout.width THEN [reply |-> "InvalidCoupling"]
  ELSE IF binding # None /\ Ids(layout) # BoundBlocks(binding)
       THEN [reply |-> "StateBindingLayoutMismatch"]
  ELSE IF kinds # None /\ Len(kinds) # plan.dimension
       THEN [reply |-> "ConsistentInitializationMaskLength"]
  ELSE [reply |-> Ok,
        operator |-> [dimension |-> plan.dimension, digest |-> plan.digest,
                      stores |-> plan.stores, vertices |-> plan.vertices, diagonal |-> FALSE,
                      layout |-> layout, binding |-> binding, kinds |-> kinds]]

(* CoupledLeaf::realization, over a coupled operator.                       *)
RealizationLeaf(name, operator, layout) ==
  IF operator.binding = None THEN [reply |-> "InvalidCoupling"]
  ELSE IF layout # operator.layout THEN [reply |-> "InvalidCoupling"]
  ELSE Then(NewLeaf(name, operator, layout, operator.binding), LAMBDA built :
         [built EXCEPT !.leaf.source = "Realization", !.leaf.kinds = operator.kinds])

(* CoupledLeaf::reduced_system: the blocks of the operator's fields, under  *)
(* the leaf's name.                                                         *)
ReducedLeaf(name, operator) ==
  LET over(fields) ==
        LET blocks == [j \in DOMAIN fields.layout.blocks |->
                         [fields.layout.blocks[j] EXCEPT !.id = Prefixed(name, @)]]
            pairs  == [j \in DOMAIN fields.layout.blocks |->
                         [semantic |-> SemanticFor(fields.binding, fields.layout.blocks[j].id),
                          block |-> blocks[j].id]]
        IN  Then(NewLayout(blocks), LAMBDA layout :
              Then(NewBinding(layout, pairs), LAMBDA binding :
                Then(NewLeaf(name, operator, layout, binding), LAMBDA built :
                  [built EXCEPT !.leaf.source = "ReducedSystem"])))
  IN  Then(BlockStateLayout(operator.fields), over)

WithBinding(leaf, binding) ==
  IF Ids(leaf.layout) # BoundBlocks(binding) THEN [reply |-> "StateBindingLayoutMismatch"]
  ELSE [reply |-> Ok, leaf |-> [leaf EXCEPT !.binding = binding]]

WithRowKinds(leaf, kinds) ==
  IF Len(kinds) # leaf.dimension THEN [reply |-> "ConsistentInitializationMaskLength"]
  ELSE [reply |-> Ok, leaf |-> [leaf EXCEPT !.kinds = kinds]]

----------------------------------------------------------------------------
(* CoupledSystemOperator::new.                                              *)

Dimensions(leaves) == [k \in 1 .. Len(leaves) |-> leaves[k].dimension]
Offset(leaves, k)  == SolverLayout(Dimensions(leaves))[k].start

(* Mutant: the blocks of a leaf are shifted by its position.                *)
ShiftedBlocksByIndex(leaves, k) ==
  [j \in 1 .. Len(leaves[k].layout.blocks) |->
     LET block == leaves[k].layout.blocks[j]
     IN  [id |-> block.id, start |-> k - 1 + block.start, end |-> k - 1 + block.end]]

ShiftedBlocks(leaves, k) ==
  LET offset == Offset(leaves, k)
  IN  [j \in 1 .. Len(leaves[k].layout.blocks) |->
         LET block == leaves[k].layout.blocks[j]
         IN  [id |-> block.id, start |-> offset + block.start, end |-> offset + block.end]]

SharedBindings(leaf) ==
  [j \in 1 .. Len(leaf.layout.blocks) |->
     LET id == leaf.layout.blocks[j].id
     IN  [semantic |-> SemanticFor(leaf.binding, id), block |-> id]]

Concatenated(leaves, Part(_)) == FlattenSeq([k \in 1 .. Len(leaves) |-> Part(k)])

IndexOf(leaves, name) ==
  IF \E k \in 1 .. Len(leaves) : leaves[k].name = name
  THEN CHOOSE k \in 1 .. Len(leaves) : leaves[k].name = name
  ELSE 0

EdgeFault(leaves, edge) ==
  LET row    == IndexOf(leaves, edge.row)
      column == IndexOf(leaves, edge.column)
  IN  \/ row = 0
      \/ column = 0
      \/ row = column
      \/ edge.rows # leaves[row].dimension
      \/ edge.columns # leaves[column].dimension

Resolved(leaves, edge) ==
  [row |-> IndexOf(leaves, edge.row), column |-> IndexOf(leaves, edge.column),
   argument |-> edge.argument, identity |-> edge.identity]

(* The order the edges are kept and applied in; an argument is 0 for the    *)
(* state and 1 for the rate, and identities are numbers.                    *)
EdgeBefore(e, f) ==
  \/ e.row < f.row
  \/ e.row = f.row /\ e.column < f.column
  \/ e.row = f.row /\ e.column = f.column /\ e.argument < f.argument
  \/ /\ e.row = f.row /\ e.column = f.column /\ e.argument = f.argument
     /\ e.identity < f.identity

NewSystem(leaves, edges) ==
  LET layout  == NewLayout(Concatenated(leaves, LAMBDA k : ShiftedBlocks(leaves, k)))
      binding == NewBinding(layout, Concatenated(leaves, LAMBDA k : SharedBindings(leaves[k])))
  IN  IF leaves = <<>> THEN [reply |-> "EmptyLayout"]
      ELSE IF \E j, k \in 1 .. Len(leaves) : j # k /\ leaves[j].name = leaves[k].name
           THEN [reply |-> "InvalidCoupling"]
      ELSE IF layout.reply # Ok THEN [reply |-> layout.reply]
      ELSE IF binding.reply # Ok THEN [reply |-> binding.reply]
      ELSE IF \E k \in 1 .. Len(edges) : EdgeFault(leaves, edges[k])
           THEN [reply |-> "InvalidCoupling"]
      ELSE [reply |-> Ok,
            system |-> [leaves |-> leaves,
                        offsets |-> [k \in 1 .. Len(leaves) |-> Offset(leaves, k)],
                        layout |-> layout, binding |-> binding,
                        edges |-> SortSeq([k \in 1 .. Len(edges) |-> Resolved(leaves, edges[k])],
                                          EdgeBefore),
                        blockLayout |-> SolverLayout(Dimensions(leaves))]]

(* record_consistent_initialization: the mask of the composed rows.         *)
ComposedMask(s) ==
  IF \E k \in 1 .. Len(s.leaves) : s.leaves[k].kinds = None
  THEN [reply |-> "InvalidCoupling"]
  ELSE [reply |-> Ok, mask |-> Concatenated(s.leaves, LAMBDA k : s.leaves[k].kinds)]

----------------------------------------------------------------------------
(* initial_state_from, of a leaf (initial.rs) and of the composition.  A    *)
(* binding gives a block the source of its values; a source is pointwise or *)
(* not, refuses to be evaluated or not, and has so many values: at each     *)
(* vertex, or of all vertices if it is nodal.                               *)

PointwiseKinds == {"Constant", "Nodal", "Fallible"}

SourceFault(source, components, vertices) ==
  IF source.kind \notin PointwiseKinds THEN "InitialSourceNotPointwise"
  ELSE IF source.kind = "Fallible" /\ source.refuses THEN "EvaluationRefused"
  ELSE IF source.length # components * (IF source.kind = "Nodal" THEN vertices ELSE 1)
       THEN "FieldLength"
  ELSE IF ~source.finite THEN "NonFiniteValue"
  ELSE Ok

Projected(leaf, bindings) ==
  LET Resolve(seen, b) ==
        IF seen.reply # Ok THEN seen
        ELSE IF b.block \notin Ids(leaf.layout) THEN [reply |-> "InitialBlockUnknown"]
        ELSE IF b.block \in DOMAIN seen.sources THEN [reply |-> "InitialBlockDuplicate"]
        ELSE [reply |-> Ok, sources |-> (b.block :> b.source) @@ seen.sources]
      resolved == FoldLeft(Resolve, [reply |-> Ok, sources |-> <<>>], bindings)
      vertices == leaf.operator.vertices
      Insert(state, block) ==
        LET width == block.end - block.start
            fault == IF width % vertices # 0 THEN "InitialDimensionMismatch"
                     ELSE SourceFault(resolved.sources[block.id], width \div vertices, vertices)
        IN  IF state.reply # Ok THEN state
            ELSE IF fault # Ok THEN [reply |-> fault]
            ELSE [state EXCEPT !.fields = @ @@ (block.id :>
                    [length |-> width, content |-> resolved.sources[block.id].content])]
  IN  IF resolved.reply # Ok THEN resolved
      ELSE IF ~(Ids(leaf.layout) \subseteq DOMAIN resolved.sources)
           THEN [reply |-> "InitialBlockMissing"]
      ELSE FoldLeft(Insert, [reply |-> Ok, fields |-> <<>>], leaf.layout.blocks)

InitialState(s, bindings) ==
  LET Project(state, leaf) ==
        IF state.reply # Ok THEN state
        ELSE IF leaf.source = "Opaque" THEN [reply |-> "InvalidCoupling"]
        ELSE Then(Projected(leaf, SelectSeq(bindings, LAMBDA b : b.block \in Ids(leaf.layout))),
                  LAMBDA projected : [state EXCEPT !.fields = @ @@ projected.fields])
  IN  IF \E b \in Range(bindings) : b.block \notin Ids(s.layout)
      THEN [reply |-> "InitialBlockUnknown"]
      ELSE FoldLeft(Project, [reply |-> Ok, fields |-> <<>>], s.leaves)

----------------------------------------------------------------------------
(* The composed operator.                                                   *)

Unknowns(s)     == 0 .. s.layout.width - 1
LeafRange(s, k) == s.offsets[k] .. s.offsets[k] + s.leaves[k].dimension - 1
LeafFor(s, dof) == CHOOSE k \in 1 .. Len(s.leaves) : dof \in LeafRange(s, k)

(* A leaf's product with a direction; its residual adds the forcing.        *)
LeafProduct(leaf, i, x, rate) ==
  Sum(LAMBDA j : StateCoefficient(leaf.name, i, j) * x[j]
        + (IF i \in leaf.operator.stores THEN RateCoefficient(leaf.name, i, j) * rate[j] ELSE 0),
      0 .. leaf.dimension - 1)

Slice(s, k, x) == [j \in 0 .. s.leaves[k].dimension - 1 |-> x[s.offsets[k] + j]]

EdgeSource(edge, x, rate) == IF edge.argument = 0 THEN x ELSE rate

(* apply_edges, the part that goes to row at.                               *)
EdgesInto(s, at, x, rate) ==
  LET k == LeafFor(s, at)
      Contribution(e) ==
        LET edge   == s.edges[e]
            source == Slice(s, edge.column, EdgeSource(edge, x, rate))
        IN  Sum(LAMBDA j : EdgeCoefficient(edge.identity, at - s.offsets[k], j) * source[j],
                DOMAIN source)
  IN  Sum(Contribution, {e \in 1 .. Len(s.edges) : s.edges[e].row = k})

SystemProduct(s, dx, drate) ==
  [at \in Unknowns(s) |->
     LET k == LeafFor(s, at)
     IN  LeafProduct(s.leaves[k], at - s.offsets[k], Slice(s, k, dx), Slice(s, k, drate))
         + EdgesInto(s, at, dx, drate)]

SystemResidual(s, x, rate) ==
  [at \in Unknowns(s) |->
     LET k == LeafFor(s, at)
     IN  LeafProduct(s.leaves[k], at - s.offsets[k], Slice(s, k, x), Slice(s, k, rate))
         + Forcing(s.leaves[k].name, at - s.offsets[k])
         + EdgesInto(s, at, x, rate)]

(* The concatenation of the leaves' own diagonals, if all supply one: an    *)
(* edge never reaches the diagonal.                                         *)
LeafDiagonal(leaf, i, shift) ==
  StateCoefficient(leaf.name, i, i)
    + (IF i \in leaf.operator.stores THEN shift * RateCoefficient(leaf.name, i, i) ELSE 0)

SystemDiagonal(s, shift) ==
  IF \A k \in 1 .. Len(s.leaves) : s.leaves[k].operator.diagonal
  THEN [at \in Unknowns(s) |->
          LET k == LeafFor(s, at)
          IN  LeafDiagonal(s.leaves[k], at - s.offsets[k], shift)]
  ELSE None
=============================================================================
