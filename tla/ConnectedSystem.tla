--------------------------- MODULE ConnectedSystem ---------------------------
(***************************************************************************)
(* ConnectedSystem: a caller builds leaves, composes them, and ties        *)
(* unknowns of different leaves to one another by constraints that Finitum *)
(* computes.  The tied unknowns stay in the state; the row of a tied       *)
(* unknown (a target) becomes the equation of the tie, and what it held    *)
(* goes to the rows of the unknowns it depends on (its masters).           *)
(*                                                                         *)
(* Each action is one constructor call of the caller.  Nothing changes     *)
(* after construction: what the operators compute is stated by the         *)
(* operators below for any point.                                          *)
(***************************************************************************)
EXTENDS CoupledSystem

CONSTANTS
  Declarations(_),   (* The leaves a caller may declare as its n-th.         *)
  Edges(_),          (* The sequences of edges offered for some leaves.      *)
  Connections(_),    (* What Finitum may answer for a composed system.       *)
  Projections(_),    (* The initial values offered for a composed system.    *)
  Shifts,            (* Rate shifts a diagonal is asked for.                 *)
  Points,            (* Values the generic points are made from.             *)
  MaxLeaves          (* Bound: leaves a caller declares.                     *)

(* Blocks and pairs may be wrong, but are blocks and pairs.                 *)
BlockSeq(blocks) ==
  blocks \in Seq([id : {b.id : b \in Range(blocks)}, start : Nat, end : Nat])
PairSeq(pairs) ==
  pairs \in Seq([semantic : {p.semantic : p \in Range(pairs)},
                 block : {p.block : p \in Range(pairs)}])

(* Finitum's layout of a product space: the fields one after the other.     *)
ProductSpace(fields, width) ==
  /\ fields \in Seq([variable : {f.variable : f \in Range(fields)},
                     offset : Nat, extent : Nat \ {0}])
  /\ fields # <<>>
  /\ \A j, k \in 1 .. Len(fields) : fields[j].variable = fields[k].variable => j = k
  /\ fields[1].offset = 0
  /\ \A k \in 1 .. Len(fields) - 1 : fields[k + 1].offset = fields[k].offset + fields[k].extent
  /\ fields[Len(fields)].offset + fields[Len(fields)].extent = width

(* format!: the names made of different variables differ, and are not blank.*)
Distinguishes(name, fields) ==
  \A f, g \in Range(fields) :
    /\ FieldBlock(f.variable) # Blank
    /\ Prefixed(name, FieldBlock(f.variable)) # Blank
    /\ Prefixed(name, FieldBlock(f.variable)) = Prefixed(name, FieldBlock(g.variable)) =>
         f.variable = g.variable

Declarable(d) ==
  /\ d.via \in {"new", "realization", "reduced"}
  /\ d.operator.dimension \in Nat
  /\ d.via = "new" => BlockSeq(d.blocks) /\ PairSeq(d.pairs)
  /\ d.via = "realization" =>
       /\ BlockSeq(d.blocks) /\ BlockSeq(d.given)
       /\ d.pairs # None => PairSeq(d.pairs)
       /\ d.pairs # None /\ NewLayout(d.blocks).reply = Ok =>
            NewBinding(NewLayout(d.blocks), d.pairs) # None
  /\ d.via = "reduced" =>
       /\ ProductSpace(d.operator.fields, d.operator.dimension)
       /\ Distinguishes(d.name, d.operator.fields)
  /\ d.rebind # None => BlockSeq(d.rebind.blocks) /\ PairSeq(d.rebind.pairs)

ASSUME DeclarationAssumption ==
  /\ MaxLeaves \in Nat
  /\ \A n \in 1 .. MaxLeaves : \A d \in Declarations(n) : Declarable(d)

VARIABLES
  leaves,      (* the leaves the caller has built                            *)
  last,        (* the last leaf declaration and what its calls returned      *)
  edges,       (* the edges offered to the composition                       *)
  composed,    (* what CoupledSystemOperator::new returned                   *)
  connected    (* what ConnectedSystemOperator::new or new_system returned   *)

vars == <<leaves, last, edges, composed, connected>>

----------------------------------------------------------------------------
(* Finitum's constraint sets.  A constraint ties a target to a weighted sum *)
(* of other unknowns plus an offset; constraints come in target order, and  *)
(* no target is a master (Finitum closes them).                             *)

Targets(cs) == {c.target : c \in Range(cs)}
Tie(cs, t)  == CHOOSE c \in Range(cs) : c.target = t

Weighted(c, x) ==
  Sum(LAMBDA d : c.dependencies[d].weight * x[c.dependencies[d].dof], DOMAIN c.dependencies)

Expand(cs, x) ==
  [i \in DOMAIN x |->
     IF i \in Targets(cs) THEN Tie(cs, i).offset + Weighted(Tie(cs, i), x) ELSE x[i]]
ExpandHomogeneous(cs, x) ==
  [i \in DOMAIN x |-> IF i \in Targets(cs) THEN Weighted(Tie(cs, i), x) ELSE x[i]]

(* The transpose of ExpandHomogeneous.                                      *)
Share(c, i) ==
  Sum(LAMBDA d : IF c.dependencies[d].dof = i THEN c.dependencies[d].weight ELSE 0,
      DOMAIN c.dependencies)
RestrictTranspose(cs, y) ==
  [i \in DOMAIN y |->
     IF i \in Targets(cs) THEN 0
     ELSE y[i] + Sum(LAMBDA t : Share(Tie(cs, t), i) * y[t], Targets(cs))]

----------------------------------------------------------------------------
(* The connected operator: residual and Jacobian-vector product.            *)

ConnectedResidual(s, cs, x, rate) ==
  LET physical == Expand(cs, x)
      reduced  == RestrictTranspose(cs, SystemResidual(s, physical, ExpandHomogeneous(cs, rate)))
  IN  [i \in DOMAIN reduced |-> IF i \in Targets(cs) THEN x[i] - physical[i] ELSE reduced[i]]

(* Mutant: the direction is expanded like a state.                          *)
ConnectedProductOffset(s, cs, dx, drate) ==
  LET delta   == Expand(cs, dx)
      reduced == RestrictTranspose(cs, SystemProduct(s, delta, ExpandHomogeneous(cs, drate)))
  IN  [i \in DOMAIN reduced |-> IF i \in Targets(cs) THEN dx[i] - delta[i] ELSE reduced[i]]

ConnectedProduct(s, cs, dx, drate) ==
  LET delta   == ExpandHomogeneous(cs, dx)
      reduced == RestrictTranspose(cs, SystemProduct(s, delta, ExpandHomogeneous(cs, drate)))
  IN  [i \in DOMAIN reduced |-> IF i \in Targets(cs) THEN dx[i] - delta[i] ELSE reduced[i]]

----------------------------------------------------------------------------
(* row_kinds.  The loop goes through the constraints in their order and     *)
(* works on the mask in place.                                              *)

(* Mutant: only the target's row is reclassified.                           *)
MaskAfterTargetOnly(mask, c) == [mask EXCEPT ![c.target + 1] = Algebraic]

(* The mask counts from 1.                                                  *)
MaskAfter(mask, c) ==
  [i \in DOMAIN mask |->
     IF i = c.target + 1 THEN Algebraic
     ELSE IF /\ mask[c.target + 1] = Differential
             /\ \E d \in Range(c.dependencies) : i = d.dof + 1
          THEN Differential
     ELSE mask[i]]

RowKinds(s, cs) ==
  LET inner == ComposedMask(s)
  IN  IF inner.reply # Ok THEN inner
      ELSE [reply |-> Ok, mask |-> FoldLeft(MaskAfter, inner.mask, cs)]

----------------------------------------------------------------------------
(* ConnectedSystemOperator::new and new_system.                             *)

(* The leaves that are realizations, and the digests of the reduced systems *)
(* among them.                                                              *)
Digests(s) ==
  LET realizations == SelectSeq(s.leaves, LAMBDA leaf : leaf.source # "Opaque")
  IN  [k \in DOMAIN realizations |->
         IF realizations[k].source = "ReducedSystem"
         THEN realizations[k].operator.digest ELSE None]

(* The unknowns of a plan count through its two endpoints in port order.    *)
ToGlobal(s, ports, local) ==
  LET split == s.leaves[ports[1]].dimension
  IN  IF local < split THEN s.offsets[ports[1]] + local
      ELSE s.offsets[ports[2]] + local - split

GlobalTies(s, plan) ==
  [k \in 1 .. Len(plan.own) |->
     [target |-> ToGlobal(s, plan.ports, plan.own[k].target), offset |-> plan.own[k].offset,
      dependencies |->
        [d \in DOMAIN plan.own[k].dependencies |->
           [dof |-> ToGlobal(s, plan.ports, plan.own[k].dependencies[d].dof),
            weight |-> plan.own[k].dependencies[d].weight]]]]

(* Mutant: a plan is kept whichever way the composition turned its ties.    *)
AnyOrientation(s, plan, cs) == Len(plan.own) = Len(cs)

SameOrientation(s, plan, cs) ==
  /\ Len(plan.own) = Len(cs)
  /\ Range(GlobalTies(s, plan)) \subseteq Range(cs)

(* new: two operators in endpoint order; the constraints are the plan's.    *)
ConnectPair(s, c) ==
  IF Digests(s) # c.operators \/ s.layout.width # c.dofs
  THEN [reply |-> "InvalidCoupling"]
  ELSE [reply |-> Ok, constraints |-> c.constraints,
        pair |-> [ports |-> <<1, 2>>, own |-> c.constraints]]

(* new_system: any number of operators and plans; the pair is kept for one  *)
(* plan over two operators that the composition has not re-oriented.        *)
ConnectSystem(s, c) ==
  IF Len(s.leaves) # Len(c.operators) \/ Digests(s) # c.operators \/ s.layout.width # c.dofs
  THEN [reply |-> "InvalidCoupling"]
  ELSE [reply |-> Ok, constraints |-> c.constraints,
        pair |-> IF /\ Len(c.plans) = 1
                    /\ Len(c.operators) = 2
                    /\ SameOrientation(s, c.plans[1], c.constraints)
                 THEN c.plans[1] ELSE None]

----------------------------------------------------------------------------
(* jacobian_diagonal.                                                       *)

UnitVector(s, i) == [j \in Unknowns(s) |-> IF j = i THEN 1 ELSE 0]
ZeroVector(s)    == [j \in Unknowns(s) |-> 0]

(* The diagonal of the shifted Jacobian under some constraints, exactly.    *)
ExactDiagonal(s, cs, shift) ==
  [i \in Unknowns(s) |->
     LET rate == [j \in Unknowns(s) |-> IF j = i THEN shift ELSE 0]
     IN  ConnectedProduct(s, cs, UnitVector(s, i), rate)[i]]

(* Finitum's diagonal for a plan: its own ties, its unknowns in port order. *)
PlanDiagonal(s, plan, shift) ==
  LET exact == ExactDiagonal(s, GlobalTies(s, plan), shift)
  IN  [local \in Unknowns(s) |-> exact[ToGlobal(s, plan.ports, local)]]

(* Scattered back into the ranges of the two leaves.                        *)
PairDiagonal(s, plan, shift) ==
  LET result == PlanDiagonal(s, plan, shift)
      split  == s.leaves[plan.ports[1]].dimension
  IN  IF \A k \in 1 .. 2 : s.leaves[k].operator.diagonal
      THEN [at \in Unknowns(s) |->
              IF at \in LeafRange(s, plan.ports[1])
              THEN result[at - s.offsets[plan.ports[1]]]
              ELSE result[split + at - s.offsets[plan.ports[2]]]]
      ELSE None

(* Each class of tied unknowns has at most one in each leaf: the leaf of    *)
(* the master is taken, and every target's leaf must still be free.         *)
MeetsLeafOnce(s, cs) ==
  \A k \in 1 .. Len(cs) :
    LET master == cs[k].dependencies[1].dof
        leaf   == LeafFor(s, cs[k].target)
    IN  /\ leaf # LeafFor(s, master)
        /\ \A j \in 1 .. k - 1 :
             cs[j].dependencies[1].dof = master => LeafFor(s, cs[j].target) # leaf

UnionDiagonal(s, cs, shift) ==
  LET sums == RestrictTranspose(cs, SystemDiagonal(s, shift))
  IN  IF /\ \A c \in Range(cs) : Len(c.dependencies) = 1 /\ c.dependencies[1].weight = 1
         /\ MeetsLeafOnce(s, cs)
         /\ SystemDiagonal(s, shift) # None
      THEN [i \in DOMAIN sums |-> IF i \in Targets(cs) THEN 1 ELSE sums[i]]
      ELSE None

ConnectedDiagonal(s, o, shift) ==
  IF s.edges # <<>> THEN None
  ELSE IF o.pair # None THEN PairDiagonal(s, o.pair, shift)
  ELSE UnionDiagonal(s, o.constraints, shift)

----------------------------------------------------------------------------
(* What the block Gauss-Seidel preconditioner is built from, for the steady *)
(* view of a composed operator (o is None) or a connected one: its leaves   *)
(* are the blocks.                                                          *)

TiesOf(o) == IF o = None THEN <<>> ELSE o.constraints
DiagonalOf(s, o, shift) ==
  IF o = None THEN SystemDiagonal(s, shift) ELSE ConnectedDiagonal(s, o, shift)

BlockRange(s, k) == s.blockLayout[k].start .. s.blockLayout[k].end - 1

(* BlockCoupling::apply: the input padded with zeros, the full product, the *)
(* rows of the block.                                                       *)
CouplingAction(s, o, row, column, input) ==
  LET padded == [j \in Unknowns(s) |-> IF j \in BlockRange(s, column) THEN input[j] ELSE 0]
      full   == ConnectedProduct(s, TiesOf(o), padded, ZeroVector(s))
  IN  [i \in BlockRange(s, row) |-> full[i]]

(* diagonal_solves divides by the diagonal: a zero refuses.                 *)
DiagonalSolves(s, o) ==
  LET diagonal == DiagonalOf(s, o, 0)
  IN  IF diagonal = None THEN None
      ELSE IF \E i \in DOMAIN diagonal : diagonal[i] = 0 THEN None
      ELSE [k \in 1 .. Len(s.blockLayout) |-> [i \in BlockRange(s, k) |-> diagonal[i]]]

----------------------------------------------------------------------------
(* The caller.                                                              *)

Init ==
  /\ leaves = <<>>
  /\ last = None
  /\ edges = None
  /\ composed = None
  /\ connected = None

(* The constructors of one leaf, each given what the one before returned.   *)
Constructed(d) ==
  CASE d.via = "new" ->
         Then(NewLayout(d.blocks), LAMBDA layout :
           Then(NewBinding(layout, d.pairs), LAMBDA binding :
             NewLeaf(d.name, d.operator, layout, binding)))
    [] d.via = "realization" ->
         Then(NewLayout(d.blocks), LAMBDA layout :
           Then(IF d.pairs = None THEN [reply |-> Ok] ELSE NewBinding(layout, d.pairs),
                LAMBDA binding :
             Then(NewCoupledOperator(d.operator, layout,
                                     IF d.pairs = None THEN None ELSE binding, d.mask),
                  LAMBDA coupled :
               Then(NewLayout(d.given), LAMBDA given :
                 RealizationLeaf(d.name, coupled.operator, given)))))
    [] d.via = "reduced" -> ReducedLeaf(d.name, d.operator)

(* A caller may then give the leaf another binding, made over any layout,   *)
(* and record its row kinds.                                                *)
Built(d) ==
  LET Rebind(built) ==
        IF d.rebind = None THEN built
        ELSE Then(NewLayout(d.rebind.blocks), LAMBDA layout :
               Then(NewBinding(layout, d.rebind.pairs), LAMBDA binding :
                 WithBinding(built.leaf, binding)))
      Mark(built) == IF d.kinds = None THEN built ELSE WithRowKinds(built.leaf, d.kinds)
  IN  Then(Then(Constructed(d), Rebind), Mark)

(* A caller stops at the first error.                                       *)
Declaring == composed = None /\ (last # None => last.built.reply = Ok)

DeclareLeaf(d) ==
  /\ Declaring
  /\ last' = [declaration |-> d, built |-> Built(d)]
  /\ leaves' = IF Built(d).reply = Ok THEN Append(leaves, Built(d).leaf) ELSE leaves
  /\ UNCHANGED <<edges, composed, connected>>

Compose(es) ==
  /\ Declaring
  /\ edges' = es
  /\ composed' = NewSystem(leaves, es)
  /\ last' = None
  /\ UNCHANGED <<leaves, connected>>

Connect(c) ==
  /\ composed # None
  /\ composed.reply = Ok
  /\ connected = None
  /\ \/ c.plans = None /\ connected' = ConnectPair(composed.system, c)
     \/ c.plans # None /\ connected' = ConnectSystem(composed.system, c)
  /\ UNCHANGED <<leaves, last, edges, composed>>

Next ==
  \/ /\ Declaring
     /\ Len(leaves) < MaxLeaves
     /\ \E d \in Declarations(Len(leaves) + 1) : DeclareLeaf(d)
  \/ Declaring /\ \E es \in Edges(leaves) : Compose(es)
  \/ /\ composed # None
     /\ composed.reply = Ok
     /\ \E c \in Connections(composed.system) : Connect(c)

Spec == Init /\ [][Next]_vars

----------------------------------------------------------------------------
(* Correctness.                                                             *)

(* Pairs that bind every block to a semantic id of its own.                 *)
Binds(pairs, ids) ==
  /\ Len(pairs) = Cardinality(ids)
  /\ {p.block : p \in Range(pairs)} = ids
  /\ Cardinality({p.semantic : p \in Range(pairs)}) = Cardinality(ids)

BlockIds(d) ==
  IF d.via = "reduced"
  THEN {Prefixed(d.name, FieldBlock(f.variable)) : f \in Range(d.operator.fields)}
  ELSE {b.id : b \in Range(d.blocks)}

Buildable(d) ==
  /\ d.name # Blank
  /\ d.via # "reduced" =>
       /\ d.blocks # <<>>
       /\ Partitions(d.blocks, d.operator.dimension)
       /\ d.via = "realization" => d.pairs # None
       /\ Binds(d.pairs, BlockIds(d))
  /\ d.via = "realization" =>
       /\ Len(d.given) = Len(d.blocks)
       /\ Range(d.given) = Range(d.blocks)
       /\ d.mask # None => Len(d.mask) = d.operator.dimension
  /\ d.rebind # None =>
       /\ Partitioned(d.rebind.blocks)
       /\ {b.id : b \in Range(d.rebind.blocks)} = BlockIds(d)
       /\ Binds(d.rebind.pairs, BlockIds(d))
  /\ d.kinds # None => Len(d.kinds) = d.operator.dimension

(* A leaf is built from blocks that cut its unknowns into named intervals,  *)
(* in any order, and from pairs that bind every block to a semantic id of   *)
(* its own, and from nothing else: the constructors of layout.rs,           *)
(* binding.rs, block_binding.rs and coupled_system.rs refuse every other    *)
(* declaration, a reduced system always makes a leaf, and a solver's blocks *)
(* tile the layout exactly if no cut of theirs is inside a state block.     *)
LayoutsPartition ==
  last # None =>
    LET d == last.declaration
    IN  /\ last.built.reply = Ok <=> Buildable(d)
        /\ last.built.reply = Ok =>
             LET leaf   == last.built.leaf
                 blocks == leaf.layout.blocks
                 pairs  == IF d.rebind # None THEN d.rebind.pairs ELSE d.pairs
             IN  /\ Partitions(blocks, leaf.dimension)
                 /\ Ids(leaf.layout) = BlockIds(d)
                 /\ d.via # "reduced" => Range(blocks) = Range(d.blocks)
                 /\ d.via # "reduced" \/ d.rebind # None =>
                      \A p \in Range(pairs) : SemanticFor(leaf.binding, p.block) = p.semantic
                 /\ \A k \in 1 .. Len(blocks) - 1 : blocks[k].end = blocks[k + 1].start
                 /\ \A lengths \in
                        UNION {[1 .. n -> 1 .. leaf.dimension] : n \in 1 .. leaf.dimension} :
                      Tiles(SolverLayout(lengths), blocks) <=>
                        /\ Last(SolverLayout(lengths)).end = leaf.dimension
                        /\ Cuts(SolverLayout(lengths)) \subseteq Cuts(blocks)

(* What can be wrong with a composition of leaves that are right by         *)
(* themselves: names, block ids or semantic ids that two leaves share, and  *)
(* edges that do not fit; never a gap or an overlap.                        *)
Composable ==
  /\ leaves # <<>>
  /\ \A j, k \in 1 .. Len(leaves) : j # k =>
       /\ leaves[j].name # leaves[k].name
       /\ Ids(leaves[j].layout) \cap Ids(leaves[k].layout) = {}
       /\ DOMAIN leaves[j].binding.map \cap DOMAIN leaves[k].binding.map = {}
  /\ \A e \in Range(edges) : \E j, k \in 1 .. Len(leaves) :
       /\ j # k
       /\ leaves[j].name = e.row /\ leaves[j].dimension = e.rows
       /\ leaves[k].name = e.column /\ leaves[k].dimension = e.columns

(* The values a source gives to a block on a mesh with so many vertices.    *)
Fills(source, width, vertices) ==
  /\ source.kind \in PointwiseKinds
  /\ source.finite
  /\ source.kind = "Fallible" => ~source.refuses
  /\ width % vertices = 0
  /\ source.length * (IF source.kind = "Nodal" THEN 1 ELSE vertices) = width

(* Composition keeps every leaf as it was, one after the other: a block of  *)
(* the composed layout is a block of a leaf, at its place in the range of   *)
(* that leaf and under its own semantic id; a solver with one block a leaf  *)
(* tiles the layout, and the order the edges are given in does not matter.  *)
(* An initial state projected leaf by leaf has in every block the values    *)
(* given for it, and there is one exactly if every block is given some once.*)
CompositionPlacesLeaves ==
  composed # None =>
    /\ composed.reply = Ok <=> Composable
    /\ composed.reply = Ok =>
         LET s == composed.system
         IN  /\ \A k \in 1 .. Len(leaves) : \A block \in Range(leaves[k].layout.blocks) :
                  LET placed == Block(s.layout, block.id)
                  IN  /\ placed.start = s.offsets[k] + block.start
                      /\ placed.start .. placed.end - 1 \subseteq LeafRange(s, k)
                      /\ SemanticFor(s.binding, block.id) = SemanticFor(leaves[k].binding, block.id)
             /\ Partitions(s.layout.blocks, s.layout.width)
             /\ \A at \in Unknowns(s) : \E k \in 1 .. Len(leaves) :
                  at \in LeafRange(s, k) /\ at \in BlockRange(s, k)
             /\ Tiles(s.blockLayout, s.layout.blocks)
             /\ NewSystem(leaves, Reverse(edges)) = composed
             /\ connected = None => \A bindings \in Projections(s) :
                  LET initial  == InitialState(s, bindings)
                      width(b) == Block(s.layout, b).end - Block(s.layout, b).start
                      mesh(b)  == s.leaves[LeafFor(s, Block(s.layout, b).start)].operator.vertices
                  IN  /\ initial.reply = Ok <=>
                           /\ \A leaf \in Range(leaves) : leaf.source # "Opaque"
                           /\ {b.block : b \in Range(bindings)} = Ids(s.layout)
                           /\ Len(bindings) = Len(s.layout.blocks)
                           /\ \A b \in Range(bindings) : Fills(b.source, width(b.block), mesh(b.block))
                      /\ initial.reply = Ok =>
                           \A b \in Range(bindings) :
                             initial.fields[b.block] =
                               [length |-> width(b.block), content |-> b.source.content]

IsConnected == connected # None /\ connected.reply = Ok

(* A row of a leaf that stores no state gets no rate through an edge.       *)
RateEdgesFit(s) ==
  \A e \in Range(s.edges) : e.argument = 1 =>
    s.leaves[e.row].operator.stores = 0 .. s.leaves[e.row].dimension - 1

(* The rows the connected mask marks differential are those the rate really *)
(* enters, whatever is tied to what: consistent initialization solves for   *)
(* the rates of the ones and tests the others at rate zero.  It takes leaves*)
(* whose own masks are right and rate edges into differential rows only.    *)
RowsMatchRates ==
  IsConnected =>
    LET s    == composed.system
        cs   == connected.constraints
        kind == RowKinds(s, cs)
    IN  (kind.reply = Ok /\ RateEdgesFit(s)) =>
          \A i \in Unknowns(s) :
            kind.mask[i + 1] = Differential <=>
              \E j \in Unknowns(s) :
                ConnectedProduct(s, cs, ZeroVector(s), UnitVector(s, j))[i] # 0

(* The composition, or the connection made over it.                         *)
IsOperator == /\ composed # None
              /\ composed.reply = Ok
              /\ connected # None => connected.reply = Ok

Plus(x, y) == [i \in DOMAIN x |-> x[i] + y[i]]

(* A point no coefficient is special at.                                    *)
PointOf(s, p) == [i \in Unknowns(s) |-> p * (i + 1) - i * i]

(* The initial state of a composition with a rate of its own making all     *)
(* rows vanish under some forcing, or all but one row.                      *)
Forcings(s, cs, mask, x) ==
  LET rate    == [i \in Unknowns(s) |-> IF mask[i + 1] = Differential THEN 1 ELSE 0]
      balance == ConnectedResidual(s, cs, x, rate)
  IN  {balance} \cup {[balance EXCEPT ![i] = @ + 1] : i \in Unknowns(s)}

(* An initial state that is accepted, under either policy, violates no row  *)
(* that no rate enters; a rate that is returned makes every row vanish; and *)
(* a state refused for an algebraic row "cannot be repaired by any choice   *)
(* of differential state rate", nor of any rate: through every tie and edge.*)
InitializationDecides ==
  IsOperator =>
    LET s    == composed.system
        cs   == TiesOf(connected)
        kind == RowKinds(s, cs)
    IN  (kind.reply = Ok /\ RateEdgesFit(s)) =>
          LET x    == Expand(cs, PointOf(s, 2))
              rateless == {i \in Unknowns(s) : \A j \in Unknowns(s) :
                             ConnectedProduct(s, cs, ZeroVector(s), UnitVector(s, j))[i] = 0}
          IN  \A forcing \in Forcings(s, cs, kind.mask, x) :
                LET residual == [rate \in [Unknowns(s) -> RateValues] |->
                      LET here == ConnectedResidual(s, cs, x, rate)
                      IN  [i \in Unknowns(s) |-> here[i] - forcing[i]]]
                    atRest  == residual[ZeroVector(s)]
                    answers == StateRates(residual, kind.mask)
                IN  /\ \A policy \in {"Always", "WhenAlgebraic"} :
                         "Ok" \in Initializations(residual, kind.mask, policy) =>
                           \A i \in rateless : atRest[i] = 0
                    /\ \A a \in answers : a.reply = "Ok" => residual[a.rate] = ZeroVector(s)
                    /\ [reply |-> "InvalidCoupling"] \in answers =>
                         \A rate \in [Unknowns(s) -> RateValues] :
                           residual[rate] # ZeroVector(s)

(* The product is the derivative of the residual in every direction of the  *)
(* state and of the rate, at every point: the offsets of the ties enter the *)
(* one and not the other, and an edge reads the argument it names.          *)
LinearizationExact ==
  IsOperator =>
    LET s    == composed.system
        cs   == TiesOf(connected)
        zero == ZeroVector(s)
    IN  \A p \in Points :
          LET x    == PointOf(s, p)
              r    == PointOf(s, p + 1)
              here == ConnectedResidual(s, cs, x, r)
          IN  \A j \in Unknowns(s) :
                LET e == UnitVector(s, j)
                IN  /\ ConnectedResidual(s, cs, Plus(x, e), r)
                         = Plus(here, ConnectedProduct(s, cs, e, zero))
                    /\ ConnectedResidual(s, cs, x, Plus(r, e))
                         = Plus(here, ConnectedProduct(s, cs, zero, e))

(* Whenever an operator gives out a diagonal it is that of its Jacobian, on *)
(* each of the ways to it, and what the block Gauss-Seidel preconditioner   *)
(* gets is the Jacobian but for the inside of the blocks: each coupling and *)
(* each diagonal solve has its entries.                                     *)
SplittingExact ==
  IsOperator =>
    LET s      == composed.system
        solves == DiagonalSolves(s, connected)
    IN  /\ \A shift \in Shifts :
             LET diagonal == DiagonalOf(s, connected, shift)
             IN  diagonal # None => diagonal = ExactDiagonal(s, TiesOf(connected), shift)
        /\ solves # None =>
             \A column \in 1 .. Len(s.blockLayout) : \A j \in BlockRange(s, column) :
               LET product == ConnectedProduct(s, TiesOf(connected), UnitVector(s, j), ZeroVector(s))
               IN  /\ solves[column][j] = product[j]
                   /\ \A row \in 1 .. Len(s.blockLayout) : row # column =>
                        LET action == CouplingAction(s, connected, row, column, UnitVector(s, j))
                        IN  \A i \in DOMAIN action : action[i] = product[i]
=============================================================================
