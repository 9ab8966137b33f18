-------------------------- MODULE MCConnectedSystem --------------------------
(* Small instances of ConnectedSystem for TLC. *)
EXTENDS ConnectedSystem

Number(name) == CASE name = "A" -> 1 [] name = "B" -> 2 [] OTHER -> 3

(* Coefficients without a pattern; the first one of leaf C is zero.          *)
MCStateCoefficient(name, i, j) ==
  IF name = "C" /\ i = 0 /\ j = 0 THEN 0 ELSE 7 * Number(name) + 3 * i + 5 * j + i * j + 1
MCRateCoefficient(name, i, j) == Number(name) + i + 2 * j
MCForcing(name, i)            == 11 * Number(name) + i
MCEdgeCoefficient(e, i, j)    == 2 * e + i + 3 * j

SeqsUpTo(S, n) == UNION {[1 .. k -> S] : k \in 0 .. n}

MCFieldBlock(v) ==
  CASE v = 1 -> "field_1" [] v = 2 -> "field_2" [] v = 3 -> "field_3" [] OTHER -> "field_4"
MCPrefixed(name, id) == name \o "/" \o id

OperatorOf(digest, dimension, stores, diagonal, fields, vertices) ==
  [digest |-> digest, dimension |-> dimension, stores |-> stores, diagonal |-> diagonal,
   fields |-> fields, vertices |-> vertices]

Declaration(via, name, operator, blocks, pairs, kinds) ==
  [via |-> via, name |-> name, operator |-> operator, blocks |-> blocks, pairs |-> pairs,
   given |-> blocks, mask |-> None, rebind |-> None, kinds |-> kinds]

(* Every declaration of up to two blocks on up to two unknowns, right or     *)
(* wrong.                                                                    *)
AnyNew ==
  {Declaration("new", "A", OperatorOf("dA", n, {0}, TRUE, <<>>, 1), b, p,
               IF n = 2 THEN <<Differential, Algebraic>> ELSE <<Differential>>) :
     n \in {1, 2},
     b \in SeqsUpTo([id : {"p", "q", Blank}, start : {0, 1}, end : {0, 1, 2}], 2),
     p \in SeqsUpTo([semantic : {1, 2}, block : {"p", "q"}], 2)}

BlockOf(id, start, end) == [id |-> id, start |-> start, end |-> end]
Pair(semantic, id)      == [semantic |-> semantic, block |-> id]

(* Realizations: with and without binding and mask, over their own layout    *)
(* and over another.                                                         *)
Realizations ==
  LET two == <<BlockOf("p", 0, 1), BlockOf("q", 1, 2)>>
      right == [Declaration("realization", "A", OperatorOf("dA", 2, {0}, TRUE, <<>>, 1), two,
                            <<Pair(2, "p"), Pair(1, "q")>>, None)
                  EXCEPT !.mask = <<Differential, Algebraic>>]
  IN  {right,
       [right EXCEPT !.given = Reverse(two)],
       [right EXCEPT !.given = <<BlockOf("p", 0, 2)>>],
       [right EXCEPT !.given = <<two[1]>> \o two],
       [right EXCEPT !.pairs = None],
       [right EXCEPT !.pairs = <<Pair(1, "q")>>],
       [right EXCEPT !.mask = <<Differential>>],
       [right EXCEPT !.mask = None],
       [right EXCEPT !.mask = None, !.kinds = <<Differential, Algebraic>>],
       [right EXCEPT !.operator.dimension = 3],
       [right EXCEPT !.name = Blank]}

Field(variable, offset, extent) == [variable |-> variable, offset |-> offset, extent |-> extent]

Reduced(name, operator, kinds) == Declaration("reduced", name, operator, <<>>, None, kinds)

(* Reduced systems of one or two fields, with a binding of their own or      *)
(* another, made over their blocks or over others.                           *)
ReducedFirst ==
  LET two  == Reduced("A", OperatorOf("dA", 2, {0}, TRUE, <<Field(1, 0, 1), Field(2, 1, 1)>>, 1),
                      <<Differential, Algebraic>>)
      one  == Reduced("A", OperatorOf("dA", 1, {0}, TRUE, <<Field(1, 0, 1)>>, 1), <<Differential>>)
      over(blocks, pairs) == [blocks |-> blocks, pairs |-> pairs]
      own  == <<BlockOf("A/field_1", 0, 1), BlockOf("A/field_2", 1, 2)>>
  IN  {two, one,
       [two EXCEPT !.kinds = None],
       [two EXCEPT !.kinds = <<Differential>>],
       [two EXCEPT !.operator.vertices = 2],
       [two EXCEPT !.name = Blank],
       [two EXCEPT !.rebind = over(own, <<Pair(1, "A/field_2"), Pair(3, "A/field_1")>>)],
       [two EXCEPT !.rebind = over(<<BlockOf("A/field_2", 2, 3), BlockOf("A/field_1", 0, 2)>>,
                                   <<Pair(1, "A/field_2"), Pair(3, "A/field_1")>>)],
       [two EXCEPT !.rebind = over(<<BlockOf("A/field_1", 0, 1), BlockOf("A/field_2", 2, 3)>>,
                                   <<Pair(1, "A/field_2"), Pair(3, "A/field_1")>>)],
       [two EXCEPT !.rebind = over(own, <<Pair(1, "A/field_2")>>)],
       [two EXCEPT !.rebind = over(own, <<Pair(1, "A/field_2"), Pair(1, "A/field_1")>>)],
       [two EXCEPT !.rebind = over(<<BlockOf("A/field_1", 0, 1)>>, <<Pair(1, "A/field_1")>>)]}

(* Second and third leaves: some clash with others, some are not Finitum's,  *)
(* some have no mask or no diagonal, some store no state.  B may be another  *)
(* instance of the model of A, as it comes or rebound.                       *)
OtherLeaf(n) ==
  LET B(variable, extent, stores, vertices) ==
        OperatorOf("dB", extent, stores, TRUE, <<Field(variable, 0, extent)>>, vertices)
      C(stores, diagonal) ==
        OperatorOf("dC", IF diagonal THEN 1 ELSE 2, stores, diagonal,
                   <<Field(4, 0, IF diagonal THEN 1 ELSE 2)>>, 1)
      other(id, semantic, via) ==
        Declaration(via, "B", B(3, 1, {0}, 1), <<BlockOf(id, 0, 1)>>, <<Pair(semantic, id)>>, None)
      twin == Reduced("B", B(1, 1, {0}, 1), <<Differential>>)
  IN  CASE n = 2 ->
             {Reduced("B", B(3, 2, {0, 1}, 2), <<Differential, Differential>>),
              Reduced("B", B(3, 1, {}, 1), <<Algebraic>>),
              Reduced("B", B(3, 1, {0}, 1), None),
              Reduced("A", B(3, 1, {}, 1), <<Algebraic>>),
              Reduced(Blank, B(3, 1, {}, 1), None),
              twin,
              [twin EXCEPT !.rebind = [blocks |-> <<BlockOf("B/field_1", 0, 1)>>,
                                       pairs |-> <<Pair(3, "B/field_1")>>]],
              other("u", 3, "new"), other("p", 3, "realization"), other("u", 2, "realization"),
              other("u", 3, "realization")}
        [] n = 3 ->
             {Reduced("C", C({}, TRUE), <<Algebraic>>),
              Reduced("C", C({1}, FALSE), <<Algebraic, Differential>>)}
        [] OTHER -> {}

AnyFirst          == AnyNew \cup Realizations \cup ReducedFirst
MCDeclarations(n) == IF n = 1 THEN AnyFirst ELSE OtherLeaf(n)

Edge(row, column, argument, identity, rows, columns) ==
  [row |-> row, column |-> column, argument |-> argument, identity |-> identity,
   rows |-> rows, columns |-> columns]

MCEdges(ls) ==
  IF Len(ls) < 2 THEN {<<>>}
  ELSE LET r == ls[1].name
           c == ls[2].name
           m == ls[1].dimension
           n == ls[2].dimension
       IN  {<<>>,
            <<Edge(c, r, 0, 1, n, m)>>,
            <<Edge(c, r, 1, 2, n, m)>>,
            <<Edge(r, c, 1, 3, m, n), Edge(c, r, 0, 1, n, m)>>,
            <<Edge(c, r, 1, 2, n, m), Edge(c, r, 0, 4, n, m), Edge(c, r, 0, 1, n, m)>>,
            <<Edge(r, r, 0, 1, m, m)>>,
            <<Edge(r, c, 0, 1, n + 1, n)>>,
            <<Edge(r, "Z", 0, 1, m, 1)>>}

(* Ties of one unknown to another or to two others.                          *)
TiesFor(w) ==
  {[target |-> t, offset |-> 5 + t, dependencies |-> <<[dof |-> m, weight |-> 1]>>] :
     t \in 0 .. w - 1, m \in 0 .. w - 1}
  \cup
  {[target |-> t, offset |-> 0,
    dependencies |-> <<[dof |-> 0, weight |-> 2], [dof |-> 1, weight |-> 3]>>] : t \in 0 .. w - 1}

Masters(c) == {d.dof : d \in Range(c.dependencies)}

ConstraintSets(w) ==
  {<<c>> : c \in {d \in TiesFor(w) : d.target \notin Masters(d)}}
  \cup
  {cs \in {<<c, d>> : c \in TiesFor(w), d \in TiesFor(w)} :
     /\ cs[1].target < cs[2].target
     /\ {cs[1].target, cs[2].target} \cap (Masters(cs[1]) \cup Masters(cs[2])) = {}}

(* A plan's own view of the ties of a system of two leaves: through its ports*)
(* in either order, as they are or with target and master swapped.           *)
ToLocal(s, ports, dof) ==
  IF dof \in LeafRange(s, ports[1]) THEN dof - s.offsets[ports[1]]
  ELSE s.leaves[ports[1]].dimension + dof - s.offsets[ports[2]]

OwnTies(s, ports, cs, swapped) ==
  [k \in DOMAIN cs |->
     LET master == cs[k].dependencies[1].dof
         target == IF swapped THEN master ELSE cs[k].target
     IN  [target |-> ToLocal(s, ports, target), offset |-> cs[k].offset,
          dependencies |->
            [d \in DOMAIN cs[k].dependencies |->
               [dof |-> ToLocal(s, ports, IF swapped /\ d = 1 THEN cs[k].target
                                          ELSE cs[k].dependencies[d].dof),
                weight |-> cs[k].dependencies[d].weight]]]]

Connection(s, plans, cs) ==
  [operators |-> [k \in 1 .. Len(s.leaves) |-> s.leaves[k].operator.digest],
   dofs |-> s.layout.width, plans |-> plans, constraints |-> cs]

Plans(s, cs) ==
  IF Len(s.leaves) = 2
  THEN {<<[ports |-> ports, own |-> OwnTies(s, ports, cs, swapped)]>> :
          ports \in {<<1, 2>>, <<2, 1>>}, swapped \in {b \in BOOLEAN : b => Len(cs) = 1}}
       \cup {None}
  ELSE {<<"one", "another">>}

(* The ties are tried on the leaves that are reduced systems.                *)
MCConnections(s) ==
  IF Len(s.leaves) > 1 /\ s.leaves[1].source = "ReducedSystem"
  THEN {Connection(s, plans, <<>>) : plans \in Plans(s, <<>>)}
       \cup UNION {{Connection(s, plans, cs) : plans \in Plans(s, cs)} : cs \in
              IF s.edges = <<>> THEN ConstraintSets(s.layout.width)
              ELSE {c \in ConstraintSets(s.layout.width) :
                      Len(c) = 1 /\ c[1].target = s.layout.width - 1}}
       \cup {[Connection(s, <<"one", "another">>, <<>>) EXCEPT !.operators = Reverse(@)]}
  ELSE {}

(* Values for every block, and what may be wrong with those for the last.    *)
Source(kind, length, content) ==
  [kind |-> kind, length |-> length, finite |-> TRUE, refuses |-> FALSE, content |-> content]

MCProjections(s) ==
  LET blocks   == s.layout.blocks
      width(k) == blocks[k].end - blocks[k].start
      right    == [k \in DOMAIN blocks |->
                     [block |-> blocks[k].id, source |-> Source("Nodal", width(k), k)]]
      n        == Len(blocks)
      sources  == {Source(kind, length, n) :
                     kind \in {"Constant", "Nodal", "Fallible", "Kernel"}, length \in {1, 2}}
                  \cup {[Source("Nodal", width(n), n) EXCEPT !.finite = FALSE],
                        [Source("Fallible", width(n), n) EXCEPT !.refuses = TRUE]}
  IN  {Reverse(right), Tail(right), Append(right, Head(right)),
       Append(right, [Head(right) EXCEPT !.source.content = 0]),
       Append(right, [Head(right) EXCEPT !.block = "unknown"])}
      \cup {[right EXCEPT ![n].source = source] : source \in sources}
=============================================================================
