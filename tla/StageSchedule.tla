--------------------------- MODULE StageSchedule ---------------------------
(***************************************************************************)
(* What CouplingGraph promises of its stages: they are the strongly        *)
(* connected components of the leaves, put in an order in which every leaf *)
(* depends only on leaves of its own or of an earlier stage.               *)
(***************************************************************************)
EXTENDS Naturals, Sequences

CONSTANT Nodes

VARIABLES
  arcs,    (* <<row, column>>: the residual of leaf row depends on column *)
  stages   (* the components scheduled so far, as sets                    *)

(* A leaf depends on every leaf in all closed sets it is in. *)
Closed(S)    == \A arc \in arcs : arc[1] \in S => arc[2] \in S
Reached(a)   == {b \in Nodes : \A S \in SUBSET Nodes : a \in S /\ Closed(S) => b \in S}
Component(a) == {b \in Reached(a) : a \in Reached(b)}
Scheduled    == UNION {stages[k] : k \in DOMAIN stages}

Init ==
  /\ arcs \subseteq Nodes \X Nodes
  /\ stages = <<>>

(* The next stage is a component all of whose dependencies are scheduled. *)
Schedule(a) ==
  /\ a \notin Scheduled
  /\ Reached(a) \subseteq Scheduled \cup Component(a)
  /\ stages' = Append(stages, Component(a))
  /\ UNCHANGED arcs

Next == \E a \in Nodes : Schedule(a)

Spec == Init /\ [][Next]_<<arcs, stages>>
=============================================================================
