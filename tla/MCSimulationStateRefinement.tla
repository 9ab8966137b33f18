--------------------- MODULE MCSimulationStateRefinement ---------------------
(* Small instances of SimulationStateRefinement for TLC. *)
EXTENDS SimulationStateRefinement

CONSTANTS s1, va, vb

MCBlockLen == [b \in Blocks |-> 1]

(* The checkpoint as it was taken, and altered copies restore must refuse.  *)
FaithfulDelivery(c) ==
  {c, [c EXCEPT !.ownLayout = FALSE], [c EXCEPT !.time = NonFinite]}
  \cup {[c EXCEPT !.committed[b] = None] : b \in Blocks}
  \cup {[c EXCEPT !.history[b] = Append(@, [len |-> 2, val |-> va])] : b \in Blocks}
=============================================================================
