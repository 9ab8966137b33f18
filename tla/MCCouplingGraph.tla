--------------------------- MODULE MCCouplingGraph ---------------------------
(* Small instances of CouplingGraph for TLC. *)
EXTENDS CouplingGraph

(* Any state edges, and a rate edge that may double a state edge.            *)
MCEdges ==
  {e \in [row : Nodes, column : Nodes, argument : Arguments] :
     e.row # e.column /\ (e.argument = 1 => e.row = 1 /\ e.column = 0)}
=============================================================================
