------------------------ MODULE MCExplicitExecution -------------------------
(* Small instances of ExplicitExecution for TLC. *)
EXTENDS ExplicitExecution

CONSTANTS va

MCBlockLen == [b \in Blocks |-> 1]

(* The state part of a checkpoint as it was taken, and one of a foreign      *)
(* layout, which the state refuses.                                          *)
MCDelivered(c) == {c, [c EXCEPT !.ownLayout = FALSE]}
=============================================================================
