----------------------- MODULE MCBlockLinearExecution -----------------------
(* Small instances of BlockLinearExecution for TLC. *)
EXTENDS BlockLinearExecution

CONSTANTS s1, va, vb

MCBlockLen == [b \in Blocks |-> 1]

(* The state part of a checkpoint as it was taken, and one of a foreign      *)
(* layout, which the state refuses.                                          *)
MCDelivered(c) == {c, [c EXCEPT !.ownLayout = FALSE]}
=============================================================================
