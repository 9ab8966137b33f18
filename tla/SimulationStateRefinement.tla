---------------------- MODULE SimulationStateRefinement ----------------------
(***************************************************************************)
(* SimulationState implements CommittedTrajectory: the per-field histories *)
(* zip into whole earlier snapshots, begin_trial, set_trial, rollback and  *)
(* every refused call are invisible, and commit and restore are atomic.    *)
(***************************************************************************)
EXTENDS SimulationState

(* The k-th levels of all histories, as one snapshot of the fields. *)
Levels(h) == [k \in 1 .. Len(h[1]) |-> [b \in Blocks |-> h[b][k]]]

(* A checkpoint, as a moment of the trajectory. *)
Moment(c) ==
  << [values |-> c.committed, time |-> c.time, step |-> c.step],
     Levels(c.history), c.historyLimit >>

Trajectory == INSTANCE CommittedTrajectory WITH
  now   <- [values |-> committed, time |-> time, step |-> step],
  past  <- Levels(history),
  limit <- historyLimit,
  kept  <- {Moment(c) : c \in saved}

(* What restore requires of a checkpoint whatever the live state is.        *)
WellFormed(c) ==
  /\ c.ownLayout
  /\ c.time # NonFinite
  /\ \A b \in Blocks : /\ c.committed[b] # None
                       /\ Fits(c.committed[b], BlockLen[b])
                       /\ HistoryFits(c, b)

(* Callers hand back what checkpoint gave them, or something that cannot    *)
(* pass for a checkpoint.                                                   *)
HonestDelivery ==
  \A c \in Checkpoint : \A d \in Delivered(c) \cap Checkpoint : WellFormed(d) => d = c

(* Every step of the state, seen through its fields, their time and their   *)
(* zipped histories, is a step of the abstract trajectory or no step.       *)
ImplementsTrajectory == Trajectory!Spec
=============================================================================
