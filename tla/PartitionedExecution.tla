------------------------ MODULE PartitionedExecution ------------------------
(***************************************************************************)
(* PartitionedExecution: steady partitioned solves inside the state's      *)
(* transaction.  One sweep visits every leaf once (a block Newton step of  *)
(* Methodus, an external crate); run_partitioned applies one sweep, or     *)
(* sweeps under Methodus's fixed-point driver until the change of the      *)
(* state is within the tolerance.  Each sweep is also watched by Krasis:   *)
(* growth, or a correction no damping of which reduces the residual, is    *)
(* divergence, unless the sweep before was down at the rounding floor.     *)
(*                                                                         *)
(*   idle -> validating -> sweeping <-> accelerating                       *)
(*               |            |              |                             *)
(*               |            +-> writing <--+                             *)
(*               |            |      |   \                                 *)
(*               +-------- rollingBack    committing -> idle               *)
(***************************************************************************)
EXTENDS Integers, Sequences, FiniteSets

CONSTANTS
  NBlocks, BlockLen, Slots, Lens, Vals, Zero, Times, NonFinite, None,
  MaxStep, HistoryLimits, MaxSaved, Delivered(_),  (* See SimulationState.   *)
  Changes,     (* The finite changes, in the sup norm, a sweep may make.     *)
  Unbounded,   (* A change that is not finite, above every one that is.      *)
  Floors,      (* The rounding floors: a floor depends on the sweep's input. *)
  Spread,      (* The l2 norm of a change is at most Spread times its sup.   *)
  Tolerance,   (* Implicit: the tolerance,                                   *)
  MaxSweeps,   (* and the sweep evaluations allowed.                         *)
  Growth       (* divergence_growth.                                         *)

ASSUME SweepAssumption ==
  /\ Changes \subseteq Nat
  /\ Unbounded \in Nat
  /\ Floors \subseteq Nat \ {0}
  /\ Spread \in Nat \ {0}
  /\ \A c \in Changes : Growth * c < Unbounded /\ Tolerance < Unbounded

(* What validate admits.                                                    *)
ASSUME ConfigAssumption ==
  Tolerance \in Nat \ {0} /\ MaxSweeps \in Nat \ {0, 1} /\ Growth \in Nat \ {0, 1}

VARIABLES
  phase, historyLimit, time, step, committed, trial, history, reply, (* state *)
  checkpoints,  (* the PartitionedCheckpoints the caller keeps               *)
  pc,           (* where the call in progress is, idle when there is none    *)
  run,          (* the iteration of the last call to solve: see NewRun       *)
  result,       (* what the last call returned                               *)
  before        (* the state as the last call found it (history variable)    *)

Sim == INSTANCE SimulationState WITH saved <- {c.state : c \in checkpoints}

(* What SimulationState assumes of the constants they share.                *)
ASSUME StateAssumption ==
  Sim!LayoutAssumption /\ Sim!ValueAssumption /\ Sim!BoundAssumption

simVars == <<phase, historyLimit, time, step, committed, trial, history, reply>>
vars    == <<simVars, checkpoints, pc, run, result, before>>

Blocks == 1 .. NBlocks
Flats  == [Blocks -> Vals \cup {NonFinite}]
Steady == UNCHANGED <<simVars, checkpoints>>
FlatOf(v) == [b \in Blocks |-> v[b].val]

Snapshot ==
  [committed |-> committed, history |-> history, limit |-> historyLimit,
   time |-> time, step |-> step]

(* The commit time; Once or Implicit; SweepRecords: the change of each      *)
(* sweep recorded (previous_change is the last of them), the raw output of  *)
(* the latest, and a failure kept aside; and the floor of the latest sweep  *)
(* evaluated, recorded or refused.                                          *)
NewRun(goal, once) ==
  [goal |-> goal, once |-> once, sweeps |-> <<>>, image |-> None,
   failure |-> FALSE, floor |-> 0]

----------------------------------------------------------------------------
(* Before new, and new itself, which takes a state of any step.             *)

Prepare ==
  /\ pc = "preparing"
  /\ UNCHANGED <<checkpoints, pc, run, result, before>>
  /\ \/ \E b \in Blocks, x \in Vals :
          Sim!InsertField(b, [len |-> BlockLen[b], val |-> x])
     \/ Sim!BeginTrial
     \/ Sim!Commit(time)
     \/ Sim!Rollback

Create ==
  /\ pc = "preparing"
  /\ phase = "Committed"
  /\ Sim!Complete
  /\ pc' = "idle"
  /\ UNCHANGED <<run, result, before>>
  /\ Steady

----------------------------------------------------------------------------
(* solve and run_partitioned.                                               *)

Solve(goal, once) ==
  /\ pc = "idle"
  /\ before' = Snapshot
  /\ run' = NewRun(goal, once)
  /\ pc' = "validating"
  /\ UNCHANGED <<checkpoints, result>>
  /\ Sim!BeginTrial

Verdict(r) == pc' = "rollingBack" /\ result' = r

(* A configuration outside ConfigAssumption is refused inside the trial.    *)
Validate ==
  /\ pc = "validating"
  /\ \/ pc' = "sweeping" /\ UNCHANGED result
     \/ Verdict("Failed")
  /\ UNCHANGED <<run, before>>
  /\ Steady

First    == run.sweeps = <<>>
Previous == run.sweeps[Len(run.sweeps)]

(* Mutant: the floor is not considered.                                     *)
AboveAnyFloor(floor) == ~First
AboveFloor(floor) == ~First /\ Previous > floor

Grew(change, floor) ==
  AboveFloor(floor) /\ (change = Unbounded \/ change > Growth * Previous)

(* A sweep that solve_blocks completes is recorded, unless it has grown.    *)
Swept(floor) ==
  \E change \in Changes \cup {Unbounded}, image \in Flats :
    IF Grew(change, floor)
    THEN run' = [run EXCEPT !.floor = floor] /\ Verdict("Diverged")
    ELSE /\ run' = [run EXCEPT !.sweeps = Append(@, change), !.image = image, !.floor = floor]
         /\ pc' = IF run.once THEN "writing" ELSE "accelerating"
         /\ UNCHANGED result

(* No admissible damping reduces the residual; to say so the residual is    *)
(* evaluated once more, which can fail by itself.                           *)
LineSearchFailed(floor) ==
  /\ run' = [run EXCEPT !.floor = floor]
  /\ \/ Verdict("Numeric")
     \/ Verdict(IF ~First /\ ~AboveFloor(floor) THEN "MaxSweeps" ELSE "Diverged")

(* Any other failure is kept aside, and Methodus is given a placeholder.    *)
SweepFailed(floor) ==
  /\ run' = [run EXCEPT !.failure = TRUE, !.floor = floor]
  /\ Verdict("Failed")

SweepRefused(floor) ==
  /\ run' = [run EXCEPT !.floor = floor]
  /\ Verdict("Numeric")

(* evaluate, one sweep.                                                     *)
Sweep ==
  /\ pc = "sweeping"
  /\ \E floor \in Floors :
       Swept(floor) \/ LineSearchFailed(floor) \/ SweepFailed(floor) \/ SweepRefused(floor)
  /\ UNCHANGED before
  /\ Steady

(* Mutant: the driver is allowed one evaluation more.                       *)
ExhaustedLate == Len(run.sweeps) = MaxSweeps + 1
Exhausted     == Len(run.sweeps) = MaxSweeps

(* Mutant: an exhausted iteration is started over.                          *)
AccelerateAgain ==
  /\ pc = "accelerating"
  /\ \E residual \in Previous .. Spread * Previous :
       IF residual <= Tolerance
       THEN pc' = "writing" /\ UNCHANGED run
       ELSE /\ pc' = "sweeping"
            /\ run' = IF Exhausted THEN NewRun(run.goal, run.once) ELSE run
  /\ UNCHANGED <<before, result>>
  /\ Steady

(* Methodus's driver: within the tolerance it stops, at the last evaluation *)
(* it gives up; otherwise it may break down, or relaxes and sweeps again.   *)
(* Any error of its own, at any of these, is passed on.                     *)
Accelerate ==
  /\ pc = "accelerating"
  /\ \E residual \in Previous .. Spread * Previous :
       \/ Verdict("Numeric")
       \/ residual <= Tolerance /\ pc' = "writing" /\ UNCHANGED result
       \/ /\ residual > Tolerance
          /\ \/ Exhausted /\ Verdict("MaxSweeps")
             \/ ~Exhausted /\ Verdict("Breakdown")
             \/ ~Exhausted /\ pc' = "sweeping" /\ UNCHANGED result
  /\ UNCHANGED <<run, before>>
  /\ Steady

----------------------------------------------------------------------------
(* The rest of solve.                                                       *)

Write ==
  /\ pc = "writing"
  /\ UNCHANGED <<checkpoints, run, before>>
  /\ LET f == [fits |-> TRUE, at |-> run.image]
     IN  \/ /\ Sim!SetTrialVector(f)
            /\ pc' = "committing"
            /\ UNCHANGED result
         \/ /\ ~Sim!CanSetTrialVector(f)
            /\ Sim!Refuse
            /\ Verdict("Err")

CommitTrial ==
  /\ pc = "committing"
  /\ UNCHANGED <<checkpoints, run, before>>
  /\ \/ /\ Sim!Commit(run.goal)
        /\ pc' = "idle"
        /\ result' = IF run.once THEN "OnceApplied" ELSE "Converged"
     \/ /\ ~Sim!CanCommit(run.goal)
        /\ Sim!Refuse
        /\ Verdict("Err")

(* Mutant: a refused solve commits what the trial holds.                    *)
CommitRefused ==
  /\ pc = "rollingBack"
  /\ UNCHANGED <<checkpoints, run, result, before>>
  /\ IF Sim!CanCommit(run.goal) THEN Sim!Commit(run.goal) ELSE Sim!Rollback
  /\ pc' = "idle"

(* Mutant: a refused solve returns with the trial open.                     *)
RollBackForgotten ==
  /\ pc = "rollingBack"
  /\ UNCHANGED <<run, result, before>>
  /\ Steady
  /\ pc' = "idle"

RollBack ==
  /\ pc = "rollingBack"
  /\ UNCHANGED <<checkpoints, run, result, before>>
  /\ Sim!Rollback
  /\ pc' = "idle"

----------------------------------------------------------------------------
(* Checkpoints.                                                             *)

Checkpoint ==
  /\ pc = "idle"
  /\ checkpoints' = checkpoints \cup {[own |-> TRUE, state |-> Sim!CheckpointOf]}
  /\ Sim!TakeCheckpoint
  /\ result' = "Ok"
  /\ before' = None
  /\ run' = NewRun(0, TRUE)
  /\ UNCHANGED pc

(* A checkpoint of another system over the same layout may be handed back.  *)
Offers == {[own |-> own, state |-> d] : own \in BOOLEAN, d \in Sim!Offers}

Restorable(c) == c.own /\ Sim!CanRestore(c.state)

Restore(c) ==
  /\ pc = "idle"
  /\ before' = Snapshot
  /\ run' = NewRun(0, TRUE)
  /\ UNCHANGED <<checkpoints, pc>>
  /\ \/ /\ Restorable(c)
        /\ Sim!Restore(c.state)
        /\ result' = "Ok"
     \/ /\ ~Restorable(c)
        /\ result' = "Err"
        /\ UNCHANGED simVars

----------------------------------------------------------------------------
Init ==
  /\ checkpoints = {}
  /\ Sim!Init
  /\ pc = "preparing"
  /\ run = NewRun(0, TRUE)
  /\ result = "None"
  /\ before = None

(* The steps of a call in progress.                                         *)
Proceed == Validate \/ Sweep \/ Accelerate \/ Write \/ CommitTrial \/ RollBack

Next ==
  \/ Prepare
  \/ Create
  \/ \E goal \in Times \cup {NonFinite}, once \in BOOLEAN : Solve(goal, once)
  \/ Proceed
  \/ Checkpoint
  \/ \E c \in Offers : Restore(c)

(* A call runs to its end: there is nothing in it to wait for.              *)
Spec == Init /\ [][Next]_vars /\ WF_vars(Proceed)

----------------------------------------------------------------------------
(* Correctness.                                                             *)

Accepted == {"Converged", "OnceApplied"}
Refusals == {"Diverged", "MaxSweeps", "Breakdown", "Numeric", "Failed", "Err"}

(* What an accepted solve commits: the raw output of its last sweep, at the *)
(* time asked for; and that sweep changed the state by no more than the     *)
(* tolerance, within the sweeps allowed, or it is the only one.             *)
AcceptedIsConverged ==
  pc = "idle" /\ result \in Accepted =>
    /\ FlatOf(committed) = run.image
    /\ time = run.goal
    /\ step = before.step + 1
    /\ Len(run.sweeps) <= (IF run.once THEN 1 ELSE MaxSweeps)
    /\ ~run.once => Previous <= Tolerance

(* The refusals mean what their codes document: diverged is said of the     *)
(* first sweep or after a change above the floor, and exhausted when all    *)
(* sweeps allowed were made or the iteration has stalled at the floor.  A   *)
(* breakdown is the driver's, and needs sweeps left to make.  And no sweep  *)
(* that grew past the bound, from above every floor, was let through.       *)
RefusalsAreEarned ==
  pc = "idle" =>
    /\ result = "Diverged" => First \/ Previous > run.floor
    /\ result = "MaxSweeps" =>
         /\ ~run.once
         /\ Len(run.sweeps) = MaxSweeps \/ (~First /\ Previous <= run.floor)
    /\ result = "Breakdown" => ~run.once /\ ~First /\ Len(run.sweeps) < MaxSweeps
    /\ \A k \in 2 .. Len(run.sweeps) :
         \/ run.sweeps[k] <= Growth * run.sweeps[k - 1]
         \/ \E floor \in Floors : run.sweeps[k - 1] <= floor

(* A refused solve, wherever in the iteration it was refused, has left the  *)
(* committed state as it found it and no trial open.                        *)
FailureLeavesNoTrace ==
  pc = "idle" /\ result \in Refusals => phase = "Committed" /\ Snapshot = before

(* What a caller sees of the state between its calls, and of the calls.     *)
AtRest == pc \in {"preparing", "idle"}
Found  ==
  [ownLayout |-> TRUE, historyLimit |-> before.limit, time |-> before.time,
   step |-> before.step, committed |-> before.committed, history |-> before.history]

Calls == INSTANCE AtomicCalls WITH
  made <- pc # "preparing",
  seen <- IF AtRest THEN Sim!CheckpointOf ELSE Found,
  open <- AtRest /\ phase = "Trial",
  said <- IF AtRest THEN result ELSE "Running",
  kept <- {c.state : c \in checkpoints},
  Successes <- Accepted, Failures <- Refusals

(* Seen from outside every call is one step of the committed state, one step*)
(* back to a kept one, or none, as its reply says, wherever it was refused  *)
(* on the way: a commit that happened is reported, one that did not is not, *)
(* and no call returns inside a trial.                                      *)
CallsAreAtomic == Calls!Spec

(* A call in progress returns: no iteration goes on for ever.               *)
Returns == pc \notin {"idle", "preparing"} ~> pc = "idle"
=============================================================================
