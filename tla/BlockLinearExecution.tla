------------------------ MODULE BlockLinearExecution ------------------------
(***************************************************************************)
(* BlockLinearExecution: steady Krylov solves inside the state's           *)
(* transaction.  The solver (Methodus, an external crate) starts from the  *)
(* committed vector and returns a solution, converged or not, or an error; *)
(* only a converged solution may ever be committed.  A call goes           *)
(*                                                                         *)
(*   idle -> solving -> writing -> committing -> idle                      *)
(*              |          |           |                                   *)
(*              +---- rollingBack -----+                                   *)
(*                                                                         *)
(* Several operators may share one layout, so a checkpoint names the       *)
(* operator it was taken under and another operator's must be refused.     *)
(***************************************************************************)
EXTENDS Integers, Sequences, FiniteSets

CONSTANTS
  NBlocks, BlockLen, Slots, Lens, Vals, Zero, Times, NonFinite, None,
  MaxStep, HistoryLimits, MaxSaved, Delivered(_)   (* See SimulationState.   *)

VARIABLES
  phase, historyLimit, time, step, committed, trial, history, reply, (* state *)
  checkpoints,  (* the BlockLinearCheckpoints the caller keeps               *)
  pc,           (* where the call in progress is, idle when there is none    *)
  call,         (* its commit time, and what the solver returned             *)
  result,       (* what the last call returned                               *)
  before,       (* the state as the last call found it (history variable)    *)
  solutions     (* the vectors the execution started with, and those the     *)
                (* solver converged to (history variable)                    *)

Sim == INSTANCE SimulationState WITH saved <- {c.state : c \in checkpoints}

(* What SimulationState assumes of the constants they share.                *)
ASSUME StateAssumption ==
  Sim!LayoutAssumption /\ Sim!ValueAssumption /\ Sim!BoundAssumption

simVars == <<phase, historyLimit, time, step, committed, trial, history, reply>>
vars    == <<simVars, checkpoints, pc, call, result, before, solutions>>

Blocks == 1 .. NBlocks
Flats  == [Blocks -> Vals \cup {NonFinite}]
Steady == UNCHANGED <<simVars, checkpoints>>

NoCall  == [goal |-> 0, kind |-> "None", solution |-> None]
FlatOf(v) == [b \in Blocks |-> v[b].val]
LevelsOf(h) ==
  {[b \in Blocks |-> h[b][k].val] : k \in {n \in 1 .. Len(h[1]) : \A b \in Blocks : n <= Len(h[b])}}

Snapshot ==
  [committed |-> committed, history |-> history, limit |-> historyLimit,
   time |-> time, step |-> step]

----------------------------------------------------------------------------
(* Before new, and new itself, which takes a state of any step.             *)

Prepare ==
  /\ pc = "preparing"
  /\ UNCHANGED <<checkpoints, pc, call, result, before, solutions>>
  /\ \/ \E b \in Blocks, x \in Vals :
          Sim!InsertField(b, [len |-> BlockLen[b], val |-> x])
     \/ \E s \in Slots, n \in Lens : Sim!InsertConstitutive(s, [len |-> n, val |-> Zero])
     \/ Sim!BeginTrial
     \/ Sim!Commit(time)
     \/ Sim!Rollback

Create ==
  /\ pc = "preparing"
  /\ phase = "Committed"
  /\ Sim!Complete
  /\ solutions' = {FlatOf(committed)} \cup LevelsOf(history)
  /\ pc' = "idle"
  /\ UNCHANGED <<call, result, before>>
  /\ Steady

----------------------------------------------------------------------------
(* solve.                                                                   *)

(* A projector with an algorithm that takes none is refused before the      *)
(* trial is opened.                                                         *)
Solve(goal, admitted) ==
  /\ pc = "idle"
  /\ before' = Snapshot
  /\ UNCHANGED <<checkpoints, solutions>>
  /\ \/ /\ admitted
        /\ Sim!BeginTrial
        /\ call' = [NoCall EXCEPT !.goal = goal]
        /\ pc' = "solving"
        /\ UNCHANGED result
     \/ /\ ~admitted
        /\ result' = "Err"
        /\ UNCHANGED <<simVars, pc, call>>

(* The Krylov solver returns the vector it stopped at, or an error.         *)
Krylov ==
  \/ \E f \in Flats, kind \in {"Converged", "Unconverged"} :
       call' = [call EXCEPT !.kind = kind, !.solution = f]
  \/ \E kind \in {"Refused", "Failed"} : call' = [call EXCEPT !.kind = kind]

(* Mutant: the converged flag of the report is not looked at.               *)
RunAnyReport ==
  /\ pc = "solving"
  /\ Krylov
  /\ pc' = IF call'.kind \in {"Converged", "Unconverged"} THEN "writing" ELSE "rollingBack"
  /\ solutions' = IF call'.kind = "Converged" THEN solutions \cup {call'.solution} ELSE solutions
  /\ UNCHANGED <<result, before>>
  /\ Steady

(* An error or a report that has not converged leads to the roll back.      *)
Run ==
  /\ pc = "solving"
  /\ Krylov
  /\ pc' = IF call'.kind = "Converged" THEN "writing" ELSE "rollingBack"
  /\ solutions' = IF call'.kind = "Converged" THEN solutions \cup {call'.solution} ELSE solutions
  /\ UNCHANGED <<result, before>>
  /\ Steady

Write ==
  /\ pc = "writing"
  /\ UNCHANGED <<checkpoints, call, result, before, solutions>>
  /\ LET f == [fits |-> TRUE, at |-> call.solution]
     IN  \/ /\ Sim!SetTrialVector(f)
            /\ pc' = "committing"
         \/ /\ ~Sim!CanSetTrialVector(f)
            /\ Sim!Refuse
            /\ pc' = "rollingBack"

Return(r) == pc' = "idle" /\ result' = r /\ call' = NoCall

(* Mutant: a refused commit returns with the trial still open.              *)
CommitOrReturn ==
  /\ pc = "committing"
  /\ UNCHANGED <<checkpoints, before, solutions>>
  /\ IF Sim!CanCommit(call.goal)
     THEN Sim!Commit(call.goal) /\ Return("Solved")
     ELSE Sim!Refuse /\ Return("Err")

(* Mutant: the error of a refused commit is dropped.                        *)
CommitUnreported ==
  /\ pc = "committing"
  /\ UNCHANGED <<checkpoints, before, solutions>>
  /\ IF Sim!CanCommit(call.goal) THEN Sim!Commit(call.goal) ELSE Sim!Rollback
  /\ Return("Solved")

(* The commit time is the caller's, and may be refused.                     *)
CommitTrial ==
  /\ pc = "committing"
  /\ UNCHANGED <<checkpoints, before, solutions>>
  /\ \/ /\ Sim!Commit(call.goal)
        /\ Return("Solved")
     \/ /\ ~Sim!CanCommit(call.goal)
        /\ Sim!Refuse
        /\ pc' = "rollingBack"
        /\ UNCHANGED <<call, result>>

RollBack ==
  /\ pc = "rollingBack"
  /\ UNCHANGED <<checkpoints, before, solutions>>
  /\ Sim!Rollback
  /\ Return("Err")

----------------------------------------------------------------------------
(* Checkpoints.                                                             *)

Checkpoint ==
  /\ pc = "idle"
  /\ checkpoints' = checkpoints \cup {[own |-> TRUE, state |-> Sim!CheckpointOf]}
  /\ Sim!TakeCheckpoint
  /\ result' = "Ok"
  /\ before' = None
  /\ UNCHANGED <<pc, call, solutions>>

(* The caller hands back one of its checkpoints, or one that an execution   *)
(* of another operator over the same layout has taken, with its solution.   *)
Offers ==
  {[own |-> TRUE, state |-> d] : d \in Sim!Offers}
    \cup {[own |-> FALSE, state |->
             [c.state EXCEPT !.committed =
                [i \in DOMAIN @ |-> IF i \in Blocks THEN [@[i] EXCEPT !.val = f[i]] ELSE @[i]]]] :
            c \in checkpoints, f \in [Blocks -> Vals]}

(* Mutant: the operator identity is not compared.                           *)
RestorableAnywhere(c) == Sim!CanRestore(c.state)
Restorable(c) == c.own /\ Sim!CanRestore(c.state)

Restore(c) ==
  /\ pc = "idle"
  /\ before' = Snapshot
  /\ UNCHANGED <<checkpoints, pc, call, solutions>>
  /\ \/ /\ Restorable(c)
        /\ Sim!Restore(c.state)
        /\ result' = "Ok"
     \/ /\ ~Restorable(c)
        /\ result' = "Err"
        /\ UNCHANGED simVars

----------------------------------------------------------------------------
Init ==
  /\ checkpoints = {}
  /\ Sim!Init
  /\ pc = "preparing"
  /\ call = NoCall
  /\ result = "None"
  /\ before = None
  /\ solutions = {}

(* The steps of a call in progress.                                         *)
Proceed == Run \/ Write \/ CommitTrial \/ RollBack

Next ==
  \/ Prepare
  \/ Create
  \/ \E goal \in Times \cup {NonFinite}, admitted \in BOOLEAN : Solve(goal, admitted)
  \/ Proceed
  \/ Checkpoint
  \/ \E c \in Offers : Restore(c)

Spec == Init /\ [][Next]_vars

----------------------------------------------------------------------------
(* Correctness.                                                             *)

(* solve never commits an unconverged solution: every vector that can be    *)
(* observed as committed, in the history or in a checkpoint is one the      *)
(* execution was created with or one its own solver has converged to, never *)
(* an iterate and never another operator's solution.                        *)
OnlyConvergedCommitted ==
  pc \notin {"preparing"} =>
    /\ FlatOf(committed) \in solutions
    /\ LevelsOf(history) \subseteq solutions
    /\ \A c \in checkpoints : FlatOf(c.state.committed) \in solutions

(* A call that returns an error has left the committed state and its        *)
(* history as it found them, with no trial open.                            *)
FailureLeavesNoTrace ==
  pc = "idle" /\ result = "Err" => phase = "Committed" /\ Snapshot = before

(* What a caller sees of the state between its calls, and of the calls.     *)
AtRest == pc \in {"preparing", "idle"}
Found  ==
  [ownLayout |-> TRUE, historyLimit |-> before.limit, time |-> before.time,
   step |-> before.step, committed |-> before.committed, history |-> before.history]

Calls == INSTANCE AtomicCalls WITH
  made <- pc # "preparing",
  seen <- IF AtRest THEN Sim!CheckpointOf ELSE Found,
  open <- AtRest /\ phase = "Trial",
  said <- IF AtRest THEN result ELSE "Running",
  kept <- {c.state : c \in checkpoints},
  Successes <- {"Solved"}, Failures <- {"Err"}

(* Seen from outside every call is one step of the committed state, one step*)
(* back to a kept one, or none, as its reply says, wherever it was refused  *)
(* on the way: a commit that happened is reported, one that did not is not, *)
(* and no call returns inside a trial.                                      *)
CallsAreAtomic == Calls!Spec
=============================================================================
