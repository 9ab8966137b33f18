-------------------------- MODULE CoupledExecution --------------------------
(***************************************************************************)
(* CoupledExecution: implicit transient solves inside the state's          *)
(* transaction.  It owns a SimulationState and the BDF state of the        *)
(* integrator (Methodus, an external crate), which must agree whenever no  *)
(* call is in progress.  A step is a sequence of calls into both:          *)
(*                                                                         *)
(*   idle -> opening -> attempting -> writing -> committing -> adopting    *)
(*                          |            |           |            |        *)
(*                          +----- rollingBack ------+        checking     *)
(*                                     |                          |        *)
(*                                     +-> checking or idle  <----+        *)
(*                                                                         *)
(* and any of them can fail with the ones before it already done.  Before  *)
(* CoupledExecution::new the caller prepares the state by itself.          *)
(***************************************************************************)
EXTENDS Integers, Sequences, FiniteSets

CONSTANTS
  NBlocks, BlockLen, Slots, Lens, Vals, Zero, Times, NonFinite, None,
  MaxStep, HistoryLimits, MaxSaved, Delivered(_),  (* See SimulationState.   *)
  StepSizes,    (* The step sizes callers ask for.                           *)
  MaxRefusals   (* Bound: the entries of the refusal log.                    *)

ASSUME StepAssumption == StepSizes \subseteq Nat \ {0}
ASSUME LogAssumption  == MaxRefusals \in Nat

VARIABLES
  phase, historyLimit, time, step, committed, trial, history, reply, (* state *)
  integrator,   (* the BdfState                                              *)
  refusals,     (* the transaction log of typed evaluation failures          *)
  checkpoints,  (* the CoupledCheckpoints the caller keeps                   *)
  pc,           (* where the call in progress is, idle when there is none    *)
  outcome,      (* the attempt of the call: its step and what came of it     *)
  result,       (* what the last call returned                               *)
  before        (* the state as the last call found it (history variable)    *)

Sim == INSTANCE SimulationState WITH saved <- {c.state : c \in checkpoints}

(* What SimulationState assumes of the constants they share.                *)
ASSUME StateAssumption ==
  Sim!LayoutAssumption /\ Sim!ValueAssumption /\ Sim!BoundAssumption

simVars == <<phase, historyLimit, time, step, committed, trial, history, reply>>
vars    == <<simVars, integrator, refusals, checkpoints, pc, outcome, result, before>>

Blocks  == 1 .. NBlocks
Steady  == UNCHANGED <<simVars, checkpoints>>

(* A BdfState has values and previous values over the layout (previous is   *)
(* None before the first step), the time, acceptedSteps and previousStep,   *)
(* the size of the last step (0 for none).                                  *)
Flats == [Blocks -> Vals \cup {NonFinite}]

ASSUME FlatAssumption == None \notin Flats

(* The outcome of an attempt: "Refused" is a typed evaluation failure,      *)
(* "Failed" every other solver error.                                       *)
NoOutcome == [kind |-> "None", size |-> 0, next |-> None]

----------------------------------------------------------------------------
(* Agreement of the two states, as every call checks it first and last.     *)

Finite(f) == \A b \in Blocks : f[b] # NonFinite

(* The committed fields and the newest level of history, flattened.         *)
FlatOf(v)        == [b \in Blocks |-> v[b].val]
HistoryVector(h) == [b \in Blocks |-> h[b][1].val]

HistoryAgrees(h, n, ig) ==
  \/ /\ ig.previous = None
     /\ ig.previousStep = 0
     /\ n = 0
     /\ \A b \in Blocks : h[b] = <<>>
  \/ /\ ig.previous # None
     /\ Finite(ig.previous)
     /\ ig.previousStep > 0
     /\ \A b \in Blocks : h[b] # <<>>
     /\ HistoryVector(h) = ig.previous

PairValid(v, h, t, n, ig) ==
  /\ \A b \in Blocks : v[b] # None
  /\ ig.values = FlatOf(v)
  /\ ig.time = t
  /\ ig.acceptedSteps = n
  /\ Finite(ig.values)
  /\ HistoryAgrees(h, n, ig)

Synchronized ==
  phase = "Committed" /\ PairValid(committed, history, time, step, integrator)

Snapshot ==
  [committed |-> committed, history |-> history, limit |-> historyLimit,
   time |-> time, step |-> step, integrator |-> integrator, logged |-> Len(refusals)]

----------------------------------------------------------------------------
(* Before new: the caller has the SimulationState to itself.                *)

Prepare ==
  /\ pc = "preparing"
  /\ UNCHANGED <<integrator, refusals, checkpoints, pc, outcome, result, before>>
  /\ \/ \E b \in Blocks, x \in Vals :
          Sim!InsertField(b, [len |-> BlockLen[b], val |-> x])
     \/ \E s \in Slots, n \in Lens : Sim!InsertConstitutive(s, [len |-> n, val |-> Zero])
     \/ Sim!BeginTrial
     \/ Sim!Commit(time)
     \/ Sim!Rollback

(* new: Methodus initializes its state from the committed vector; where it  *)
(* fails, or corrects the vector, new fails and there is no execution.      *)
Create ==
  /\ pc = "preparing"
  /\ phase = "Committed"
  /\ step = 0
  /\ Sim!Complete
  /\ integrator' = [values |-> FlatOf(committed), time |-> time, acceptedSteps |-> 0,
                    previous |-> None, previousStep |-> 0]
  /\ PairValid(committed, history, time, step, integrator')
  /\ pc' = "idle"
  /\ UNCHANGED <<refusals, outcome, result, before>>
  /\ Steady

----------------------------------------------------------------------------
(* transact_step, behind attempt_step and attempt_step_with.                *)

(* Every call starts with the two states as it finds them.                  *)
Enter == before' = Snapshot

AttemptStep(h) ==
  /\ pc = "idle"
  /\ Enter
  /\ \/ /\ Synchronized
        /\ pc' = "opening"
        /\ outcome' = [NoOutcome EXCEPT !.size = h]
        /\ UNCHANGED result
     \/ /\ ~Synchronized
        /\ result' = "Err"
        /\ UNCHANGED <<pc, outcome>>
  /\ UNCHANGED <<integrator, refusals>>
  /\ Steady

(* A state that validate_synchronized accepts can open a trial.             *)
Open ==
  /\ pc = "opening"
  /\ UNCHANGED <<integrator, refusals, checkpoints, outcome, result, before>>
  /\ Sim!BeginTrial
  /\ pc' = "attempting"

(* Methodus advances its own state by the step; what the values are is up   *)
(* to the solver, and a time past the largest finite one is infinite.       *)
Plus(t, h) == IF t + h \in Times THEN t + h ELSE NonFinite
Advanced(f, h) ==
  [values |-> f, time |-> Plus(integrator.time, h),
   acceptedSteps |-> integrator.acceptedSteps + 1,
   previous |-> integrator.values, previousStep |-> h]

Accepted ==
  \E f \in Flats :
    /\ outcome' = [outcome EXCEPT !.kind = "Accepted", !.next = Advanced(f, outcome.size)]
    /\ pc' = "writing"

NotAccepted ==
  \E kind \in {"Rejected", "Refused", "Failed"} :
    /\ kind = "Refused" => Len(refusals) < MaxRefusals
    /\ outcome' = [outcome EXCEPT !.kind = kind]
    /\ pc' = "rollingBack"

Attempt ==
  /\ pc = "attempting"
  /\ Accepted \/ NotAccepted
  /\ UNCHANGED <<integrator, refusals, result, before>>
  /\ Steady

(* The accepted values become the trial; a refusal rolls back.              *)
Write ==
  /\ pc = "writing"
  /\ UNCHANGED <<integrator, refusals, checkpoints, outcome, result, before>>
  /\ LET f == [fits |-> TRUE, at |-> outcome.next.values]
     IN  \/ /\ Sim!SetTrialVector(f)
            /\ pc' = "committing"
         \/ /\ ~Sim!CanSetTrialVector(f)
            /\ Sim!Refuse
            /\ pc' = "rollingBack"

(* Mutant: the integrator is advanced whether or not the commit succeeded. *)
AdoptEarly ==
  /\ pc = "committing"
  /\ integrator' = outcome.next
  /\ IF Sim!CanCommit(outcome.next.time)
     THEN pc' = "checking" /\ UNCHANGED checkpoints /\ Sim!Commit(outcome.next.time)
     ELSE pc' = "rollingBack" /\ Steady
  /\ UNCHANGED <<refusals, outcome, result, before>>

CommitTrial ==
  /\ pc = "committing"
  /\ UNCHANGED <<integrator, refusals, checkpoints, outcome, result, before>>
  /\ \/ /\ Sim!Commit(outcome.next.time)
        /\ pc' = "adopting"
     \/ /\ ~Sim!CanCommit(outcome.next.time)
        /\ Sim!Refuse
        /\ pc' = "rollingBack"

(* The log after a roll back.                                               *)
Logged ==
  IF outcome.kind = "Refused"
  THEN Append(refusals, [time |-> time, size |-> outcome.size])
  ELSE refusals

(* A rejected step still passes the closing check, an error returns at once.*)
RollBack ==
  /\ pc = "rollingBack"
  /\ UNCHANGED <<integrator, checkpoints, before>>
  /\ Sim!Rollback
  /\ refusals' = Logged
  /\ \/ /\ outcome.kind = "Rejected"
        /\ pc' = "checking"
        /\ UNCHANGED <<result, outcome>>
     \/ /\ outcome.kind # "Rejected"
        /\ pc' = "idle"
        /\ result' = IF outcome.kind = "Refused" THEN "Refused" ELSE "Err"
        /\ outcome' = NoOutcome

Adopt ==
  /\ pc = "adopting"
  /\ integrator' = outcome.next
  /\ pc' = "checking"
  /\ UNCHANGED <<refusals, outcome, result, before>>
  /\ Steady

(* Mutant: a rejected step is attempted again.                              *)
CheckAndRetry ==
  /\ pc = "checking"
  /\ IF outcome.kind = "Rejected"
     THEN pc' = "opening" /\ UNCHANGED <<result, outcome>>
     ELSE pc' = "idle" /\ result' = outcome.kind /\ outcome' = NoOutcome
  /\ UNCHANGED <<integrator, refusals, before>>
  /\ Steady

(* The closing validate_synchronized.                                       *)
Check ==
  /\ pc = "checking"
  /\ pc' = "idle"
  /\ result' = IF Synchronized THEN outcome.kind ELSE "Err"
  /\ outcome' = NoOutcome
  /\ UNCHANGED <<integrator, refusals, before>>
  /\ Steady

----------------------------------------------------------------------------
(* Checkpoints.                                                             *)

Checkpoint ==
  /\ pc = "idle"
  /\ Enter
  /\ \/ /\ Synchronized
        /\ checkpoints' = checkpoints \cup
             {[ownOperator |-> TRUE, state |-> Sim!CheckpointOf, integrator |-> integrator]}
        /\ Sim!TakeCheckpoint
        /\ result' = "Ok"
     \/ /\ ~Synchronized
        /\ result' = "Err"
        /\ Steady
  /\ UNCHANGED <<integrator, refusals, pc, outcome>>

(* What the caller may hand to restore: the state of one checkpoint with    *)
(* the integrator of any other, of this operator or of another.             *)
Offers ==
  {[ownOperator |-> own, state |-> d, integrator |-> k.integrator] :
     own \in BOOLEAN, d \in Sim!Offers, k \in checkpoints}

(* Mutant: the integrator of a checkpoint is not compared with its state.   *)
RestorableAlone(c) == c.ownOperator /\ Sim!CanRestore(c.state)

(* Mutant: the copy that was validated is dropped.                          *)
RestoreCopyOnly(c) ==
  /\ pc = "idle"
  /\ Enter
  /\ UNCHANGED <<simVars, refusals, checkpoints, pc, outcome>>
  /\ IF c.ownOperator /\ Sim!CanRestore(c.state)
     THEN integrator' = c.integrator /\ result' = "Ok"
     ELSE UNCHANGED integrator /\ result' = "Err"

(* restore validates a restored copy of the state against the integrator of *)
(* the checkpoint, then replaces both.                                      *)
Restorable(c) ==
  /\ c.ownOperator
  /\ Sim!CanRestore(c.state)
  /\ PairValid(c.state.committed, c.state.history, c.state.time, c.state.step, c.integrator)

Restore(c) ==
  /\ pc = "idle"
  /\ Enter
  /\ UNCHANGED <<refusals, checkpoints, pc, outcome>>
  /\ \/ /\ Restorable(c)
        /\ Sim!Restore(c.state)
        /\ integrator' = c.integrator
        /\ result' = "Ok"
     \/ /\ ~Restorable(c)
        /\ result' = "Err"
        /\ UNCHANGED <<simVars, integrator>>

----------------------------------------------------------------------------
Init ==
  /\ checkpoints = {}
  /\ Sim!Init
  /\ integrator = None
  /\ refusals = <<>>
  /\ pc = "preparing"
  /\ outcome = NoOutcome
  /\ result = "None"
  /\ before = None

(* The steps of a call in progress.                                         *)
Proceed == Open \/ Attempt \/ Write \/ CommitTrial \/ RollBack \/ Adopt \/ Check

Next ==
  \/ Prepare
  \/ Create
  \/ \E h \in StepSizes : AttemptStep(h)
  \/ Proceed
  \/ Checkpoint
  \/ \E c \in Offers : Restore(c)

(* A call runs to its end: there is nothing in it to wait for.              *)
Spec == Init /\ [][Next]_vars /\ WF_vars(Proceed)

----------------------------------------------------------------------------
(* Correctness.                                                             *)

(* Whenever no call is in progress the committed state and the BDF state    *)
(* agree, previous values included, whatever failed on the way: no call     *)
(* leaves an execution on which every later call is refused.  It needs a    *)
(* history limit of at least one: see FailureLeavesNoTrace.                 *)
SynchronizedWhenIdle == pc = "idle" => Synchronized

(* A call that does not return success has left the committed state, its    *)
(* history and the BDF state exactly as it found them; the log tells of each*)
(* typed evaluation failure once, with the committed time the attempt       *)
(* started from, and of nothing else.  transact_step says so: an accepted   *)
(* step commits, a rejected step or an error rolls back and leaves the      *)
(* committed state and the BDF history untouched.                           *)
FailureLeavesNoTrace ==
  pc = "idle" /\ before # None =>
    /\ result \in {"Err", "Rejected", "Refused"} =>
         Snapshot = [before EXCEPT !.logged = Len(refusals)]
    /\ Len(refusals) = before.logged + (IF result = "Refused" THEN 1 ELSE 0)
    /\ result = "Refused" => refusals[Len(refusals)].time = before.time

(* What a caller sees of the state between its calls, and of the calls.     *)
AtRest == pc \in {"preparing", "idle"}
Found  ==
  [ownLayout |-> TRUE, historyLimit |-> before.limit, time |-> before.time,
   step |-> before.step, committed |-> before.committed, history |-> before.history]

Calls == INSTANCE AtomicCalls WITH
  made <- pc # "preparing",
  seen <- IF AtRest THEN Sim!CheckpointOf ELSE Found,
  open <- AtRest /\ phase = "Trial",
  said <- IF AtRest THEN result ELSE "Running",
  kept <- {c.state : c \in checkpoints},
  Successes <- {"Accepted"}, Failures <- {"Err", "Rejected", "Refused"}

(* Seen from outside every call is one step of the committed state, one step*)
(* back to a kept one, or none, as its reply says, wherever it was refused  *)
(* on the way: a commit that happened is reported, one that did not is not, *)
(* and no call returns inside a trial.  It needs a history limit of at least*)
(* one, as FailureLeavesNoTrace does.                                       *)
CallsAreAtomic == Calls!Spec

(* A call in progress returns.                                              *)
Returns == pc \notin {"idle", "preparing"} ~> pc = "idle"
=============================================================================
