-------------------------- MODULE ExplicitExecution --------------------------
(***************************************************************************)
(* ExplicitExecution: explicit transient solves inside the state's         *)
(* transaction, with retries of rejected steps up to a budget, output      *)
(* times to land on, and telemetry (a record for every committed step and  *)
(* for every rejected attempt) that a restore must cut back.  It owns a    *)
(* SimulationState and the explicit state of the integrator (Methodus, an  *)
(* external crate).  A call goes                                           *)
(*                                                                         *)
(*   idle -> looping -> starting -> opening -> attempting -> writing       *)
(*              ^                      ^            |           |          *)
(*              |                   (retry)         |      committing      *)
(*              |                      |            |           |          *)
(*              |                      +------- rollingBack ----+          *)
(*              +--------------------------------------- recording         *)
(*                                                                         *)
(* where advance enters at starting and leaves after recording, and        *)
(* advance_to goes round until it has arrived.                             *)
(***************************************************************************)
EXTENDS Integers, Sequences, FiniteSets

CONSTANTS
  NBlocks, BlockLen, Slots, Lens, Vals, Zero, Times, NonFinite, None,
  MaxStep, HistoryLimits, MaxSaved, Delivered(_),  (* See SimulationState.   *)
  PolicyStep,     (* The largest step the step policy takes.                 *)
  AttemptBudget,  (* attempt_budget: the attempts one step may take.         *)
  MaxRejections,  (* Bound: the rejection records.                           *)
  MaxRefusals     (* Bound: the entries of the refusal log.                  *)

ASSUME BudgetAssumption == AttemptBudget \in Nat \ {0} /\ PolicyStep \in Nat \ {0}
ASSUME LogAssumption    == MaxRejections \in Nat /\ MaxRefusals \in Nat

(* A step may land anywhere between two times.                              *)
ASSUME TimesAssumption == \A a, b \in Times : a .. b \subseteq Times

VARIABLES
  phase, historyLimit, time, step, committed, trial, history, reply, (* state *)
  integrator,   (* the ExplicitState                                         *)
  steps,        (* step_records: one for each step of the trajectory         *)
  rejections,   (* one for each rejected attempt                             *)
  refusals,     (* the log of typed evaluation failures: their times         *)
  checkpoints,  (* the ExplicitCheckpoints the caller keeps                  *)
  pc,           (* where the call in progress is, idle when there is none    *)
  call,         (* its final time, and the attempt it is making              *)
  result,       (* what the last call returned                               *)
  before        (* the state as the last call found it (history variable)    *)

Sim == INSTANCE SimulationState WITH saved <- {c.state : c \in checkpoints}

(* What SimulationState assumes of the constants they share.                *)
ASSUME StateAssumption ==
  Sim!LayoutAssumption /\ Sim!ValueAssumption /\ Sim!BoundAssumption

simVars   == <<phase, historyLimit, time, step, committed, trial, history, reply>>
telemetry == <<steps, rejections, refusals>>
vars      == <<simVars, integrator, telemetry, checkpoints, pc, call, result, before>>

Blocks == 1 .. NBlocks
Flats  == [Blocks -> Vals \cup {NonFinite}]
Steady == UNCHANGED <<simVars, checkpoints>>

(* An ExplicitState has values, time and acceptedSteps.  The record of a    *)
(* step tells its acceptedStep, start, end and attempts; the record of a    *)
(* rejection the acceptedStep, time and attempt, the size tried and the one *)
(* suggested.                                                               *)

(* toEnd tells advance_to from advance; ceiling and suggested are 0 when    *)
(* there is none.                                                           *)
NoCall ==
  [goal |-> 0, toEnd |-> FALSE, attempt |-> 0, ceiling |-> 0,
   kind |-> "None", size |-> 0, suggested |-> 0, next |-> None]

----------------------------------------------------------------------------
(* Agreement of the two states, as every call checks it first and last.     *)

FlatOf(v) == [b \in Blocks |-> v[b].val]
Finite(f) == \A b \in Blocks : f[b] # NonFinite

PairValid(v, t, n, ig) ==
  /\ \A b \in Blocks : v[b] # None
  /\ ig.values = FlatOf(v)
  /\ ig.time = t
  /\ ig.acceptedSteps = n
  /\ ig.time # NonFinite
  /\ Finite(ig.values)

Synchronized == phase = "Committed" /\ PairValid(committed, time, step, integrator)

Snapshot ==
  [committed |-> committed, history |-> history, limit |-> historyLimit,
   time |-> time, step |-> step, integrator |-> integrator,
   steps |-> Len(steps), rejected |-> Len(rejections), refused |-> Len(refusals)]

----------------------------------------------------------------------------
(* Before new, and new itself.                                              *)

Prepare ==
  /\ pc = "preparing"
  /\ UNCHANGED <<integrator, telemetry, checkpoints, pc, call, result, before>>
  /\ \/ \E b \in Blocks, x \in Vals :
          Sim!InsertField(b, [len |-> BlockLen[b], val |-> x])
     \/ Sim!BeginTrial
     \/ Sim!Rollback

Create ==
  /\ pc = "preparing"
  /\ phase = "Committed"
  /\ step = 0
  /\ Sim!Complete
  /\ integrator' = [values |-> FlatOf(committed), time |-> time, acceptedSteps |-> 0]
  /\ pc' = "idle"
  /\ UNCHANGED <<telemetry, call, result, before>>
  /\ Steady

----------------------------------------------------------------------------
(* advance and advance_to.                                                  *)

Return(r) == pc' = "idle" /\ result' = r /\ call' = NoCall

Advance(goal) ==
  /\ pc = "idle"
  /\ before' = Snapshot
  /\ call' = [NoCall EXCEPT !.goal = goal]
  /\ pc' = "starting"
  /\ UNCHANGED <<integrator, telemetry, result>>
  /\ Steady

AdvanceTo(goal) ==
  /\ pc = "idle"
  /\ before' = Snapshot
  /\ IF goal # NonFinite /\ goal >= integrator.time
     THEN /\ call' = [NoCall EXCEPT !.goal = goal, !.toEnd = TRUE]
          /\ pc' = "looping"
          /\ UNCHANGED result
     ELSE Return("Err")
  /\ UNCHANGED <<integrator, telemetry>>
  /\ Steady

(* Mutant: advance_to returns after one step.                               *)
LoopOnce ==
  /\ pc = "looping"
  /\ IF integrator.acceptedSteps = before.step /\ integrator.time < call.goal
     THEN pc' = "starting" /\ UNCHANGED <<call, result>>
     ELSE Return("Arrived")
  /\ UNCHANGED <<integrator, telemetry, before>>
  /\ Steady

(* The loop of advance_to.                                                  *)
Loop ==
  /\ pc = "looping"
  /\ \/ /\ integrator.time < call.goal
        /\ pc' = "starting"
        /\ UNCHANGED <<call, result>>
     \/ /\ integrator.time >= call.goal
        /\ Return("Arrived")
  /\ UNCHANGED <<integrator, telemetry, before>>
  /\ Steady

(* advance: the opening check, which fails on no reachable state, and the   *)
(* first attempt without a ceiling.                                         *)
Start ==
  /\ pc = "starting"
  /\ IF Synchronized
     THEN /\ call' = [call EXCEPT !.attempt = 1, !.ceiling = 0]
          /\ pc' = "opening"
          /\ UNCHANGED result
     ELSE Return("Err")
  /\ UNCHANGED <<integrator, telemetry, before>>
  /\ Steady

Open ==
  /\ pc = "opening"
  /\ UNCHANGED <<integrator, telemetry, checkpoints, call, result, before>>
  /\ Sim!BeginTrial
  /\ pc' = "attempting"

(* The step Methodus takes: what the policy, the ceiling and the final time *)
(* leave, landing on the final time when it is within reach.                *)
Smaller(a, b) == IF a < b THEN a ELSE b
Size ==
  LET allowed == IF call.ceiling = 0 THEN PolicyStep ELSE Smaller(PolicyStep, call.ceiling)
  IN  Smaller(allowed, call.goal - integrator.time)

Accepted ==
  \E f \in Flats :
    /\ call' = [call EXCEPT !.kind = "Accepted", !.size = Size, !.next =
                  [values |-> f, time |-> integrator.time + Size,
                   acceptedSteps |-> integrator.acceptedSteps + 1]]
    /\ pc' = "writing"

(* A rejection suggests a smaller step, or none.                            *)
Rejected ==
  \E suggested \in 0 .. Size - 1 :
    /\ Len(rejections) < MaxRejections
    /\ call' = [call EXCEPT !.kind = "Rejected", !.size = Size, !.suggested = suggested]
    /\ pc' = "rollingBack"

Errs ==
  \E kind \in {"Refused", "Failed"} :
    /\ kind = "Refused" => Len(refusals) < MaxRefusals
    /\ call' = [call EXCEPT !.kind = kind]
    /\ pc' = "rollingBack"

(* explicit_step: an attempt toward a final time that is not ahead fails.   *)
Attempt ==
  /\ pc = "attempting"
  /\ \/ call.goal > integrator.time /\ (Accepted \/ Rejected)
     \/ Errs
  /\ UNCHANGED <<integrator, telemetry, result, before>>
  /\ Steady

Write ==
  /\ pc = "writing"
  /\ UNCHANGED <<integrator, telemetry, checkpoints, call, result, before>>
  /\ LET f == [fits |-> TRUE, at |-> call.next.values]
     IN  \/ /\ Sim!SetTrialVector(f)
            /\ pc' = "committing"
         \/ /\ ~Sim!CanSetTrialVector(f)
            /\ Sim!Refuse
            /\ pc' = "rollingBack"

(* The record of the accepted attempt.                                      *)
NewRecord ==
  [acceptedStep |-> call.next.acceptedSteps, start |-> integrator.time,
   end |-> call.next.time, attempts |-> call.attempt]

(* Mutant: the step is recorded before it is committed.                     *)
CommitRecorded ==
  /\ pc = "committing"
  /\ steps' = Append(steps, NewRecord)
  /\ UNCHANGED <<integrator, rejections, refusals, checkpoints, call, result, before>>
  /\ IF Sim!CanCommit(call.next.time)
     THEN Sim!Commit(call.next.time) /\ pc' = "recording"
     ELSE Sim!Refuse /\ pc' = "rollingBack"

CommitTrial ==
  /\ pc = "committing"
  /\ UNCHANGED <<integrator, telemetry, checkpoints, call, result, before>>
  /\ \/ /\ Sim!Commit(call.next.time)
        /\ pc' = "recording"
     \/ /\ ~Sim!CanCommit(call.next.time)
        /\ Sim!Refuse
        /\ pc' = "rollingBack"

(* Mutant: one attempt more than the budget.                                *)
SpentLate == call.attempt > AttemptBudget
Spent     == call.attempt >= AttemptBudget

(* Mutant: a failed attempt is made again.                                  *)
RetryErrors ==
  /\ pc' = "opening"
  /\ UNCHANGED <<call, result, rejections>>
  /\ refusals' = refusals

(* A typed failure is logged; no error is retried.                          *)
ReturnError ==
  /\ refusals' = IF call.kind = "Refused"
                 THEN Append(refusals, integrator.time)
                 ELSE refusals
  /\ Return(IF call.kind = "Refused" THEN "Refused" ELSE "Err")
  /\ UNCHANGED rejections

(* A rejection is recorded, and retried under the suggested ceiling while   *)
(* there is one and the budget lasts.                                       *)
RejectAttempt ==
  /\ rejections' = Append(rejections,
       [acceptedStep |-> integrator.acceptedSteps + 1, time |-> integrator.time,
        attempt |-> call.attempt, size |-> call.size, suggested |-> call.suggested])
  /\ IF call.suggested = 0 THEN Return("Rejected")
     ELSE IF Spent THEN Return("Exhausted")
     ELSE /\ call' = [call EXCEPT !.attempt = @ + 1, !.ceiling = call.suggested,
                                  !.kind = "None", !.size = 0, !.suggested = 0]
          /\ pc' = "opening"
          /\ UNCHANGED result
  /\ UNCHANGED refusals

RollBack ==
  /\ pc = "rollingBack"
  /\ UNCHANGED <<integrator, steps, checkpoints, before>>
  /\ Sim!Rollback
  /\ \/ call.kind = "Rejected" /\ RejectAttempt
     \/ call.kind # "Rejected" /\ ReturnError

(* Mutant: the explicit state is not advanced.                              *)
RecordOnly ==
  /\ pc = "recording"
  /\ steps' = Append(steps, NewRecord)
  /\ Return("Accepted")
  /\ UNCHANGED <<integrator, rejections, refusals, before>>
  /\ Steady

(* The record is pushed, the explicit state adopted, and the closing check  *)
(* made; then advance returns and advance_to looks at the time again.       *)
Record ==
  /\ pc = "recording"
  /\ steps' = Append(steps, NewRecord)
  /\ integrator' = call.next
  /\ IF phase = "Committed" /\ PairValid(committed, time, step, call.next)
     THEN IF call.toEnd
          THEN /\ pc' = "looping"
               /\ call' = [NoCall EXCEPT !.goal = call.goal, !.toEnd = TRUE]
               /\ UNCHANGED result
          ELSE Return("Accepted")
     ELSE Return("Err")
  /\ UNCHANGED <<rejections, refusals, before>>
  /\ Steady

----------------------------------------------------------------------------
(* Checkpoints.  The telemetry is not part of them.                         *)

Checkpoint ==
  /\ pc = "idle"
  /\ Synchronized
  /\ checkpoints' = checkpoints \cup
       {[own |-> TRUE, state |-> Sim!CheckpointOf, integrator |-> integrator]}
  /\ Sim!TakeCheckpoint
  /\ result' = "Ok"
  /\ before' = None
  /\ UNCHANGED <<integrator, telemetry, pc, call>>

(* A state with the integrator of another checkpoint, or with the identity  *)
(* of another operator or configuration, may be handed back.                *)
Offers ==
  {[own |-> o, state |-> d, integrator |-> k.integrator] :
     o \in BOOLEAN, d \in Sim!Offers, k \in checkpoints}

Restorable(c) ==
  /\ c.own
  /\ Sim!CanRestore(c.state)
  /\ PairValid(c.state.committed, c.state.time, c.state.step, c.integrator)

(* The records of some steps, in the order they were made.                  *)
OfSteps(records, wanted) ==
  LET kept[k \in 0 .. Len(records)] ==
        IF k = 0 THEN <<>>
        ELSE IF records[k].acceptedStep \in wanted THEN Append(kept[k - 1], records[k])
        ELSE kept[k - 1]
  IN  kept[Len(records)]

(* Mutant: a record one past the restored step is kept.                     *)
RetainedPast(records, n) == OfSteps(records, 0 .. n + 1)

(* The records up to a step.                                                *)
Retained(records, n) == OfSteps(records, 0 .. n)

Restore(c) ==
  /\ pc = "idle"
  /\ before' = None
  /\ UNCHANGED <<refusals, checkpoints, pc, call>>
  /\ \/ /\ Restorable(c)
        /\ Sim!Restore(c.state)
        /\ integrator' = c.integrator
        /\ steps' = Retained(steps, c.integrator.acceptedSteps)
        /\ rejections' = Retained(rejections, c.integrator.acceptedSteps)
        /\ result' = "Ok"
     \/ /\ ~Restorable(c)
        /\ result' = "Err"
        /\ UNCHANGED <<simVars, integrator, steps, rejections>>

----------------------------------------------------------------------------
Init ==
  /\ checkpoints = {}
  /\ Sim!Init
  /\ integrator = None
  /\ steps = <<>>
  /\ rejections = <<>>
  /\ refusals = <<>>
  /\ pc = "preparing"
  /\ call = NoCall
  /\ result = "None"
  /\ before = None

(* The steps of a call in progress.                                         *)
Proceed ==
  Loop \/ Start \/ Open \/ Attempt \/ Write \/ CommitTrial \/ RollBack \/ Record

Next ==
  \/ Prepare
  \/ Create
  \/ \E goal \in Times : Advance(goal)
  \/ \E goal \in Times \cup {NonFinite} : AdvanceTo(goal)
  \/ Proceed
  \/ Checkpoint
  \/ \E c \in Offers : Restore(c)

(* A call runs to its end: there is nothing in it to wait for.              *)
Spec == Init /\ [][Next]_vars /\ WF_vars(Proceed)

----------------------------------------------------------------------------
(* Correctness.                                                             *)

(* Whenever no call is in progress the committed state and the explicit     *)
(* state agree, whatever was rejected, refused or restored before.          *)
SynchronizedWhenIdle == pc = "idle" => Synchronized

(* advance: on any error the committed state, its history, the explicit     *)
(* state and the step records are as the call found them, and advance_to    *)
(* stops with a record for every step it has committed.                     *)
FailureLeavesNoTrace ==
  pc = "idle" /\ before # None /\ result \in {"Err", "Refused", "Rejected", "Exhausted"} =>
    /\ Len(steps) - before.steps = step - before.step
    /\ step = before.step =>
         Snapshot = [before EXCEPT !.rejected = Len(rejections), !.refused = Len(refusals)]

(* The step records are telemetry of the committed trajectory, in step      *)
(* order: each starts where its predecessor ended, and the record of the    *)
(* last step ends at the committed time, also after a restore, which drops  *)
(* the records past the restored step for that purpose.                     *)
RecordsDescribeTrajectory ==
  pc = "idle" =>
    \A k \in 1 .. Len(steps) :
      IF k = Len(steps)
      THEN steps[k].acceptedStep = step /\ steps[k].end = time
      ELSE /\ steps[k + 1].acceptedStep = steps[k].acceptedStep + 1
           /\ steps[k + 1].start = steps[k].end

(* The part of it a restore must keep whatever it is given: no record       *)
(* speaks of a step that ended at another time, or started from another.    *)
RecordsAreTrue ==
  pc = "idle" =>
    \A k \in 1 .. Len(steps) :
      /\ steps[k].acceptedStep = step => steps[k].end = time
      /\ k < Len(steps) /\ steps[k + 1].acceptedStep = steps[k].acceptedStep + 1 =>
           steps[k + 1].start = steps[k].end

(* The rejections of a call, and how many attempts its last step took.      *)
CallRejections == SubSeq(rejections, before.rejected + 1, Len(rejections))

(* Every retry is accounted for: the rejected attempts of a call number     *)
(* from one upward under ever smaller ceilings, an accepted step tells how  *)
(* many it took, within the budget, and exactly the whole budget is used    *)
(* before a step is given up.                                               *)
RetriesAccounted ==
  pc = "idle" /\ before # None /\ result # "Arrived" /\ step <= before.step + 1 =>
    LET rejected == OfSteps(CallRejections, {before.step + 1})
    IN  /\ \A k \in 1 .. Len(rejected) : rejected[k].attempt = k
        /\ \A k \in 2 .. Len(rejected) : rejected[k].size <= rejected[k - 1].suggested
        /\ result = "Accepted" => /\ steps[Len(steps)].attempts = Len(rejected) + 1
                                  /\ Len(rejected) < AttemptBudget
        /\ result = "Exhausted" /\ step = before.step => Len(rejected) = AttemptBudget

(* advance_to returns at exactly the output time it was given, and the      *)
(* records it returns lead there without a gap.                             *)
ArrivesAtOutput ==
  [][pc = "looping" /\ pc' = "idle" =>
       /\ integrator.time = call.goal
       /\ IF Len(steps) = before.steps
          THEN before.time = call.goal
          ELSE /\ steps[before.steps + 1].start = before.time
               /\ steps[Len(steps)].end = call.goal
               /\ Len(steps) - before.steps = step - before.step]_vars

(* A call in progress returns: retries and output loops end.                *)
Returns == pc \notin {"idle", "preparing"} ~> pc = "idle"
=============================================================================
