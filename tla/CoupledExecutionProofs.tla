----------------------- MODULE CoupledExecutionProofs -----------------------
(***************************************************************************)
(* Proofs about CoupledExecution, for every layout, every step size and    *)
(* history limit, whatever the integrator computes and whatever the caller *)
(* hands back as a checkpoint.                                             *)
(***************************************************************************)
EXTENDS CoupledExecution, TLAPS

----------------------------------------------------------------------------
(* What is proved of the state in SimulationStateProofs, said of the state  *)
(* this execution owns.  Sim and State are instances of the same module, so *)
(* their definitions are equal once they are expanded.                      *)

State == INSTANCE SimulationStateProofs WITH saved <- {c.state : c \in checkpoints}

LEMMA StateAssumed ==
  State!LayoutAssumption /\ State!ValueAssumption /\ State!BoundAssumption
BY StateAssumption
   DEF Sim!Blocks, State!Blocks, Sim!Vec, State!Vec

LEMMA StateBegins == Sim!Init => State!IInv
<1>1. Sim!Init => State!Init
  BY DEF Sim!Blocks, State!Blocks, Sim!Ids, State!Ids, Sim!NoTrial,
      State!NoTrial, Sim!New, State!New, Sim!Zeroed, State!Zeroed,
      Sim!ZeroVec, State!ZeroVec, Sim!Init, State!Init
<1>2. QED
  BY <1>1, StateAssumed, State!InitEstablishes

LEMMA StateSteps ==
  ASSUME State!IInv, [Sim!Next]_Sim!vars
  PROVE  State!IInv'
<1>1. [State!Next]_State!vars
  BY DEF Sim!Blocks, State!Blocks, Sim!Ids, State!Ids, Sim!Phases,
      State!Phases, Sim!Replies, State!Replies, Sim!Vec, State!Vec,
      Sim!FlatVec, State!FlatVec, Sim!Part, State!Part, Sim!Checkpoint,
      State!Checkpoint, Sim!store, State!store, Sim!vars, State!vars,
      Sim!IsFinite, State!IsFinite, Sim!Fits, State!Fits, Sim!Present,
      State!Present, Sim!Complete, State!Complete, Sim!NoTrial, State!NoTrial,
      Sim!Pushed, State!Pushed, Sim!CanInsertField, State!CanInsertField,
      Sim!CanInsertConstitutive, State!CanInsertConstitutive,
      Sim!CanBeginTrial, State!CanBeginTrial, Sim!CanSetTrial,
      State!CanSetTrial, Sim!CanSetTrialVector, State!CanSetTrialVector,
      Sim!CanCommit, State!CanCommit, Sim!CanRollback, State!CanRollback,
      Sim!CanCheckpoint, State!CanCheckpoint, Sim!SchemaMatches,
      State!SchemaMatches, Sim!HistoryFits, State!HistoryFits, Sim!CanRestore,
      State!CanRestore, Sim!InsertField, State!InsertField,
      Sim!InsertConstitutive, State!InsertConstitutive, Sim!BeginTrial,
      State!BeginTrial, Sim!SetTrial, State!SetTrial, Sim!SetTrialVector,
      State!SetTrialVector, Sim!HistoryAfterCommit, State!HistoryAfterCommit,
      Sim!Commit, State!Commit, Sim!Rollback, State!Rollback,
      Sim!CheckpointOf, State!CheckpointOf, Sim!TakeCheckpoint,
      State!TakeCheckpoint, Sim!Restore, State!Restore, Sim!Offers,
      State!Offers, Sim!Refuse, State!Refuse, Sim!Next, State!Next,
      Sim!Cardinality, State!Cardinality
<1>2. QED
  BY <1>1, StateAssumed, State!NextPreserves

LEMMA StateFacts ==
  State!IInv => Sim!TypeOK /\ Sim!TrialIsWhole /\ Sim!ShapesHold /\ Sim!HistoryBounded
BY DEF State!IInv, Sim!TypeOK, State!TypeOK, Sim!TrialIsWhole,
    State!TrialIsWhole, Sim!ShapesHold, State!ShapesHold, Sim!HistoryBounded,
    State!HistoryBounded, Sim!Blocks, State!Blocks, Sim!Ids, State!Ids,
    Sim!Phases, State!Phases, Sim!Replies, State!Replies, Sim!Vec, State!Vec,
    Sim!Checkpoint, State!Checkpoint, Sim!Fits, State!Fits, Sim!IsFinite,
    State!IsFinite, Sim!Present, State!Present, Sim!Complete, State!Complete,
    Sim!NoTrial, State!NoTrial

LEMMA StateWrites ==
  ASSUME State!IInv, NEW f \in Sim!FlatVec, Sim!SetTrialVector(f), NEW b \in Blocks
  PROVE  trial'[b] = Sim!Part(f, b)
<1>1. State!SetTrialVector(f) /\ f \in State!FlatVec /\ b \in State!Blocks
  BY DEF Blocks, Sim!Blocks, State!Blocks, Sim!Ids, State!Ids, Sim!FlatVec,
      State!FlatVec, Sim!Part, State!Part, Sim!IsFinite, State!IsFinite,
      Sim!Fits, State!Fits, Sim!Present, State!Present, Sim!CanSetTrial,
      State!CanSetTrial, Sim!CanSetTrialVector, State!CanSetTrialVector,
      Sim!SetTrialVector, State!SetTrialVector
<1>2. QED
  BY <1>1, StateAssumed, State!WrittenTrial DEF Sim!Part, State!Part

LEMMA StateCommits ==
  ASSUME State!IInv, NEW t, Sim!Commit(t), NEW b \in Blocks
  PROVE  /\ committed[b] \in Sim!Vec
         /\ committed'[b] = trial[b]
         /\ trial[b] \in Sim!Vec
         /\ history[b] \in Seq(Sim!Vec)
         /\ history'[b] \in Seq(Sim!Vec)
         /\ Len(history'[b]) =
              IF Len(history[b]) < historyLimit THEN Len(history[b]) + 1 ELSE historyLimit
         /\ \A k \in 1 .. Len(history'[b]) :
              history'[b][k] = IF k = 1 THEN committed[b] ELSE history[b][k - 1]
<1>1. State!Commit(t) /\ b \in State!Blocks
  BY DEF Blocks, Sim!Blocks, State!Blocks, Sim!Ids, State!Ids, Sim!Present,
      State!Present, Sim!NoTrial, State!NoTrial, Sim!Pushed, State!Pushed,
      Sim!CanCommit, State!CanCommit, Sim!HistoryAfterCommit,
      State!HistoryAfterCommit, Sim!Commit, State!Commit
<1>2. Sim!Vec = State!Vec
  BY DEF Sim!Vec, State!Vec
<1>3. QED
  BY <1>1, <1>2, StateAssumed, State!CommittedTrial, State!CommittedHistory

----------------------------------------------------------------------------
(* The invariant of the calls.  While the trial of a step is open the two   *)
(* states are the ones the call found, and they agree; a commit leaves them *)
(* apart, but what the integrator is about to adopt agrees with what has    *)
(* been committed, unless the state keeps no history at all.                *)

Agreed == PairValid(committed, history, time, step, integrator)

Trying  == {"attempting", "writing", "committing", "rollingBack"}
Closing == {"adopting", "checking"}

OutcomeTyped ==
  /\ outcome.kind \in {"None", "Accepted", "Rejected", "Refused", "Failed"}
  /\ outcome = [kind |-> outcome.kind, size |-> outcome.size, next |-> outcome.next]
  /\ outcome.kind = "Accepted" =>
       /\ outcome.next.values \in Flats
       /\ outcome.next.time \in Times \cup {NonFinite}

RefusalsTyped == refusals \in Seq([time : Times, size : StepSizes])

(* Where the call is, and that the state has not moved before the commit.   *)
TransactionInv ==
  /\ pc \in {"preparing", "idle", "opening"} \cup Trying \cup Closing
  /\ pc = "preparing" => before = None
  /\ pc \in {"opening"} \cup Trying => before = Snapshot /\ Agreed
  /\ pc \in {"opening", "idle"} \cup Closing => phase = "Committed"
  /\ pc \in Trying => phase = "Trial"
  /\ pc \in {"opening"} \cup Trying => outcome.size \in StepSizes

(* The attempt on its way into the two states.                              *)
AttemptInv ==
  /\ pc \in {"writing", "committing"} =>
       outcome.kind = "Accepted" /\ outcome.next = Advanced(outcome.next.values, outcome.size)
  /\ pc = "committing" =>
       /\ Finite(outcome.next.values)
       /\ \A b \in Blocks :
            trial[b] = Sim!Part([fits |-> TRUE, at |-> outcome.next.values], b)
  /\ pc = "adopting" =>
       /\ outcome.kind = "Accepted"
       /\ historyLimit # 0 => PairValid(committed, history, time, step, outcome.next)

(* What a call that is about to return, or has returned, leaves behind.     *)
ReturnInv ==
  /\ pc \in Closing => Len(refusals) = before.logged
  /\ pc = "checking" =>
       \/ outcome.kind = "Accepted" /\ (historyLimit # 0 => Agreed)
       \/ outcome.kind = "Rejected" /\ Agreed /\ before = Snapshot
  /\ historyLimit # 0 => SynchronizedWhenIdle /\ FailureLeavesNoTrace

CallInv == OutcomeTyped /\ RefusalsTyped /\ TransactionInv /\ AttemptInv /\ ReturnInv

Inv == State!IInv /\ CallInv

LEMMA InitInv == Init => Inv
<1> SUFFICES ASSUME Init PROVE Inv
  OBVIOUS
<1>1. State!IInv
  BY StateBegins DEF Init
<1>2. phase = "Committed" /\ pc = "preparing" /\ before = None /\ refusals = <<>>
  BY DEF Init, Sim!Init
<1>3. OutcomeTyped /\ RefusalsTyped
  BY <1>2 DEF Init, OutcomeTyped, RefusalsTyped, NoOutcome
<1>4. TransactionInv /\ AttemptInv /\ ReturnInv
  BY <1>2 DEF TransactionInv, AttemptInv, ReturnInv, Trying, Closing,
     SynchronizedWhenIdle, FailureLeavesNoTrace
<1>5. QED
  BY <1>1, <1>3, <1>4 DEF CallInv, Inv

(* A step that does not touch the state is no step of the state.            *)
LEMMA SteadyStutters == Steady => UNCHANGED Sim!vars
BY DEF Steady, simVars, Sim!vars, Sim!store

(* The values of an attempt, as the flat vector set_trial_vector is given.  *)
LEMMA AttemptsAreVectors ==
  ASSUME OutcomeTyped, outcome.kind = "Accepted"
  PROVE  [fits |-> TRUE, at |-> outcome.next.values] \in Sim!FlatVec
BY DEF OutcomeTyped, Flats, Blocks, Sim!Blocks, Sim!FlatVec

(* Every step of the execution is a step of its state, made when the state  *)
(* allows it, or leaves the state alone.                                    *)
LEMMA StepsTransact ==
  ASSUME Inv, [Next]_vars
  PROVE  [Sim!Next]_Sim!vars
<1> USE DEF Inv, CallInv
<1>0. Sim!TypeOK
  BY StateFacts
<1>1. CASE Prepare
  <2>1. ASSUME NEW b \in Blocks, NEW x \in Vals,
               Sim!InsertField(b, [len |-> BlockLen[b], val |-> x])
        PROVE  Sim!Next
    <3>1. b \in Sim!Blocks /\ [len |-> BlockLen[b], val |-> x] \in Sim!Vec
      BY StateAssumption DEF Sim!LayoutAssumption, Blocks, Sim!Blocks, Sim!Vec
    <3>2. QED
      BY <2>1, <3>1 DEF Sim!Next
  <2>2. ASSUME NEW s \in Slots, NEW n \in Lens,
               Sim!InsertConstitutive(s, [len |-> n, val |-> Zero])
        PROVE  Sim!Next
    <3>1. [len |-> n, val |-> Zero] \in Sim!Vec
      BY StateAssumption DEF Sim!ValueAssumption, Sim!Vec
    <3>2. QED
      BY <2>2, <3>1 DEF Sim!Next
  <2>3. CASE Sim!Commit(time)
    BY <1>0, <2>3 DEF Sim!Next, Sim!TypeOK
  <2>4. CASE Sim!BeginTrial \/ Sim!Rollback
    BY <2>4 DEF Sim!Next
  <2>5. QED
    BY <1>1, <2>1, <2>2, <2>3, <2>4 DEF Prepare
<1>2. CASE Create \/ Attempt \/ Adopt \/ Check
  BY <1>2, SteadyStutters DEF Create, Attempt, Adopt, Check
<1>3. ASSUME NEW h \in StepSizes, AttemptStep(h)
      PROVE  [Sim!Next]_Sim!vars
  BY <1>3, SteadyStutters DEF AttemptStep
<1>4. CASE Open \/ RollBack
  BY <1>4 DEF Open, RollBack, Sim!Next
<1>5. CASE Write
  <2>1. [fits |-> TRUE, at |-> outcome.next.values] \in Sim!FlatVec
    BY <1>5, AttemptsAreVectors DEF Write, AttemptInv
  <2>2. QED
    BY <1>5, <2>1 DEF Write, Sim!Next
<1>6. CASE CommitTrial
  <2>1. outcome.next.time \in Times \cup {NonFinite}
    BY <1>6 DEF CommitTrial, AttemptInv, OutcomeTyped
  <2>2. Sim!Commit(outcome.next.time) => outcome.next.time \in Times
    BY <2>1 DEF Sim!Commit, Sim!CanCommit
  <2>3. QED
    BY <1>6, <2>2 DEF CommitTrial, Sim!Next
<1>7. CASE Checkpoint
  BY <1>7, SteadyStutters DEF Checkpoint, Sim!Next
<1>8. ASSUME NEW c \in Offers, Restore(c)
      PROVE  [Sim!Next]_Sim!vars
  <2>1. c.state \in Sim!Offers
    BY DEF Offers
  <2>2. QED
    BY <1>8, <2>1 DEF Restore, Restorable, Sim!Next, simVars, Sim!vars, Sim!store
<1>9. CASE UNCHANGED vars
  BY <1>9 DEF vars, simVars, Sim!vars, Sim!store
<1>10. QED
  BY <1>1, <1>2, <1>3, <1>4, <1>5, <1>6, <1>7, <1>8, <1>9 DEF Next, Proceed

----------------------------------------------------------------------------
(* A state operation other than a commit or a restore leaves the two states *)
(* as they are, and what they agree on.                                     *)
LEMMA StatesUntouched ==
  ASSUME \/ Sim!BeginTrial
         \/ Sim!Refuse
         \/ Sim!Rollback
         \/ Sim!TakeCheckpoint
         \/ \E f : Sim!SetTrialVector(f)
         \/ UNCHANGED simVars,
         UNCHANGED integrator
  PROVE  /\ UNCHANGED <<committed, history, historyLimit, time, step>>
         /\ Agreed' = Agreed
         /\ UNCHANGED refusals => Snapshot' = Snapshot
<1>1. UNCHANGED <<committed, history, historyLimit, time, step>>
  BY DEF simVars, Sim!BeginTrial, Sim!Refuse, Sim!Rollback, Sim!SetTrialVector,
     Sim!TakeCheckpoint, Sim!store
<1>2. Agreed' = Agreed
  BY <1>1 DEF Agreed
<1>3. QED
  BY <1>1, <1>2 DEF Snapshot

(* After the commit of an attempt the committed state agrees with what the  *)
(* integrator will adopt, when the state keeps at least one level.          *)
LEMMA CommitAgrees ==
  ASSUME State!IInv, Agreed, historyLimit # 0, outcome.size \in StepSizes,
         outcome.next = Advanced(outcome.next.values, outcome.size),
         outcome.next.values \in Flats, Finite(outcome.next.values),
         \A b \in Blocks : trial[b] = Sim!Part([fits |-> TRUE, at |-> outcome.next.values], b),
         Sim!Commit(outcome.next.time)
  PROVE  PairValid(committed', history', time', step', outcome.next)
<1> DEFINE next == outcome.next
<1>1. /\ next.values = outcome.next.values
      /\ next.acceptedSteps = integrator.acceptedSteps + 1
      /\ next.previous = integrator.values
      /\ next.previousStep = outcome.size
  BY DEF Advanced
<1>2. Sim!TypeOK /\ Sim!HistoryBounded
  BY StateFacts
<1>3. /\ time' = next.time /\ step' = step + 1
  BY DEF Sim!Commit
<1>4. ASSUME NEW b \in Blocks
      PROVE  /\ committed[b] \in Sim!Vec
             /\ committed'[b] = [len |-> BlockLen[b], val |-> next.values[b]]
             /\ history'[b] # <<>>
             /\ history'[b][1] = committed[b]
  <2>1. /\ committed[b] \in Sim!Vec
        /\ committed'[b] = trial[b]
        /\ history[b] \in Seq(Sim!Vec)
        /\ history'[b] \in Seq(Sim!Vec)
        /\ Len(history'[b]) =
              IF Len(history[b]) < historyLimit THEN Len(history[b]) + 1 ELSE historyLimit
        /\ \A k \in 1 .. Len(history'[b]) :
              history'[b][k] = IF k = 1 THEN committed[b] ELSE history[b][k - 1]
    BY StateCommits
  <2>2. historyLimit \in Nat /\ historyLimit > 0 /\ Len(history[b]) \in Nat
    BY <1>2, <2>1 DEF Sim!TypeOK
  <2>3. Len(history'[b]) \in Nat /\ Len(history'[b]) >= 1
    BY <2>1, <2>2
  <2>4. history'[b] # <<>> /\ history'[b][1] = committed[b]
    BY <2>1, <2>3
  <2>5. trial[b] = [len |-> BlockLen[b], val |-> next.values[b]]
    BY DEF Sim!Part
  <2>6. QED
    BY <2>1, <2>4, <2>5
<1>5. /\ integrator.values = FlatOf(committed)
      /\ Finite(integrator.values)
      /\ integrator.acceptedSteps = step
  BY DEF Agreed, PairValid
<1>6. FlatOf(committed) \in Flats
  BY <1>4 DEF FlatOf, Flats, Sim!Vec
<1>7. HistoryAgrees(history', step', next)
  <2>1. next.previous # None /\ Finite(next.previous)
    BY <1>1, <1>5, <1>6, FlatAssumption
  <2>2. next.previousStep > 0
    <3>1. outcome.size \in Nat \ {0}
      BY StepAssumption
    <3>2. QED
      BY <1>1, <3>1
  <2>3. HistoryVector(history') = next.previous
    BY <1>1, <1>4, <1>5 DEF HistoryVector, FlatOf
  <2>4. QED
    BY <1>4, <2>1, <2>2, <2>3 DEF HistoryAgrees
<1>8. next.values = FlatOf(committed')
  <2>1. next.values \in Flats
    OBVIOUS
  <2>2. ASSUME NEW b \in Blocks PROVE committed'[b].val = next.values[b]
    <3>1. committed'[b] = [len |-> BlockLen[b], val |-> next.values[b]]
      BY <1>4
    <3>2. QED
      BY <3>1
  <2>3. QED
    BY <2>1, <2>2 DEF FlatOf, Flats
<1>9. \A b \in Blocks : committed'[b] # None
  <2>1. ASSUME NEW b \in Blocks PROVE trial[b] \in Sim!Vec /\ committed'[b] = trial[b]
    BY StateCommits
  <2>2. QED
    BY <2>1, StateAssumption DEF Sim!ValueAssumption
<1>10. QED
  BY <1>1, <1>3, <1>5, <1>7, <1>8, <1>9 DEF PairValid

----------------------------------------------------------------------------
(* Each step keeps the invariant of the calls.                              *)

(* The steps before the trial is open, and between two calls.               *)
LEMMA BetweenCallsKeeps ==
  ASSUME Inv,
         \/ Prepare \/ Create \/ Checkpoint
         \/ \E h \in StepSizes : AttemptStep(h)
         \/ \E c : Restore(c)
  PROVE  CallInv'
<1> USE DEF Inv, CallInv
<1>0. Sim!TypeOK
  BY StateFacts
<1>1. CASE Prepare
  <2>1. pc = "preparing" /\ UNCHANGED <<integrator, refusals, pc, outcome, result, before>>
    BY <1>1 DEF Prepare
  <2>2. OutcomeTyped' /\ RefusalsTyped'
    BY <2>1 DEF OutcomeTyped, RefusalsTyped
  <2>3. TransactionInv' /\ AttemptInv' /\ ReturnInv'
    BY <2>1 DEF TransactionInv, AttemptInv, ReturnInv, Trying, Closing,
       SynchronizedWhenIdle, FailureLeavesNoTrace
  <2>4. QED
    BY <2>2, <2>3
<1>2. CASE Create
  <2>1. /\ pc = "preparing" /\ pc' = "idle" /\ phase = "Committed" /\ phase' = "Committed"
        /\ UNCHANGED <<refusals, outcome, result, before>>
        /\ UNCHANGED <<committed, history, time, step>>
        /\ PairValid(committed, history, time, step, integrator')
    BY <1>2 DEF Create, Steady, simVars
  <2>2. OutcomeTyped' /\ RefusalsTyped'
    BY <2>1 DEF OutcomeTyped, RefusalsTyped
  <2>3. SynchronizedWhenIdle'
    BY <2>1 DEF SynchronizedWhenIdle, Synchronized
  <2>4. TransactionInv' /\ AttemptInv' /\ ReturnInv'
    BY <2>1, <2>3 DEF TransactionInv, AttemptInv, ReturnInv, Trying, Closing,
       FailureLeavesNoTrace
  <2>5. QED
    BY <2>2, <2>4
<1>3. CASE Checkpoint
  <2>1. /\ pc = "idle" /\ UNCHANGED <<integrator, refusals, pc, outcome>>
        /\ before' = Snapshot
        /\ UNCHANGED simVars \/ Sim!TakeCheckpoint
        /\ result' \in {"Ok", "Err"}
    BY <1>3 DEF Checkpoint, Enter, Steady
  <2>2. /\ UNCHANGED <<committed, history, historyLimit, time, step, phase>>
        /\ Snapshot' = Snapshot
    BY <2>1, StatesUntouched DEF simVars, Sim!TakeCheckpoint, Sim!store
  <2>3. before' = Snapshot
    BY <1>3 DEF Checkpoint, Enter
  <2>4. OutcomeTyped' /\ RefusalsTyped'
    BY <2>1 DEF OutcomeTyped, RefusalsTyped
  <2>5. SynchronizedWhenIdle' = SynchronizedWhenIdle
    BY <2>1, <2>2 DEF SynchronizedWhenIdle, Synchronized
  <2>6. FailureLeavesNoTrace'
    BY <2>1, <2>2, <2>3 DEF FailureLeavesNoTrace, Snapshot
  <2>7. TransactionInv' /\ AttemptInv' /\ ReturnInv'
    BY <2>1, <2>2, <2>5, <2>6 DEF TransactionInv, AttemptInv, ReturnInv, Trying, Closing
  <2>8. QED
    BY <2>4, <2>7
<1>4. ASSUME NEW h \in StepSizes, AttemptStep(h)
      PROVE  CallInv'
  <2>1. /\ pc = "idle" /\ phase = "Committed" /\ before' = Snapshot
        /\ UNCHANGED <<integrator, refusals>>
        /\ UNCHANGED <<committed, history, historyLimit, time, step, phase>>
    BY <1>4 DEF AttemptStep, Enter, Steady, simVars, TransactionInv
  <2>2. Snapshot' = Snapshot /\ Agreed' = Agreed
    BY <2>1 DEF Snapshot, Agreed
  <2>3. RefusalsTyped'
    BY <2>1 DEF RefusalsTyped
  <2>4. CASE Synchronized /\ pc' = "opening" /\ outcome' = [NoOutcome EXCEPT !.size = h]
    <3>1. outcome' = [kind |-> "None", size |-> h, next |-> None]
      BY <2>4 DEF NoOutcome
    <3>2. OutcomeTyped'
      BY <3>1 DEF OutcomeTyped
    <3>3. Agreed'
      BY <2>2, <2>4 DEF Synchronized, Agreed
    <3>4. TransactionInv' /\ AttemptInv' /\ ReturnInv'
      BY <2>1, <2>2, <2>4, <3>1, <3>3 DEF TransactionInv, AttemptInv, ReturnInv, Trying,
         Closing, SynchronizedWhenIdle, FailureLeavesNoTrace
    <3>5. QED
      BY <2>3, <3>2, <3>4
  <2>5. CASE ~Synchronized /\ result' = "Err" /\ UNCHANGED <<pc, outcome>>
    <3>1. OutcomeTyped'
      BY <2>5 DEF OutcomeTyped
    <3>2. FailureLeavesNoTrace'
      BY <2>1, <2>2, <2>5 DEF FailureLeavesNoTrace, Snapshot
    <3>3. SynchronizedWhenIdle' = SynchronizedWhenIdle
      BY <2>1, <2>5 DEF SynchronizedWhenIdle, Synchronized
    <3>4. TransactionInv' /\ AttemptInv' /\ ReturnInv'
      BY <2>1, <2>5, <3>2, <3>3 DEF TransactionInv, AttemptInv, ReturnInv, Trying, Closing
    <3>5. QED
      BY <2>3, <3>1, <3>4
  <2>6. QED
    BY <1>4, <2>4, <2>5 DEF AttemptStep
<1>5. ASSUME NEW c, Restore(c)
      PROVE  CallInv'
  <2>1. pc = "idle" /\ before' = Snapshot /\ UNCHANGED <<refusals, pc, outcome>>
    BY <1>5 DEF Restore, Enter
  <2>2. OutcomeTyped' /\ RefusalsTyped'
    BY <2>1 DEF OutcomeTyped, RefusalsTyped
  <2>3. CASE Restorable(c) /\ Sim!Restore(c.state) /\ integrator' = c.integrator /\ result' = "Ok"
    <3>1. /\ committed' = c.state.committed /\ history' = c.state.history
          /\ time' = c.state.time /\ step' = c.state.step /\ phase' = "Committed"
      BY <2>3 DEF Sim!Restore
    <3>2. SynchronizedWhenIdle'
      BY <2>3, <3>1 DEF SynchronizedWhenIdle, Synchronized, Restorable
    <3>3. FailureLeavesNoTrace'
      BY <2>1, <2>3 DEF FailureLeavesNoTrace, Snapshot
    <3>4. TransactionInv' /\ AttemptInv' /\ ReturnInv'
      BY <2>1, <3>1, <3>2, <3>3 DEF TransactionInv, AttemptInv, ReturnInv, Trying, Closing
    <3>5. QED
      BY <2>2, <3>4
  <2>4. CASE result' = "Err" /\ UNCHANGED <<simVars, integrator>>
    <3>1. /\ UNCHANGED <<committed, history, historyLimit, time, step, phase, integrator>>
      BY <2>4 DEF simVars
    <3>2. FailureLeavesNoTrace'
      BY <2>1, <2>4, <3>1 DEF FailureLeavesNoTrace, Snapshot
    <3>3. SynchronizedWhenIdle' = SynchronizedWhenIdle
      BY <2>1, <3>1 DEF SynchronizedWhenIdle, Synchronized
    <3>4. TransactionInv' /\ AttemptInv' /\ ReturnInv'
      BY <2>1, <3>1, <3>2, <3>3 DEF TransactionInv, AttemptInv, ReturnInv, Trying, Closing
    <3>5. QED
      BY <2>2, <3>4
  <2>5. QED
    BY <1>5, <2>3, <2>4 DEF Restore
<1>6. QED
  BY <1>1, <1>2, <1>3, <1>4, <1>5

(* The steps of a call in progress.                                         *)
LEMMA ProceedKeeps ==
  ASSUME Inv, Proceed
  PROVE  CallInv'
<1> USE DEF Inv, CallInv
<1>1. CASE Open
  <2>1. /\ pc = "opening" /\ pc' = "attempting" /\ Sim!BeginTrial
        /\ UNCHANGED <<integrator, refusals, outcome, result, before>>
    BY <1>1 DEF Open
  <2>2. /\ Agreed' = Agreed /\ Snapshot' = Snapshot /\ phase' = "Trial"
    BY <2>1, StatesUntouched DEF Sim!BeginTrial
  <2>3. OutcomeTyped' /\ RefusalsTyped'
    BY <2>1 DEF OutcomeTyped, RefusalsTyped
  <2>4. TransactionInv' /\ AttemptInv' /\ ReturnInv'
    BY <2>1, <2>2 DEF TransactionInv, AttemptInv, ReturnInv, Trying, Closing,
       SynchronizedWhenIdle, FailureLeavesNoTrace
  <2>5. QED
    BY <2>3, <2>4
<1>2. CASE Attempt
  <2>1. /\ pc = "attempting" /\ phase = "Trial"
        /\ UNCHANGED <<integrator, refusals, result, before>> /\ UNCHANGED simVars
    BY <1>2 DEF Attempt, Steady, TransactionInv, Trying
  <2>2. Agreed' = Agreed /\ Snapshot' = Snapshot /\ phase' = phase
    BY <2>1, StatesUntouched DEF simVars
  <2>3. RefusalsTyped'
    BY <2>1 DEF RefusalsTyped
  <2>4. ASSUME NEW f \in Flats,
               outcome' = [outcome EXCEPT !.kind = "Accepted",
                                          !.next = Advanced(f, outcome.size)],
               pc' = "writing"
        PROVE  CallInv'
    <3>1. outcome' = [kind |-> "Accepted", size |-> outcome.size,
                      next |-> Advanced(f, outcome.size)]
      BY <2>4 DEF OutcomeTyped
    <3>2. /\ outcome'.next.values = f
          /\ outcome'.next.time \in Times \cup {NonFinite}
      BY <3>1 DEF Advanced, Plus
    <3>3. OutcomeTyped'
      BY <2>4, <3>1, <3>2 DEF OutcomeTyped
    <3>4. Advanced(f, outcome.size)' = Advanced(f, outcome.size)
      BY <2>1, <3>1 DEF Advanced
    <3>5. AttemptInv'
      BY <2>1, <2>4, <3>1, <3>2, <3>4 DEF AttemptInv, Advanced
    <3>6. TransactionInv' /\ ReturnInv'
      BY <2>1, <2>2, <2>4, <3>1 DEF TransactionInv, ReturnInv, Trying, Closing,
         SynchronizedWhenIdle, FailureLeavesNoTrace
    <3>7. QED
      BY <2>3, <3>3, <3>5, <3>6
  <2>5. ASSUME NEW kind \in {"Rejected", "Refused", "Failed"},
               outcome' = [outcome EXCEPT !.kind = kind],
               pc' = "rollingBack"
        PROVE  CallInv'
    <3>1. outcome' = [kind |-> kind, size |-> outcome.size, next |-> outcome.next]
      BY <2>5 DEF OutcomeTyped
    <3>2. OutcomeTyped'
      BY <3>1 DEF OutcomeTyped
    <3>3. TransactionInv' /\ AttemptInv' /\ ReturnInv'
      BY <2>1, <2>2, <2>5, <3>1 DEF TransactionInv, AttemptInv, ReturnInv, Trying, Closing,
         SynchronizedWhenIdle, FailureLeavesNoTrace
    <3>4. QED
      BY <2>3, <3>2, <3>3
  <2>6. QED
    BY <1>2, <2>4, <2>5 DEF Attempt, Accepted, NotAccepted
<1>3. CASE Write
  <2> DEFINE f == [fits |-> TRUE, at |-> outcome.next.values]
  <2>1. /\ pc = "writing" /\ phase = "Trial"
        /\ UNCHANGED <<integrator, refusals, outcome, result, before>>
    BY <1>3 DEF Write, TransactionInv, Trying
  <2>2. f \in Sim!FlatVec
    BY <2>1, AttemptsAreVectors DEF AttemptInv
  <2>3. OutcomeTyped' /\ RefusalsTyped'
    BY <2>1 DEF OutcomeTyped, RefusalsTyped
  <2>4. CASE Sim!SetTrialVector(f) /\ pc' = "committing"
    <3>1. Agreed' = Agreed /\ Snapshot' = Snapshot /\ phase' = "Trial"
      BY <2>1, <2>4, StatesUntouched DEF Sim!SetTrialVector
    <3>2. Finite(outcome.next.values)
      BY <2>4 DEF Sim!SetTrialVector, Sim!CanSetTrialVector, Finite, Blocks, Sim!Blocks
    <3>3. \A b \in Blocks : trial'[b] = Sim!Part(f, b)
      BY <2>2, <2>4, StateWrites
    <3>4. AttemptInv'
      <4>1. /\ outcome' = outcome
            /\ Advanced(outcome.next.values, outcome.size)'
                 = Advanced(outcome.next.values, outcome.size)
            /\ Finite(outcome'.next.values)
            /\ \A b \in Blocks :
                 trial'[b] = Sim!Part([fits |-> TRUE, at |-> outcome'.next.values], b)
        BY <2>1, <3>2, <3>3 DEF Advanced
      <4>2. QED
        BY <2>1, <2>4, <4>1 DEF AttemptInv, Sim!Part
    <3>5. TransactionInv' /\ ReturnInv'
      BY <2>1, <2>4, <3>1 DEF TransactionInv, ReturnInv, Trying, Closing,
         SynchronizedWhenIdle, FailureLeavesNoTrace
    <3>6. QED
      BY <2>3, <3>4, <3>5
  <2>5. CASE Sim!Refuse /\ pc' = "rollingBack"
    <3>1. Agreed' = Agreed /\ Snapshot' = Snapshot /\ phase' = phase
      BY <2>1, <2>5, StatesUntouched DEF Sim!Refuse, Sim!store
    <3>2. TransactionInv' /\ AttemptInv' /\ ReturnInv'
      BY <2>1, <2>5, <3>1 DEF TransactionInv, AttemptInv, ReturnInv, Trying, Closing,
         SynchronizedWhenIdle, FailureLeavesNoTrace
    <3>3. QED
      BY <2>3, <3>2
  <2>6. QED
    BY <1>3, <2>4, <2>5 DEF Write
<1>4. CASE CommitTrial
  <2>1. /\ pc = "committing" /\ phase = "Trial"
        /\ UNCHANGED <<integrator, refusals, outcome, result, before>>
        /\ before = Snapshot /\ Agreed /\ outcome.size \in StepSizes
    BY <1>4 DEF CommitTrial, TransactionInv, Trying
  <2>2. OutcomeTyped' /\ RefusalsTyped'
    BY <2>1 DEF OutcomeTyped, RefusalsTyped
  <2>3. CASE Sim!Commit(outcome.next.time) /\ pc' = "adopting"
    <3>1. phase' = "Committed" /\ historyLimit' = historyLimit
      BY <2>3 DEF Sim!Commit
    <3>2. historyLimit # 0 => PairValid(committed', history', time', step', outcome.next)
      BY <2>1, <2>3, CommitAgrees DEF AttemptInv, OutcomeTyped
    <3>3. AttemptInv'
      BY <2>1, <2>3, <3>1, <3>2 DEF AttemptInv
    <3>4. Len(refusals') = before'.logged
      BY <2>1 DEF Snapshot
    <3>5. TransactionInv' /\ ReturnInv'
      BY <2>1, <2>3, <3>1, <3>4 DEF TransactionInv, ReturnInv, Trying, Closing,
         SynchronizedWhenIdle, FailureLeavesNoTrace
    <3>6. QED
      BY <2>2, <3>3, <3>5
  <2>4. CASE Sim!Refuse /\ pc' = "rollingBack"
    <3>1. Agreed' = Agreed /\ Snapshot' = Snapshot /\ phase' = phase
      BY <2>1, <2>4, StatesUntouched DEF Sim!Refuse, Sim!store
    <3>2. TransactionInv' /\ AttemptInv' /\ ReturnInv'
      BY <2>1, <2>4, <3>1 DEF TransactionInv, AttemptInv, ReturnInv, Trying, Closing,
         SynchronizedWhenIdle, FailureLeavesNoTrace
    <3>3. QED
      BY <2>2, <3>2
  <2>5. QED
    BY <1>4, <2>3, <2>4 DEF CommitTrial
<1>5. CASE RollBack
  <2>1. /\ pc = "rollingBack" /\ Sim!Rollback /\ UNCHANGED <<integrator, before>>
        /\ before = Snapshot /\ Agreed /\ outcome.size \in StepSizes /\ refusals' = Logged
    BY <1>5 DEF RollBack, TransactionInv, Trying
  <2>2. /\ UNCHANGED <<committed, history, historyLimit, time, step>>
        /\ Agreed' /\ phase' = "Committed"
    BY <2>1, StatesUntouched DEF Sim!Rollback
  <2>3. RefusalsTyped'
    <3>1. time \in Times
      BY StateFacts DEF Sim!TypeOK
    <3>2. [time |-> time, size |-> outcome.size] \in [time : Times, size : StepSizes]
      BY <2>1, <3>1
    <3>3. ASSUME NEW R, NEW log \in Seq(R), NEW r \in R
          PROVE  Append(log, r) \in Seq(R)
      OBVIOUS
    <3>4. Logged \in Seq([time : Times, size : StepSizes])
      BY <3>2, <3>3 DEF RefusalsTyped, Logged
    <3>5. QED
      BY <2>1, <3>4 DEF RefusalsTyped
  <2>4. CASE outcome.kind = "Rejected" /\ pc' = "checking" /\ UNCHANGED <<result, outcome>>
    <3>1. refusals' = refusals
      BY <2>1, <2>4 DEF Logged
    <3>2. Snapshot' = Snapshot
      BY <2>1, <2>2, <3>1 DEF Snapshot
    <3>3. Len(refusals') = before'.logged
      BY <2>1, <3>1 DEF Snapshot
    <3>4. OutcomeTyped'
      BY <2>4 DEF OutcomeTyped
    <3>5. TransactionInv' /\ AttemptInv' /\ ReturnInv'
      BY <2>1, <2>2, <2>4, <3>2, <3>3 DEF TransactionInv, AttemptInv, ReturnInv, Trying, Closing,
         SynchronizedWhenIdle, FailureLeavesNoTrace
    <3>6. QED
      BY <2>3, <3>4, <3>5
  <2>5. CASE /\ outcome.kind # "Rejected" /\ pc' = "idle" /\ outcome' = NoOutcome
             /\ result' = IF outcome.kind = "Refused" THEN "Refused" ELSE "Err"
    <3>1. OutcomeTyped'
      BY <2>5 DEF OutcomeTyped, NoOutcome
    <3>2. SynchronizedWhenIdle'
      BY <2>2 DEF SynchronizedWhenIdle, Synchronized, Agreed
    <3>3. before.logged = Len(refusals) /\ before.time = time
      BY <2>1 DEF Snapshot
    <3>4. Snapshot' = [before EXCEPT !.logged = Len(refusals')]
      BY <2>1, <2>2 DEF Snapshot
    <3>5. outcome.kind # "Refused" => refusals' = refusals
      BY <2>1 DEF Logged
    <3>6. outcome.kind = "Refused" =>
            /\ Len(refusals') = Len(refusals) + 1
            /\ refusals'[Len(refusals')].time = time
      BY <2>1 DEF Logged, RefusalsTyped
    <3>7. Len(refusals) \in Nat
      BY DEF RefusalsTyped
    <3>8. FailureLeavesNoTrace'
      BY <2>1, <2>5, <3>3, <3>4, <3>5, <3>6, <3>7 DEF FailureLeavesNoTrace
    <3>9. TransactionInv' /\ AttemptInv' /\ ReturnInv'
      BY <2>2, <2>5, <3>2, <3>8 DEF TransactionInv, AttemptInv, ReturnInv, Trying, Closing
    <3>10. QED
      BY <2>3, <3>1, <3>9
  <2>6. QED
    BY <1>5, <2>4, <2>5 DEF RollBack
<1>6. CASE Adopt
  <2>1. /\ pc = "adopting" /\ pc' = "checking" /\ integrator' = outcome.next
        /\ UNCHANGED <<refusals, outcome, result, before>> /\ UNCHANGED simVars
    BY <1>6 DEF Adopt, Steady
  <2>2. /\ UNCHANGED <<committed, history, historyLimit, time, step, phase>>
    BY <2>1 DEF simVars
  <2>3. historyLimit' # 0 => Agreed'
    BY <2>1, <2>2 DEF Agreed, AttemptInv
  <2>4. OutcomeTyped' /\ RefusalsTyped'
    BY <2>1 DEF OutcomeTyped, RefusalsTyped
  <2>5. TransactionInv' /\ AttemptInv' /\ ReturnInv'
    BY <2>1, <2>2, <2>3 DEF TransactionInv, AttemptInv, ReturnInv, Trying, Closing,
       SynchronizedWhenIdle, FailureLeavesNoTrace
  <2>6. QED
    BY <2>4, <2>5
<1>7. CASE Check
  <2>1. /\ pc = "checking" /\ pc' = "idle" /\ phase = "Committed" /\ outcome' = NoOutcome
        /\ result' = IF Synchronized THEN outcome.kind ELSE "Err"
        /\ UNCHANGED <<integrator, refusals, before>> /\ UNCHANGED simVars
    BY <1>7 DEF Check, Steady, TransactionInv, Closing
  <2>2. /\ UNCHANGED <<committed, history, historyLimit, time, step, phase>>
        /\ Agreed' = Agreed /\ Snapshot' = Snapshot
    BY <2>1, StatesUntouched DEF simVars
  <2>3. OutcomeTyped' /\ RefusalsTyped'
    BY <2>1 DEF OutcomeTyped, RefusalsTyped, NoOutcome
  <2>4. Synchronized <=> Agreed
    BY <2>1 DEF Synchronized, Agreed
  <2>5. ASSUME historyLimit # 0
        PROVE  SynchronizedWhenIdle' /\ FailureLeavesNoTrace'
    <3>1. Agreed
      BY <2>1, <2>5 DEF ReturnInv
    <3>2. SynchronizedWhenIdle'
      BY <2>1, <2>2, <3>1 DEF SynchronizedWhenIdle, Synchronized, Agreed
    <3>3. result' = outcome.kind /\ outcome.kind \in {"Accepted", "Rejected"}
      BY <2>1, <2>4, <3>1 DEF ReturnInv
    <3>4. Len(refusals') = before'.logged /\ Len(refusals) \in Nat
      BY <2>1 DEF ReturnInv, Closing, RefusalsTyped
    <3>5. outcome.kind = "Rejected" => Snapshot' = [before' EXCEPT !.logged = Len(refusals')]
      BY <2>1, <2>2 DEF ReturnInv, Snapshot
    <3>6. QED
      BY <3>2, <3>3, <3>4, <3>5 DEF FailureLeavesNoTrace
  <2>6. TransactionInv' /\ AttemptInv' /\ ReturnInv'
    BY <2>1, <2>2, <2>5 DEF TransactionInv, AttemptInv, ReturnInv, Trying, Closing
  <2>7. QED
    BY <2>3, <2>6
<1>8. QED
  BY <1>1, <1>2, <1>3, <1>4, <1>5, <1>6, <1>7 DEF Proceed

LEMMA NextPreservesInv == Inv /\ [Next]_vars => Inv'
<1> SUFFICES ASSUME Inv, [Next]_vars PROVE Inv'
  OBVIOUS
<1>1. State!IInv'
  BY StepsTransact, StateSteps DEF Inv
<1>2. CASE UNCHANGED vars
  <2>1. /\ UNCHANGED <<phase, historyLimit, time, step, committed, trial, history>>
        /\ UNCHANGED <<integrator, refusals, pc, outcome, result, before>>
    BY <1>2 DEF vars, simVars
  <2>2. OutcomeTyped' /\ RefusalsTyped' /\ TransactionInv'
    BY <2>1 DEF Inv, CallInv, OutcomeTyped, RefusalsTyped, TransactionInv, Snapshot, Agreed
  <2>3. AttemptInv'
    BY <2>1 DEF Inv, CallInv, AttemptInv, Advanced, Sim!Part
  <2>4. ReturnInv'
    BY <2>1 DEF Inv, CallInv, ReturnInv, Agreed, Snapshot, SynchronizedWhenIdle, Synchronized,
       FailureLeavesNoTrace
  <2>5. QED
    BY <1>1, <2>2, <2>3, <2>4 DEF Inv, CallInv
<1>3. CASE Next
  BY <1>1, <1>3, BetweenCallsKeeps, ProceedKeeps DEF Next, Inv
<1>4. QED
  BY <1>2, <1>3

----------------------------------------------------------------------------
(* The inductive invariant holds in every reachable state.                  *)
THEOREM Invariance == Spec => []Inv
<1>1. QED
  BY InitInv, NextPreservesInv, PTL DEF Spec

(* The committed state and the BDF state agree whenever no call is in       *)
(* progress, whichever attempt, write, commit or restore has failed before, *)
(* in every execution whose state keeps history at all.                     *)
THEOREM SynchronizationIsKept == Spec => [](historyLimit # 0 => SynchronizedWhenIdle)
<1>1. Inv => (historyLimit # 0 => SynchronizedWhenIdle)
  BY DEF Inv, CallInv, ReturnInv
<1>2. QED
  BY <1>1, Invariance, PTL

(* A step that is refused, rejected or fails leaves the committed state, its*)
(* history, and the BDF state as the call found them, and the log tells of  *)
(* each typed refusal once with the committed time.  It needs a history     *)
(* limit of at least one: with none an accepted step returns an error.      *)
THEOREM FailedStepsLeaveNoTrace == Spec => [](historyLimit # 0 => FailureLeavesNoTrace)
<1>1. Inv => (historyLimit # 0 => FailureLeavesNoTrace)
  BY DEF Inv, CallInv, ReturnInv
<1>2. QED
  BY <1>1, Invariance, PTL

----------------------------------------------------------------------------
(* Every call is atomic for its caller.  Three things are missing for it:   *)
(* the trial of a slot is its committed vector, as no solver writes a slot; *)
(* from the commit to the return the state is one step on from the one the  *)
(* call found; and no state is reached that keeps no history, in which the  *)
(* closing check would refuse a step that was committed.                    *)

SlotsStay == phase = "Trial" => \A s \in Slots : trial[s] = committed[s]

LEMMA NextKeepsSlots ==
  ASSUME Inv, SlotsStay, [Next]_vars
  PROVE  SlotsStay'
<1> USE DEF SlotsStay
<1>0. \A s \in Slots : s \in Sim!Ids /\ s \notin Sim!Blocks
  BY StateAssumption DEF Sim!LayoutAssumption, Sim!Ids
<1>1. ASSUME \/ \E b, v : Sim!InsertField(b, v)
             \/ \E r, v : Sim!InsertConstitutive(r, v)
             \/ \E t : Sim!Commit(t)
             \/ \E c : Sim!Restore(c)
             \/ Sim!Rollback
      PROVE  SlotsStay'
  BY <1>1 DEF Sim!InsertField, Sim!InsertConstitutive, Sim!CanInsertField,
      Sim!CanInsertConstitutive, Sim!Commit, Sim!Restore, Sim!Rollback
<1>2. CASE Sim!BeginTrial
  BY <1>2 DEF Sim!BeginTrial
<1>3. ASSUME NEW f, Sim!SetTrialVector(f)
      PROVE  SlotsStay'
  BY <1>0, <1>3 DEF Sim!SetTrialVector, Sim!CanSetTrialVector
<1>4. CASE UNCHANGED <<phase, trial, committed>>
  BY <1>4
<1>5. QED
  BY <1>1, <1>2, <1>3, <1>4
     DEF Next, Proceed, Prepare, Create, AttemptStep, Open, Attempt, Write, CommitTrial,
         RollBack, Adopt, Check, Checkpoint, Restore, Steady, vars, simVars, Sim!Refuse, Sim!TakeCheckpoint, Sim!store

LEMMA OneMoreState ==
  ASSUME NEW S, NEW k
  PROVE  {c.state : c \in S \cup {k}} = {c.state : c \in S} \cup {k.state}
OBVIOUS

(* What the caller sees in the middle of a call that has moved nothing.     *)
LEMMA FoundIsThere == before = Snapshot => Found = Sim!CheckpointOf
BY DEF Found, Snapshot, Sim!CheckpointOf

LEMMA SameCheckpoint ==
  Snapshot' = Snapshot => (Sim!CheckpointOf)' = Sim!CheckpointOf
BY DEF Snapshot, Sim!CheckpointOf

(* A commit moves the state one step on.                                    *)
LEMMA CommitIsOneStep ==
  ASSUME State!IInv, SlotsStay, NEW t, Sim!Commit(t)
  PROVE  Calls!OneStepOn(Sim!CheckpointOf, (Sim!CheckpointOf)')
<1>1. /\ step' = step + 1 /\ time' = t /\ t >= time /\ historyLimit' = historyLimit
      /\ phase = "Trial"
  BY DEF Sim!Commit, Sim!CanCommit
<1>2. Sim!TypeOK /\ Sim!TrialIsWhole
  BY StateFacts
<1>3. ASSUME NEW b \in Blocks
      PROVE  history'[b] = IF historyLimit = 0 THEN history[b]
               ELSE SubSeq(<<committed[b]>> \o history[b], 1,
                      IF Len(history[b]) < historyLimit THEN Len(history[b]) + 1
                      ELSE historyLimit)
  <2>1. b \in Sim!Blocks /\ Sim!Present(b)
    BY <1>1, <1>2 DEF Sim!TrialIsWhole, Sim!Complete, Blocks, Sim!Blocks
  <2>2. QED
    BY <2>1 DEF Sim!Commit, Sim!HistoryAfterCommit, Sim!Pushed
<1>4. ASSUME NEW i \in DOMAIN committed \ Blocks
      PROVE  committed'[i] = committed[i]
  <2>1. i \in Slots /\ i \in Sim!Ids
    BY <1>2 DEF Sim!TypeOK, Sim!Ids, Sim!Blocks, Blocks
  <2>2. QED
    BY <1>1, <2>1 DEF Sim!Commit, Sim!Present, SlotsStay
<1>5. QED
  BY <1>1, <1>3, <1>4 DEF Calls!OneStepOn, Sim!CheckpointOf

(* What a restore accepts is a checkpoint the caller keeps.                 *)
LEMMA RestoredIsKept ==
  ASSUME State!HonestDelivery, Sim!TypeOK, NEW c \in Offers, Restorable(c)
  PROVE  \E k \in checkpoints : k.state = c.state
<1>1. c.state \in Sim!Offers
  BY DEF Offers, Restorable
<1>2. PICK k \in checkpoints : c.state \in Delivered(k.state) \cap Sim!Checkpoint
  BY <1>1 DEF Sim!Offers
<1>3. k.state \in Sim!Checkpoint
  BY <1>2 DEF Sim!TypeOK
<1>4. State!WellFormed(c.state)
  BY DEF Restorable, Sim!CanRestore, State!WellFormed, Sim!Fits, State!Fits,
         Sim!IsFinite, State!IsFinite, Sim!HistoryFits, State!HistoryFits,
         Sim!Blocks, State!Blocks
<1>5. Sim!Checkpoint = State!Checkpoint
  BY DEF Sim!Checkpoint, State!Checkpoint, Sim!Ids, State!Ids, Sim!Blocks, State!Blocks,
         Sim!Vec, State!Vec
<1>6. c.state = k.state
  BY <1>2, <1>3, <1>4, <1>5 DEF State!HonestDelivery
<1>7. QED
  BY <1>6

(* A restored state is one that was kept, under honest delivery.            *)
LEMMA RestoreGoesBack ==
  ASSUME State!HonestDelivery, Sim!TypeOK, NEW c \in Offers, Restorable(c), Sim!Restore(c.state)
  PROVE  (Sim!CheckpointOf)' \in {k.state : k \in checkpoints}
<1>1. PICK k \in checkpoints : k.state = c.state
  BY RestoredIsKept
<1>2. k.state \in Sim!Checkpoint
  BY DEF Sim!TypeOK
<1>3. c.state.ownLayout = TRUE
  BY <1>1, <1>2 DEF Sim!Checkpoint, Sim!Restore, Sim!CanRestore
<1>4. (Sim!CheckpointOf)' = k.state
  BY <1>1, <1>2, <1>3 DEF Sim!CheckpointOf, Sim!Restore, Sim!Checkpoint
<1>5. QED
  BY <1>4

(* No state that can be reached has a history limit of zero.                *)
KeepsHistory == historyLimit # 0 /\ \A c \in checkpoints : c.state.historyLimit # 0

LEMMA NextKeepsHistory ==
  ASSUME State!HonestDelivery, Inv, KeepsHistory, [Next]_vars
  PROVE  KeepsHistory'
<1> USE DEF KeepsHistory
<1>0. Sim!TypeOK
  BY StateFacts DEF Inv
<1>1. ASSUME NEW c \in Offers, Restorable(c), Sim!Restore(c.state), UNCHANGED checkpoints
      PROVE  KeepsHistory'
  <2>1. PICK k \in checkpoints : k.state = c.state
    BY <1>0, <1>1, RestoredIsKept
  <2>2. QED
    BY <1>1, <2>1 DEF Sim!Restore
<1>2. CASE Checkpoint
  <2>1. /\ historyLimit' = historyLimit
        /\ \/ UNCHANGED checkpoints
           \/ checkpoints' = checkpoints \cup
                {[ownOperator |-> TRUE, state |-> Sim!CheckpointOf, integrator |-> integrator]}
    BY <1>2 DEF Checkpoint, Steady, simVars, Sim!TakeCheckpoint, Sim!store
  <2>2. Sim!CheckpointOf.historyLimit = historyLimit
    BY DEF Sim!CheckpointOf
  <2>3. QED
    BY <2>1, <2>2
<1>3. CASE UNCHANGED <<historyLimit, checkpoints>>
  BY <1>3
<1>4. CASE Prepare
  BY <1>4 DEF Prepare, Sim!InsertField, Sim!InsertConstitutive, Sim!BeginTrial, Sim!Commit,
      Sim!Rollback
<1>5. CASE Proceed
  BY <1>5 DEF Proceed, Open, Attempt, Write, CommitTrial, RollBack, Adopt, Check, Steady,
      simVars, Sim!BeginTrial, Sim!SetTrialVector, Sim!Refuse, Sim!Commit, Sim!Rollback, Sim!store
<1>6. ASSUME NEW h \in StepSizes, AttemptStep(h)
      PROVE  KeepsHistory'
  BY <1>6 DEF AttemptStep, Steady, simVars
<1>7. ASSUME NEW c \in Offers, Restore(c)
      PROVE  KeepsHistory'
  BY <1>1, <1>7 DEF Restore, simVars
<1>8. QED
  BY <1>2, <1>3, <1>4, <1>5, <1>6, <1>7 DEF Next, Create, Steady, vars, simVars

(* From the commit on, until the call returns.                              *)
SteppedOn ==
  pc = "adopting" \/ (pc = "checking" /\ outcome.kind = "Accepted")
    => Calls!OneStepOn(Found, Sim!CheckpointOf)

LEMMA NextKeepsStep ==
  ASSUME Inv, SlotsStay, SteppedOn, [Next]_vars
  PROVE  SteppedOn'
<1> USE DEF SteppedOn
<1>1. CASE CommitTrial /\ pc' = "adopting"
  <2>1. before = Snapshot /\ UNCHANGED before
    BY <1>1 DEF CommitTrial, Inv, CallInv, TransactionInv, Trying
  <2>2. Calls!OneStepOn(Sim!CheckpointOf, (Sim!CheckpointOf)')
    BY <1>1, CommitIsOneStep DEF CommitTrial, Inv
  <2>3. Found' = Sim!CheckpointOf
    BY <2>1, FoundIsThere DEF Found, Snapshot, Sim!CheckpointOf
  <2>4. QED
    BY <2>2, <2>3 DEF Calls!OneStepOn
<1>2. CASE Adopt
  <2>1. /\ pc = "adopting" /\ Found' = Found /\ (Sim!CheckpointOf)' = Sim!CheckpointOf
    BY <1>2 DEF Adopt, Steady, simVars, Found, Sim!CheckpointOf
  <2>2. QED
    BY <2>1 DEF Calls!OneStepOn
<1>3. CASE RollBack
  BY <1>3 DEF RollBack
<1>4. CASE UNCHANGED vars
  <2>1. /\ UNCHANGED <<pc, outcome>> /\ Found' = Found
        /\ (Sim!CheckpointOf)' = Sim!CheckpointOf
    BY <1>4 DEF vars, simVars, Found, Sim!CheckpointOf
  <2>2. QED
    BY <2>1 DEF Calls!OneStepOn
<1>5. CASE pc' \notin {"adopting", "checking"}
  BY <1>5
<1>6. ASSUME Prepare \/ Create \/ Checkpoint \/ Open \/ Attempt \/ Write \/ Check
             \/ (\E h \in StepSizes : AttemptStep(h)) \/ (\E c \in Offers : Restore(c))
      PROVE  pc' \notin {"adopting", "checking"}
  BY <1>6 DEF Prepare, Create, Checkpoint, Open, Attempt, Accepted, NotAccepted, Write, Check,
     AttemptStep, Restore
<1>7. CASE CommitTrial /\ pc' # "adopting"
  BY <1>7 DEF CommitTrial
<1>8. QED
  BY <1>1, <1>2, <1>3, <1>4, <1>5, <1>6, <1>7 DEF Next, Proceed

Running == {"opening"} \cup Trying \cup Closing

LEMMA NextIsAtomic ==
  ASSUME State!HonestDelivery, Inv, SlotsStay, KeepsHistory, SteppedOn, [Next]_vars
  PROVE  [Calls!Next]_Calls!vars
<1> USE DEF AtRest
<1>0. /\ Sim!TypeOK
      /\ pc \in {"preparing", "idle"} \cup Running
      /\ pc \in {"opening"} \cup Trying => Found = Sim!CheckpointOf
      /\ pc = "idle" => phase = "Committed"
  BY StateFacts, FoundIsThere DEF Inv, CallInv, TransactionInv, Running
<1>1. CASE Prepare
  BY <1>1 DEF Prepare, Calls!Next, Calls!Prepare
<1>2. CASE Create
  BY <1>2 DEF Create, Steady, simVars, Sim!CheckpointOf, Calls!Next, Calls!Create
<1>3. ASSUME NEW h \in StepSizes, AttemptStep(h)
      PROVE  Calls!Next
  <2>1. /\ pc = "idle" /\ before' = Snapshot /\ UNCHANGED <<checkpoints, phase>>
        /\ (Sim!CheckpointOf)' = Sim!CheckpointOf
        /\ pc' = "opening" \/ (pc' = "idle" /\ result' = "Err")
    BY <1>3 DEF AttemptStep, Enter, Steady, simVars, Sim!CheckpointOf
  <2>2. Found' = Sim!CheckpointOf
    BY <2>1, FoundIsThere DEF Found, Snapshot, Sim!CheckpointOf
  <2>3. QED
    BY <1>0, <2>1, <2>2 DEF Calls!Next, Calls!Begin, Calls!Fail
<1>4. ASSUME pc \in Running, pc' \in Running, UNCHANGED <<before, checkpoints>>
      PROVE  UNCHANGED Calls!vars
  BY <1>4 DEF Calls!vars, Found, Running, Trying, Closing
<1>5. CASE Open \/ Attempt \/ Write \/ CommitTrial \/ Adopt
  <2>1. pc \in Running /\ pc' \in Running /\ UNCHANGED <<before, checkpoints>>
    BY <1>5 DEF Open, Attempt, Accepted, NotAccepted, Write, CommitTrial, Adopt, Steady,
       Running, Trying, Closing
  <2>2. QED
    BY <1>4, <2>1
<1>6. CASE RollBack
  <2>1. /\ pc = "rollingBack" /\ phase' = "Committed" /\ UNCHANGED <<checkpoints, before>>
        /\ (Sim!CheckpointOf)' = Sim!CheckpointOf /\ Found = Sim!CheckpointOf
    BY <1>0, <1>6 DEF RollBack, Sim!Rollback, Sim!CheckpointOf, Trying
  <2>2. CASE pc' = "checking"
    BY <1>4, <2>1, <2>2 DEF Running, Trying, Closing
  <2>3. CASE pc' = "idle" /\ result' \in {"Refused", "Err"}
    BY <2>1, <2>3 DEF Calls!Next, Calls!Fail
  <2>4. QED
    BY <1>6, <2>2, <2>3 DEF RollBack
<1>7. CASE Check
  <2>1. /\ pc = "checking" /\ pc' = "idle" /\ phase = "Committed" /\ phase' = "Committed"
        /\ UNCHANGED checkpoints
        /\ (Sim!CheckpointOf)' = Sim!CheckpointOf
    BY <1>7 DEF Check, Steady, simVars, Sim!CheckpointOf, Inv, CallInv, TransactionInv, Closing
  <2>2. result' = outcome.kind
    BY <1>7, <2>1 DEF Check, Synchronized, Agreed, KeepsHistory, Inv, CallInv, ReturnInv
  <2>3. CASE outcome.kind = "Accepted"
    <3>1. Calls!OneStepOn(Found, Sim!CheckpointOf)
      BY <2>1, <2>3 DEF SteppedOn
    <3>2. QED
      BY <2>1, <2>2, <2>3, <3>1 DEF Calls!Next, Calls!Step, Calls!OneStepOn
  <2>4. CASE outcome.kind = "Rejected" /\ before = Snapshot
    BY <2>1, <2>2, <2>4, FoundIsThere DEF Calls!Next, Calls!Fail
  <2>5. QED
    BY <2>1, <2>3, <2>4 DEF Inv, CallInv, ReturnInv
<1>8. CASE Checkpoint
  <2>1. /\ pc = "idle" /\ pc' = "idle" /\ UNCHANGED phase
        /\ (Sim!CheckpointOf)' = Sim!CheckpointOf
    BY <1>8 DEF Checkpoint, Steady, simVars, Sim!TakeCheckpoint, Sim!store, Sim!CheckpointOf
  <2>2. CASE /\ checkpoints' = checkpoints \cup
                  {[ownOperator |-> TRUE, state |-> Sim!CheckpointOf, integrator |-> integrator]}
             /\ result' = "Ok"
    <3>1. {c.state : c \in checkpoints'} = {c.state : c \in checkpoints} \cup {Sim!CheckpointOf}
      BY <2>2, OneMoreState
    <3>2. QED
      BY <1>0, <2>1, <2>2, <3>1 DEF Calls!Next, Calls!Keep
  <2>3. CASE result' = "Err" /\ UNCHANGED checkpoints
    BY <1>0, <2>1, <2>3 DEF Calls!Next, Calls!Fail
  <2>4. QED
    BY <1>8, <2>2, <2>3 DEF Checkpoint, Steady
<1>9. ASSUME NEW c \in Offers, Restore(c)
      PROVE  Calls!Next
  <2>1. pc = "idle" /\ UNCHANGED <<checkpoints, pc>>
    BY <1>9 DEF Restore
  <2>2. CASE Restorable(c) /\ Sim!Restore(c.state) /\ result' = "Ok"
    <3>1. phase' = "Committed" /\ (Sim!CheckpointOf)' \in {k.state : k \in checkpoints}
      BY <1>0, <2>2, RestoreGoesBack DEF Sim!Restore
    <3>2. QED
      BY <1>0, <2>1, <2>2, <3>1 DEF Calls!Next, Calls!Back
  <2>3. CASE result' = "Err" /\ UNCHANGED simVars
    BY <1>0, <2>1, <2>3 DEF simVars, Sim!CheckpointOf, Calls!Next, Calls!Fail
  <2>4. QED
    BY <1>9, <2>2, <2>3 DEF Restore
<1>10. CASE UNCHANGED vars
  BY <1>10 DEF vars, simVars, Sim!CheckpointOf, Found, Calls!vars
<1>11. QED
  BY <1>1, <1>2, <1>3, <1>5, <1>6, <1>7, <1>8, <1>9, <1>10 DEF Next, Proceed

(* Seen from outside, a call has taken the committed state one step on with *)
(* one more level of history, or back to a state that was kept, or has left *)
(* it alone, and has said which.  Whatever step was committed is reported,  *)
(* because no state keeps no history: see CoupledZeroHistory.               *)
THEOREM CallsAlwaysAtomic ==
  ASSUME State!HonestDelivery, 0 \notin HistoryLimits
  PROVE  Spec => CallsAreAtomic
<1>1. Init => SlotsStay /\ KeepsHistory /\ SteppedOn /\ Calls!Init
  BY DEF Init, Sim!Init, SlotsStay, KeepsHistory, SteppedOn, AtRest, Calls!Init
<1>2. Inv /\ SlotsStay /\ [Next]_vars => SlotsStay'
  BY NextKeepsSlots
<1>3. Inv /\ KeepsHistory /\ [Next]_vars => KeepsHistory'
  BY NextKeepsHistory
<1>4. Inv /\ SlotsStay /\ SteppedOn /\ [Next]_vars => SteppedOn'
  BY NextKeepsStep
<1>5. Inv /\ SlotsStay /\ KeepsHistory /\ SteppedOn /\ [Next]_vars => [Calls!Next]_Calls!vars
  BY NextIsAtomic
<1>6. QED
  BY <1>1, <1>2, <1>3, <1>4, <1>5, Invariance, PTL DEF Spec, CallsAreAtomic, Calls!Spec
=============================================================================
