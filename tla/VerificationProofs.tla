-------------------------- MODULE VerificationProofs --------------------------
(***************************************************************************)
(* Proofs about Verification, for every layout, history limit, operator,   *)
(* decoder and evidence, and for checks of any length.                     *)
(***************************************************************************)
EXTENDS Verification, TLAPS

Clone == INSTANCE CoupledExecutionProofs WITH checkpoints <- {}

LEMMA CloneAssumed ==
  Clone!StepAssumption /\ Clone!LogAssumption /\ Clone!StateAssumption /\ Clone!FlatAssumption
BY ExecutionAssumption
   DEF Exec!StepAssumption, Clone!StepAssumption, Exec!LogAssumption, Clone!LogAssumption,
       Exec!StateAssumption, Clone!StateAssumption, Exec!FlatAssumption, Clone!FlatAssumption,
       Exec!Flats, Clone!Flats, Exec!Blocks, Clone!Blocks,
       Exec!Sim!LayoutAssumption, Clone!Sim!LayoutAssumption,
       Exec!Sim!ValueAssumption, Clone!Sim!ValueAssumption,
       Exec!Sim!BoundAssumption, Clone!Sim!BoundAssumption,
       Exec!Sim!Blocks, Clone!Sim!Blocks, Exec!Sim!Vec, Clone!Sim!Vec

LEMMA CloneBegins == Exec!Init => Clone!Inv
<1>1. Exec!Init => Clone!Init
  BY DEF Exec!Init, Clone!Init, Exec!NoOutcome, Clone!NoOutcome,
     Exec!Sim!Init, Clone!Sim!Init, Exec!Sim!New, Clone!Sim!New, Exec!Sim!Zeroed,
     Clone!Sim!Zeroed, Exec!Sim!ZeroVec, Clone!Sim!ZeroVec, Exec!Sim!NoTrial, Clone!Sim!NoTrial,
     Exec!Sim!Ids, Clone!Sim!Ids, Exec!Sim!Blocks, Clone!Sim!Blocks
<1>2. QED
  BY <1>1, CloneAssumed, Clone!InitInv

LEMMA ClonePrepares == Exec!Prepare => Clone!Prepare
BY DEF Exec!Prepare, Clone!Prepare, Exec!Blocks, Clone!Blocks,
   Exec!Sim!InsertField, Clone!Sim!InsertField,
   Exec!Sim!InsertConstitutive, Clone!Sim!InsertConstitutive,
   Exec!Sim!BeginTrial, Clone!Sim!BeginTrial, Exec!Sim!Commit, Clone!Sim!Commit,
   Exec!Sim!Rollback, Clone!Sim!Rollback,
   Exec!Sim!CanInsertField, Clone!Sim!CanInsertField,
   Exec!Sim!CanInsertConstitutive, Clone!Sim!CanInsertConstitutive,
   Exec!Sim!CanBeginTrial, Clone!Sim!CanBeginTrial, Exec!Sim!CanCommit, Clone!Sim!CanCommit,
   Exec!Sim!CanRollback, Clone!Sim!CanRollback, Exec!Sim!Complete, Clone!Sim!Complete,
   Exec!Sim!Present, Clone!Sim!Present, Exec!Sim!Fits, Clone!Sim!Fits,
   Exec!Sim!IsFinite, Clone!Sim!IsFinite, Exec!Sim!NoTrial, Clone!Sim!NoTrial,
   Exec!Sim!Pushed, Clone!Sim!Pushed, Exec!Sim!HistoryAfterCommit, Clone!Sim!HistoryAfterCommit,
   Exec!Sim!Ids, Clone!Sim!Ids, Exec!Sim!Blocks, Clone!Sim!Blocks

LEMMA SameAgreement ==
  ASSUME NEW v, NEW h, NEW t, NEW n, NEW ig
  PROVE  Exec!PairValid(v, h, t, n, ig) <=> Clone!PairValid(v, h, t, n, ig)
BY DEF Exec!PairValid, Clone!PairValid, Exec!HistoryAgrees, Clone!HistoryAgrees,
   Exec!HistoryVector, Clone!HistoryVector, Exec!FlatOf, Clone!FlatOf,
   Exec!Finite, Clone!Finite, Exec!Blocks, Clone!Blocks

LEMMA CloneCreates == Exec!Create => Clone!Create
BY DEF Exec!Create, Clone!Create, Exec!FlatOf, Clone!FlatOf, Exec!Blocks, Clone!Blocks,
   Exec!PairValid, Clone!PairValid, Exec!HistoryAgrees, Clone!HistoryAgrees,
   Exec!HistoryVector, Clone!HistoryVector, Exec!Finite, Clone!Finite,
   Exec!Steady, Clone!Steady, Exec!simVars, Clone!simVars,
   Exec!Sim!Complete, Clone!Sim!Complete, Exec!Sim!Present, Clone!Sim!Present,
   Exec!Sim!Blocks, Clone!Sim!Blocks

LEMMA CloneAttempts ==
  ASSUME NEW h, Exec!AttemptStep(h)
  PROVE  Clone!AttemptStep(h)
BY DEF Exec!AttemptStep, Clone!AttemptStep, Exec!Enter, Clone!Enter,
   Exec!Snapshot, Clone!Snapshot, Exec!Synchronized, Clone!Synchronized,
   Exec!NoOutcome, Clone!NoOutcome, Exec!Steady, Clone!Steady, Exec!simVars, Clone!simVars,
   Exec!PairValid, Clone!PairValid, Exec!HistoryAgrees, Clone!HistoryAgrees,
   Exec!HistoryVector, Clone!HistoryVector, Exec!FlatOf, Clone!FlatOf,
   Exec!Finite, Clone!Finite, Exec!Blocks, Clone!Blocks

LEMMA CloneProceeds ==
  /\ Exec!Open => Clone!Open
  /\ Exec!Attempt => Clone!Attempt
  /\ Exec!Write => Clone!Write
  /\ Exec!CommitTrial => Clone!CommitTrial
  /\ Exec!RollBack => Clone!RollBack
  /\ Exec!Adopt => Clone!Adopt
  /\ Exec!Check => Clone!Check
<1> USE DEF Exec!Blocks, Clone!Blocks, Exec!Sim!Ids, Clone!Sim!Ids,
            Exec!Sim!Blocks, Clone!Sim!Blocks, Exec!Sim!NoTrial, Clone!Sim!NoTrial,
            Exec!Steady, Clone!Steady, Exec!simVars, Clone!simVars,
            Exec!Sim!Present, Clone!Sim!Present, Exec!Sim!store, Clone!Sim!store
<1>1. Exec!Open => Clone!Open
  BY DEF Exec!Open, Clone!Open, Exec!Sim!BeginTrial, Clone!Sim!BeginTrial,
     Exec!Sim!CanBeginTrial, Clone!Sim!CanBeginTrial, Exec!Sim!Complete, Clone!Sim!Complete
<1>2. Exec!Attempt => Clone!Attempt
  BY DEF Exec!Attempt, Clone!Attempt, Exec!Accepted, Clone!Accepted,
     Exec!NotAccepted, Clone!NotAccepted, Exec!Advanced, Clone!Advanced,
     Exec!Plus, Clone!Plus, Exec!Flats, Clone!Flats
<1>3. Exec!Write => Clone!Write
  BY DEF Exec!Write, Clone!Write, Exec!Sim!SetTrialVector, Clone!Sim!SetTrialVector,
     Exec!Sim!CanSetTrialVector, Clone!Sim!CanSetTrialVector, Exec!Sim!CanSetTrial,
     Clone!Sim!CanSetTrial, Exec!Sim!Part, Clone!Sim!Part, Exec!Sim!Fits, Clone!Sim!Fits,
     Exec!Sim!IsFinite, Clone!Sim!IsFinite, Exec!Sim!Refuse, Clone!Sim!Refuse
<1>4. Exec!CommitTrial => Clone!CommitTrial
  BY DEF Exec!CommitTrial, Clone!CommitTrial, Exec!Sim!Commit, Clone!Sim!Commit,
     Exec!Sim!CanCommit, Clone!Sim!CanCommit, Exec!Sim!HistoryAfterCommit,
     Clone!Sim!HistoryAfterCommit, Exec!Sim!Pushed, Clone!Sim!Pushed,
     Exec!Sim!Refuse, Clone!Sim!Refuse
<1>5. Exec!RollBack => Clone!RollBack
  BY DEF Exec!RollBack, Clone!RollBack, Exec!Sim!Rollback, Clone!Sim!Rollback,
     Exec!Sim!CanRollback, Clone!Sim!CanRollback, Exec!Logged, Clone!Logged,
     Exec!NoOutcome, Clone!NoOutcome
<1>6. Exec!Adopt => Clone!Adopt
  BY DEF Exec!Adopt, Clone!Adopt
<1>7. Exec!Check => Clone!Check
  BY DEF Exec!Check, Clone!Check, Exec!Synchronized, Clone!Synchronized,
     Exec!NoOutcome, Clone!NoOutcome, Exec!PairValid, Clone!PairValid,
     Exec!HistoryAgrees, Clone!HistoryAgrees, Exec!HistoryVector, Clone!HistoryVector,
     Exec!FlatOf, Clone!FlatOf, Exec!Finite, Clone!Finite
<1>8. QED
  BY <1>1, <1>2, <1>3, <1>4, <1>5, <1>6, <1>7

LEMMA CloneSteps ==
  ASSUME Clone!Inv,
         \/ Exec!Prepare
         \/ Exec!Create
         \/ Exec!Proceed
         \/ \E h \in StepSizes : Exec!AttemptStep(h)
         \/ UNCHANGED clone
  PROVE  Clone!Inv'
<1>1. [Clone!Next]_Clone!vars
  BY ClonePrepares, CloneCreates, CloneProceeds, CloneAttempts
     DEF Exec!Proceed, Clone!Proceed, Clone!Next, Clone!vars, Clone!simVars, clone
<1>2. QED
  BY <1>1, CloneAssumed, Clone!NextPreservesInv

LEMMA CloneRestores ==
  ASSUME Clone!Inv, NEW c, c.state \in Exec!Sim!Checkpoint, Exec!Restorable(c), Exec!Restore(c)
  PROVE  Clone!Inv'
<1>1. Clone!Restore(c)
  BY DEF Exec!Restore, Clone!Restore, Exec!Enter, Clone!Enter, Exec!Snapshot, Clone!Snapshot,
     Exec!Restorable, Clone!Restorable, Exec!PairValid, Clone!PairValid,
     Exec!HistoryAgrees, Clone!HistoryAgrees, Exec!HistoryVector, Clone!HistoryVector,
     Exec!FlatOf, Clone!FlatOf, Exec!Finite, Clone!Finite, Exec!Blocks, Clone!Blocks,
     Exec!simVars, Clone!simVars, Exec!Sim!Restore, Clone!Sim!Restore,
     Exec!Sim!CanRestore, Clone!Sim!CanRestore, Exec!Sim!SchemaMatches,
     Clone!Sim!SchemaMatches, Exec!Sim!HistoryFits, Clone!Sim!HistoryFits,
     Exec!Sim!Fits, Clone!Sim!Fits, Exec!Sim!IsFinite, Clone!Sim!IsFinite,
     Exec!Sim!Present, Clone!Sim!Present, Exec!Sim!NoTrial, Clone!Sim!NoTrial,
     Exec!Sim!Ids, Clone!Sim!Ids, Exec!Sim!Blocks, Clone!Sim!Blocks
<1>2. Clone!CallInv'
  BY <1>1, CloneAssumed, Clone!BetweenCallsKeeps
<1>3. Clone!State!Restore(c.state) /\ c.state \in Clone!State!Checkpoint
  BY DEF Exec!Restore, Exec!Restorable, Exec!simVars, Exec!Sim!Restore, Clone!State!Restore,
     Exec!Sim!CanRestore, Clone!State!CanRestore, Exec!Sim!SchemaMatches,
     Clone!State!SchemaMatches, Exec!Sim!HistoryFits, Clone!State!HistoryFits,
     Exec!Sim!Fits, Clone!State!Fits, Exec!Sim!IsFinite, Clone!State!IsFinite,
     Exec!Sim!Present, Clone!State!Present, Exec!Sim!NoTrial, Clone!State!NoTrial,
     Exec!Sim!Ids, Clone!State!Ids, Exec!Sim!Blocks, Clone!State!Blocks,
     Exec!Sim!Checkpoint, Clone!State!Checkpoint, Exec!Sim!Vec, Clone!State!Vec
<1>4. Clone!State!IInv'
  BY <1>3, CloneAssumed, Clone!StateAssumed, Clone!State!RestorePreserves DEF Clone!Inv
<1>5. QED
  BY <1>2, <1>4 DEF Clone!Inv

----------------------------------------------------------------------------
(* What is known of an execution with no call in progress.                  *)

Ids == Blocks \cup Slots
Vec == [len : Lens, val : Vals \cup {NonFinite}]

Shaped(e) ==
  /\ \A b \in Blocks :
       /\ e.committed[b] # None =>
            e.committed[b].len = BlockLen[b] /\ e.committed[b].val # NonFinite
       /\ Len(e.history[b]) <= e.historyLimit
       /\ \A k \in 1 .. Len(e.history[b]) :
            e.history[b][k].len = BlockLen[b] /\ e.history[b][k].val # NonFinite
  /\ \A s \in Slots : e.committed[s] # None => e.committed[s].val # NonFinite

Agreed(e) == Exec!PairValid(e.committed, e.history, e.time, e.step, e.integrator)

Sound(e) ==
  /\ e = [phase |-> e.phase, historyLimit |-> e.historyLimit, time |-> e.time, step |-> e.step,
          committed |-> e.committed, trial |-> e.trial, history |-> e.history,
          integrator |-> e.integrator, refusals |-> e.refusals]
  /\ e.phase = "Committed"
  /\ e.trial = [i \in Ids |-> None]
  /\ e.historyLimit \in Nat
  /\ e.time \in Times
  /\ e.step \in 0 .. MaxStep
  /\ e.committed \in [Ids -> Vec \cup {None}]
  /\ e.history \in [Blocks -> Seq(Vec)]
  /\ e.refusals \in Seq([time : Times, size : StepSizes])
  /\ Shaped(e)
  /\ e.historyLimit # 0 => Agreed(e)

LEMMA SoundWhenIdle ==
  ASSUME Clone!Inv, pc = "idle"
  PROVE  Sound(Execution)
<1>1. Clone!State!TypeOK /\ Clone!State!TrialIsWhole /\ Clone!State!ShapesHold
      /\ Clone!State!HistoryBounded
  BY DEF Clone!Inv, Clone!State!IInv
<1>2. phase = "Committed"
  BY DEF Clone!Inv, Clone!CallInv, Clone!TransactionInv
<1>3. historyLimit # 0 => Agreed(Execution)
  BY SameAgreement DEF Clone!Inv, Clone!CallInv, Clone!ReturnInv, Clone!SynchronizedWhenIdle,
     Clone!Synchronized, Agreed, Execution
<1>4. Shaped(Execution)
  BY <1>1 DEF Shaped, Execution, Clone!State!ShapesHold, Clone!State!HistoryBounded,
     Clone!State!Present, Clone!State!Fits, Clone!State!IsFinite, Clone!State!Blocks, Blocks
<1>5. refusals \in Seq([time : Times, size : StepSizes])
  BY DEF Clone!Inv, Clone!CallInv, Clone!RefusalsTyped
<1>6. QED
  BY <1>1, <1>2, <1>3, <1>4, <1>5 DEF Sound, Execution, Ids, Vec, Blocks, Clone!State!TypeOK,
     Clone!State!TrialIsWhole, Clone!State!NoTrial, Clone!State!Ids, Clone!State!Blocks,
     Clone!State!Vec

LEMMA SoundOnReturn == (Clone!Inv /\ pc = "idle" => Sound(Execution))'
<1>1. Clone!Inv /\ pc = "idle" => Sound(Execution)
  BY SoundWhenIdle
<1>2. QED
  BY <1>1, PTL

LEMMA LoadKeeps ==
  ASSUME NEW e, Sound(e), Load(e)
  PROVE  Clone!Inv'
<1> USE DEF Load
<1>1. Clone!State!TypeOK'
  BY DEF Sound, Ids, Vec, Blocks, Clone!State!TypeOK, Clone!State!Ids, Clone!State!Blocks,
     Clone!State!Vec, Clone!State!Phases, Clone!State!Replies
<1>2. Clone!State!TrialIsWhole'
  BY DEF Sound, Ids, Blocks, Clone!State!TrialIsWhole, Clone!State!NoTrial, Clone!State!Ids,
     Clone!State!Blocks
<1>3. Clone!State!ShapesHold'
  BY DEF Sound, Shaped, Ids, Blocks, Clone!State!ShapesHold, Clone!State!Present,
     Clone!State!Fits, Clone!State!IsFinite, Clone!State!Ids, Clone!State!Blocks
<1>4. Clone!State!HistoryBounded'
  BY DEF Sound, Shaped, Blocks, Clone!State!HistoryBounded, Clone!State!Blocks
<1>5. Clone!OutcomeTyped' /\ Clone!RefusalsTyped'
  BY DEF Sound, Clone!OutcomeTyped, Clone!RefusalsTyped, Exec!NoOutcome
<1>6. Clone!TransactionInv' /\ Clone!AttemptInv'
  BY DEF Sound, Clone!TransactionInv, Clone!AttemptInv, Clone!Trying, Clone!Closing
<1>7. Clone!ReturnInv'
  <2>1. historyLimit' # 0 => Clone!SynchronizedWhenIdle'
    BY SameAgreement DEF Sound, Agreed, Clone!SynchronizedWhenIdle, Clone!Synchronized
  <2>2. Clone!FailureLeavesNoTrace'
    BY DEF Clone!FailureLeavesNoTrace
  <2>3. QED
    BY <2>1, <2>2 DEF Clone!ReturnInv, Clone!Closing
<1>8. QED
  BY <1>1, <1>2, <1>3, <1>4, <1>5, <1>6, <1>7
     DEF Clone!Inv, Clone!CallInv, Clone!State!IInv

----------------------------------------------------------------------------
(* One call of attempt_step as a function of the execution s it found and   *)
(* of the outcome o of the attempt.                                         *)

(* The accepted values are written and committed.                           *)
Takes(s, o) ==
  /\ o.kind = "Accepted"
  /\ Exec!Finite(o.next.values)
  /\ o.next.time # NonFinite
  /\ o.next.time >= s.time
  /\ s.step < MaxStep

Written(s, o) ==
  [i \in Ids |-> IF i \in Blocks
                 THEN [len |-> BlockLen[i], val |-> o.next.values[i]]
                 ELSE s.committed[i]]

PushedOn(limit, h, v) ==
  IF limit = 0 THEN h
  ELSE SubSeq(<<v>> \o h, 1, IF Len(h) < limit THEN Len(h) + 1 ELSE limit)

Lengthened(s) ==
  [b \in Blocks |-> PushedOn(s.historyLimit, s.history[b], s.committed[b])]

After(s, o) ==
  IF Takes(s, o)
  THEN [phase |-> "Committed", historyLimit |-> s.historyLimit, time |-> o.next.time,
        step |-> s.step + 1, committed |-> Written(s, o), trial |-> [i \in Ids |-> None],
        history |-> Lengthened(s), integrator |-> o.next, refusals |-> s.refusals]
  ELSE [phase |-> "Committed", historyLimit |-> s.historyLimit, time |-> s.time,
        step |-> s.step, committed |-> s.committed, trial |-> [i \in Ids |-> None],
        history |-> s.history, integrator |-> s.integrator,
        refusals |-> IF o.kind = "Refused"
                     THEN Append(s.refusals, [time |-> s.time, size |-> o.size])
                     ELSE s.refusals]

Result(s, o) ==
  IF Takes(s, o) THEN IF Agreed(After(s, o)) THEN "Accepted" ELSE "Err"
  ELSE IF o.kind \in {"Rejected", "Refused"} THEN o.kind ELSE "Err"

(* The outcome o came of an attempt of the size from s: a pure operator has *)
(* it among its answers.                                                    *)
Question(s, size, config) == [integrator |-> s.integrator, size |-> size, config |-> config]

Came(s, o, size, config) ==
  /\ o.size = size
  /\ operator.pure =>
       /\ Question(s, size, config) \in DOMAIN answers
       /\ answers[Question(s, size, config)] = o

(* Where a call that found s is.                                            *)
Untouched(s) ==
  /\ time = s.time
  /\ step = s.step
  /\ committed = s.committed
  /\ history = s.history
  /\ integrator = s.integrator

Moved(s) ==
  /\ Takes(s, outcome)
  /\ time = outcome.next.time
  /\ step = s.step + 1
  /\ committed = Written(s, outcome)
  /\ history = Lengthened(s)

InCall(s, size, config) ==
  /\ pc \in {"opening", "attempting", "writing", "committing", "rollingBack", "adopting",
             "checking"}
  /\ historyLimit = s.historyLimit
  /\ refusals = s.refusals
  /\ pc \in {"opening", "attempting"} =>
       outcome = [kind |-> "None", size |-> size, next |-> None]
  /\ pc \notin {"opening", "attempting"} => Came(s, outcome, size, config)
  /\ pc \in {"opening", "attempting", "writing", "committing", "rollingBack"} => Untouched(s)
  /\ pc \in {"attempting", "writing"} => trial = s.committed
  /\ pc \in {"writing", "committing"} => outcome.kind = "Accepted"
  /\ pc = "committing" => Exec!Finite(outcome.next.values) /\ trial = Written(s, outcome)
  /\ pc = "rollingBack" => ~Takes(s, outcome)
  /\ pc = "adopting" => Moved(s) /\ integrator = s.integrator
  /\ pc = "checking" => \/ Moved(s) /\ integrator = outcome.next
                        \/ Untouched(s) /\ outcome.kind = "Rejected"

Ended(s, size, config) ==
  /\ pc = "idle"
  /\ \E o : /\ Came(s, o, size, config)
            /\ Execution = After(s, o)
            /\ result = Result(s, o)

Calling(s, size, config) == InCall(s, size, config) \/ Ended(s, size, config)

LEMMA CallBegins ==
  ASSUME NEW CONSTANT s, NEW CONSTANT h, NEW CONSTANT config,
         s = Execution, Agreed(s), s.phase = "Committed", Exec!AttemptStep(h)
  PROVE  Calling(s, h, config)'
<1>1. /\ pc' = "opening"
      /\ outcome' = [kind |-> "None", size |-> h, next |-> None]
      /\ UNCHANGED <<historyLimit, time, step, committed, history, integrator, refusals>>
  BY DEF Exec!AttemptStep, Exec!Synchronized, Agreed, Execution, Exec!Steady, Exec!simVars,
     Exec!NoOutcome
<1>2. Untouched(s)'
  BY <1>1 DEF Untouched, Execution
<1>3. historyLimit' = s.historyLimit /\ refusals' = s.refusals
  BY <1>1 DEF Execution
<1>4. QED
  BY <1>1, <1>2, <1>3 DEF Calling, InCall

(* What the call asks of the operator is remembered, and nothing is         *)
(* forgotten.                                                               *)
LEMMA AnswersKept ==
  ASSUME NEW CONSTANT s, NEW CONSTANT o, NEW CONSTANT size, NEW CONSTANT config,
         Remember, UNCHANGED operator, Came(s, o, size, config)
  PROVE  Came(s, o, size, config)'
<1> DEFINE q == [integrator |-> integrator, size |-> outcome.size, config |-> Config]
<1>1. CASE UNCHANGED answers
  BY <1>1 DEF Came
<1>2. CASE /\ q \notin DOMAIN answers
           /\ answers' = [r \in DOMAIN answers \cup {q} |->
                            IF r = q THEN outcome' ELSE answers[r]]
  <2> HIDE DEF q
  <2>1. \A r \in DOMAIN answers : r \in DOMAIN answers' /\ answers'[r] = answers[r]
    BY <1>2
  <2>2. QED
    BY <2>1 DEF Came
<1>3. QED
  BY <1>1, <1>2 DEF Remember

LEMMA AttemptAnswers ==
  ASSUME NEW CONSTANT s, NEW CONSTANT size, NEW CONSTANT config, Remember, UNCHANGED operator,
         pc = "attempting", integrator = s.integrator, outcome.size = size, Config = config,
         outcome'.size = size
  PROVE  Came(s, outcome, size, config)'
<1> DEFINE q == Question(s, size, config)
<1>1. [integrator |-> integrator, size |-> outcome.size, config |-> Config] = q
  BY DEF Question
<1> HIDE DEF q
<1>2. operator.pure => q \in DOMAIN answers' /\ answers'[q] = outcome'
  BY <1>1 DEF Remember
<1>3. QED
  BY <1>2 DEF Came, q, Question

(* Each step of a call in progress, from where the call is to where it is   *)
(* next.                                                                    *)
LEMMA CallProceeds ==
  ASSUME NEW CONSTANT s, NEW CONSTANT size, NEW CONSTANT config,
         Clone!Inv, Agreed(s), InCall(s, size, config), Config = config, Run
  PROVE  Calling(s, size, config)'
<1>1. /\ Exec!Proceed /\ Remember /\ UNCHANGED operator
  BY DEF Run
<1>2. /\ Clone!State!IInv /\ Clone!TransactionInv /\ Clone!OutcomeTyped
      /\ Clone!State!TypeOK /\ Clone!State!TrialIsWhole
  BY DEF Clone!Inv, Clone!CallInv, Clone!State!IInv
<1>3. pc # "attempting" => UNCHANGED answers
  BY <1>1 DEF Remember
<1>4. CASE Clone!Open
  <2>1. /\ pc = "opening" /\ pc' = "attempting" /\ trial' = committed
        /\ UNCHANGED <<historyLimit, time, step, committed, history>>
        /\ UNCHANGED <<integrator, refusals, outcome>>
    BY <1>4 DEF Clone!Open, Clone!Sim!BeginTrial
  <2>2. Untouched(s)' /\ historyLimit' = s.historyLimit /\ refusals' = s.refusals
    BY <2>1 DEF InCall, Untouched
  <2>3. QED
    BY <2>1, <2>2 DEF InCall, Calling, Untouched
<1>5. CASE Clone!Attempt
  <2>1. /\ pc = "attempting" /\ outcome = [kind |-> "None", size |-> size, next |-> None]
        /\ UNCHANGED <<integrator, refusals>>
        /\ UNCHANGED <<historyLimit, time, step, committed, history, trial>>
        /\ integrator = s.integrator
    BY <1>5 DEF Clone!Attempt, Clone!Steady, Clone!simVars, InCall, Untouched
  <2>2. /\ Untouched(s)' /\ historyLimit' = s.historyLimit /\ refusals' = s.refusals
        /\ trial' = s.committed
    BY <2>1 DEF InCall, Untouched
  <2>3. /\ outcome'.size = size
        /\ \/ outcome'.kind = "Accepted" /\ pc' = "writing"
           \/ outcome'.kind \in {"Rejected", "Refused", "Failed"} /\ pc' = "rollingBack"
    <3>1. CASE Clone!Accepted
      BY <2>1, <3>1 DEF Clone!Accepted
    <3>2. CASE Clone!NotAccepted
      BY <2>1, <3>2 DEF Clone!NotAccepted
    <3>3. QED
      BY <1>5, <3>1, <3>2 DEF Clone!Attempt
  <2>4. Came(s, outcome, size, config)'
    BY <1>1, <2>1, <2>3, AttemptAnswers
  <2>5. outcome'.kind # "Accepted" => ~Takes(s, outcome)'
    BY DEF Takes
  <2>6. QED
    BY <2>2, <2>3, <2>4, <2>5 DEF InCall, Calling
<1>6. CASE Clone!Write
  <2> DEFINE f == [fits |-> TRUE, at |-> outcome.next.values]
  <2>1. /\ pc = "writing" /\ UNCHANGED <<integrator, refusals, outcome, answers>>
        /\ outcome.kind = "Accepted" /\ trial = s.committed
        /\ Came(s, outcome, size, config) /\ Untouched(s)
    BY <1>3, <1>6 DEF Clone!Write, InCall
  <2>2. Came(s, outcome, size, config)'
    BY <1>1, <2>1 DEF Came
  <2>3. CASE Clone!Sim!SetTrialVector(f) /\ pc' = "committing"
    <3>1. f \in Clone!Sim!FlatVec
      BY <1>2, <2>1, CloneAssumed, Clone!AttemptsAreVectors
    <3>2. \A b \in Clone!Blocks : trial'[b] = Clone!Sim!Part(f, b)
      BY <1>2, <2>3, <3>1, CloneAssumed, Clone!StateWrites
    <3>3. /\ UNCHANGED <<historyLimit, time, step, committed, history>>
          /\ trial' = [i \in Clone!Sim!Ids |-> trial'[i]]
          /\ \A i \in Clone!Sim!Ids : i \notin Clone!Sim!Blocks => trial'[i] = trial[i]
      BY <2>3 DEF Clone!Sim!SetTrialVector
    <3>4. trial' = Written(s, outcome)
      BY <2>1, <3>2, <3>3
         DEF Written, Ids, Blocks, Clone!Sim!Ids, Clone!Sim!Blocks, Clone!Blocks, Clone!Sim!Part
    <3>5. Exec!Finite(outcome.next.values)
      BY <2>3 DEF Clone!Sim!SetTrialVector, Clone!Sim!CanSetTrialVector, Clone!Sim!Blocks,
         Exec!Finite, Exec!Blocks
    <3>6. Untouched(s)' /\ historyLimit' = s.historyLimit /\ refusals' = s.refusals
      BY <2>1, <3>3 DEF InCall, Untouched
    <3>7. Exec!Finite(outcome'.next.values) /\ trial' = Written(s, outcome')
      BY <2>1, <3>4, <3>5
    <3>8. QED
      BY <2>1, <2>2, <2>3, <3>6, <3>7 DEF InCall, Calling
  <2>4. CASE ~Clone!Sim!CanSetTrialVector(f) /\ Clone!Sim!Refuse /\ pc' = "rollingBack"
    <3>1. /\ UNCHANGED <<historyLimit, time, step, committed, history>>
      BY <2>4 DEF Clone!Sim!Refuse, Clone!Sim!store
    <3>2. phase = "Trial"
      BY <1>2, <2>1 DEF Clone!TransactionInv, Clone!Trying
    <3>3. ~Exec!Finite(outcome.next.values)
      BY <2>4, <3>2 DEF Clone!Sim!CanSetTrialVector, Clone!Sim!Blocks, Exec!Finite, Exec!Blocks
    <3>4. ~Takes(s, outcome')
      BY <2>1, <3>3 DEF Takes
    <3>5. Untouched(s)' /\ historyLimit' = s.historyLimit /\ refusals' = s.refusals
      BY <2>1, <3>1 DEF InCall, Untouched
    <3>6. QED
      BY <2>2, <2>4, <3>4, <3>5 DEF InCall, Calling
  <2>5. QED
    BY <1>6, <2>3, <2>4 DEF Clone!Write
<1>7. CASE Clone!CommitTrial
  <2>1. /\ pc = "committing" /\ UNCHANGED <<integrator, refusals, outcome, answers>>
        /\ outcome.kind = "Accepted" /\ trial = Written(s, outcome)
        /\ Exec!Finite(outcome.next.values)
        /\ Came(s, outcome, size, config) /\ Untouched(s)
    BY <1>3, <1>7 DEF Clone!CommitTrial, InCall
  <2>2. Came(s, outcome, size, config)'
    BY <1>1, <2>1 DEF Came
  <2>3. phase = "Trial" /\ (\A i \in Ids : committed[i] # None => trial[i] # None)
        /\ (\A b \in Blocks : committed[b] # None)
    BY <1>2, <2>1 DEF Clone!TransactionInv, Clone!Trying, Clone!State!TrialIsWhole,
       Clone!State!Complete, Clone!State!Present, Clone!State!Ids, Clone!State!Blocks, Ids, Blocks
  <2>4. CASE Clone!Sim!Commit(outcome.next.time) /\ pc' = "adopting"
    <3>1. Takes(s, outcome)
      BY <2>1, <2>4 DEF Clone!Sim!Commit, Clone!Sim!CanCommit, Takes, Untouched
    <3>2. /\ time' = outcome.next.time /\ step' = step + 1 /\ historyLimit' = historyLimit
          /\ committed' = [i \in Clone!Sim!Ids |->
                             IF Clone!Sim!Present(i) THEN trial[i] ELSE None]
          /\ history' = [b \in Clone!Sim!Blocks |-> Clone!Sim!HistoryAfterCommit(b)]
      BY <2>4 DEF Clone!Sim!Commit
    <3>3. committed' = Written(s, outcome)
      <4>1. \A i \in Ids : (IF committed[i] # None THEN trial[i] ELSE None)
                             = Written(s, outcome)[i]
        BY <2>1, <2>3 DEF Written, Untouched, Ids
      <4>2. Written(s, outcome) = [i \in Ids |-> Written(s, outcome)[i]]
        BY DEF Written
      <4>3. QED
        BY <3>2, <4>1, <4>2 DEF Clone!Sim!Ids, Clone!Sim!Blocks, Ids, Blocks, Clone!Sim!Present
    <3>4. history' = Lengthened(s)
      BY <2>1, <2>3, <3>2 DEF Clone!Sim!HistoryAfterCommit, Clone!Sim!Pushed, Lengthened,
         PushedOn, Clone!Sim!Blocks, Blocks, Clone!Sim!Present, Untouched, InCall
    <3>5. Moved(s)'
      BY <2>1, <3>1, <3>2, <3>3, <3>4 DEF Moved, Untouched
    <3>6. integrator' = s.integrator /\ historyLimit' = s.historyLimit
          /\ refusals' = s.refusals
      BY <2>1, <3>2 DEF Untouched, InCall
    <3>7. QED
      BY <2>2, <2>4, <3>5, <3>6 DEF InCall, Calling
  <2>5. CASE /\ ~Clone!Sim!CanCommit(outcome.next.time) /\ Clone!Sim!Refuse
             /\ pc' = "rollingBack"
    <3>1. UNCHANGED <<historyLimit, time, step, committed, history>>
      BY <2>5 DEF Clone!Sim!Refuse, Clone!Sim!store
    <3>2. ~Takes(s, outcome)
      BY <2>1, <2>3, <2>5 DEF Clone!Sim!CanCommit, Clone!Sim!Present, Clone!Sim!Ids,
         Clone!Sim!Blocks, Ids, Blocks, Takes, Untouched
    <3>3. ~Takes(s, outcome')
      BY <2>1, <3>2
    <3>4. Untouched(s)' /\ historyLimit' = s.historyLimit /\ refusals' = s.refusals
      BY <2>1, <3>1 DEF InCall, Untouched
    <3>5. QED
      BY <2>2, <2>5, <3>3, <3>4 DEF InCall, Calling
  <2>6. QED
    BY <1>7, <2>4, <2>5 DEF Clone!CommitTrial
<1>8. CASE Clone!RollBack
  <2>1. /\ pc = "rollingBack" /\ UNCHANGED <<integrator, answers>>
        /\ Came(s, outcome, size, config) /\ Untouched(s) /\ ~Takes(s, outcome)
        /\ UNCHANGED <<historyLimit, time, step, committed, history>>
        /\ phase' = "Committed"
        /\ trial' = [i \in Ids |-> None]
        /\ refusals' = IF outcome.kind = "Refused"
                       THEN Append(refusals, [time |-> time, size |-> outcome.size])
                       ELSE refusals
    BY <1>3, <1>8 DEF Clone!RollBack, Clone!Sim!Rollback, Clone!Sim!NoTrial, Clone!Logged,
       Clone!Sim!Ids, Clone!Sim!Blocks, Ids, Blocks, InCall
  <2>2. Came(s, outcome, size, config)' = Came(s, outcome', size, config)
    BY <1>1, <2>1 DEF Came
  <2>3. CASE outcome.kind = "Rejected" /\ pc' = "checking" /\ UNCHANGED <<result, outcome>>
    <3>1. Came(s, outcome, size, config)'
      BY <2>1, <2>2, <2>3
    <3>2. Untouched(s)' /\ historyLimit' = s.historyLimit /\ refusals' = s.refusals
      BY <2>1, <2>3 DEF InCall, Untouched
    <3>3. QED
      BY <2>3, <3>1, <3>2 DEF InCall, Calling
  <2>4. CASE /\ outcome.kind # "Rejected" /\ pc' = "idle"
             /\ result' = IF outcome.kind = "Refused" THEN "Refused" ELSE "Err"
    <3>1. Came(s, outcome, size, config)
      BY <2>1
    <3>2. Execution' = After(s, outcome)
      BY <2>1 DEF Execution, After, Untouched, InCall
    <3>3. result' = Result(s, outcome)
      BY <2>1, <2>4 DEF Result
    <3>5. \E r : Came(s, r, size, config)' /\ Execution' = After(s, r) /\ result' = Result(s, r)
      <4>1. Came(s, outcome, size, config) /\ UNCHANGED <<operator, answers>>
        BY <1>1, <2>1
      <4>2. QED
        BY <3>2, <3>3, <4>1 DEF Came
    <3>6. QED
      BY <2>4, <3>5 DEF Calling, Ended
  <2>5. QED
    BY <1>8, <2>3, <2>4 DEF Clone!RollBack
<1>9. CASE Clone!Adopt
  <2>1. /\ pc = "adopting" /\ pc' = "checking" /\ integrator' = outcome.next
        /\ UNCHANGED <<refusals, outcome, answers>>
        /\ UNCHANGED <<historyLimit, time, step, committed, history>>
        /\ Came(s, outcome, size, config) /\ Moved(s)
    BY <1>3, <1>9 DEF Clone!Adopt, Clone!Steady, Clone!simVars, InCall
  <2>2. Came(s, outcome, size, config)'
    BY <1>1, <2>1 DEF Came
  <2>3. Moved(s)' /\ historyLimit' = s.historyLimit /\ refusals' = s.refusals
    BY <2>1 DEF InCall, Moved
  <2>4. QED
    BY <2>1, <2>2, <2>3 DEF InCall, Calling
<1>10. CASE Clone!Check
  <2>1. /\ pc = "checking" /\ pc' = "idle"
        /\ result' = IF Clone!Synchronized THEN outcome.kind ELSE "Err"
        /\ UNCHANGED <<integrator, refusals, answers>>
        /\ UNCHANGED <<phase, historyLimit, time, step, committed, trial, history>>
        /\ Came(s, outcome, size, config)
        /\ historyLimit = s.historyLimit /\ refusals = s.refusals
    BY <1>3, <1>10 DEF Clone!Check, Clone!Steady, Clone!simVars, InCall
  <2>2. phase = "Committed" /\ trial = [i \in Ids |-> None]
    BY <1>2, <2>1 DEF Clone!TransactionInv, Clone!Closing, Clone!State!TrialIsWhole,
       Clone!State!NoTrial, Clone!State!Ids, Clone!State!Blocks, Ids, Blocks
  <2>3. Execution' = Execution
    BY <2>1 DEF Execution
  <2>4. Clone!Synchronized <=> Agreed(Execution)
    BY <2>2, SameAgreement DEF Clone!Synchronized, Agreed, Execution
  <2>5. CASE Moved(s) /\ integrator = outcome.next
    <3>1. Execution = After(s, outcome) /\ Takes(s, outcome) /\ outcome.kind = "Accepted"
      BY <2>1, <2>2, <2>5 DEF Execution, After, Moved, Takes
    <3>2. result' = Result(s, outcome)
      BY <2>1, <2>4, <3>1 DEF Result
    <3>3. QED
      BY <1>1, <2>1, <2>3, <3>1, <3>2 DEF Calling, Ended, Came
  <2>6. CASE Untouched(s) /\ outcome.kind = "Rejected"
    <3>1. Execution = After(s, outcome) /\ ~Takes(s, outcome)
      BY <2>1, <2>2, <2>6 DEF Execution, After, Untouched, Takes
    <3>2. Clone!Synchronized
      BY <2>4, <2>6 DEF Agreed, Execution, Untouched
    <3>3. result' = Result(s, outcome)
      BY <2>1, <2>6, <3>1, <3>2 DEF Result
    <3>4. QED
      BY <1>1, <2>1, <2>3, <3>1, <3>3 DEF Calling, Ended, Came
  <2>7. QED
    BY <2>1, <2>5, <2>6 DEF InCall
<1>11. QED
  BY <1>1, <1>4, <1>5, <1>6, <1>7, <1>8, <1>9, <1>10, CloneProceeds DEF Exec!Proceed

----------------------------------------------------------------------------
(* What an attempt that is accepted, and one that is not, has done.         *)

Capped(n, limit) == IF n < limit THEN n ELSE limit

LEMMA PushedDepth ==
  ASSUME NEW V, NEW h \in Seq(V), NEW v \in V, NEW limit \in Nat, Len(h) <= limit
  PROVE  /\ Len(PushedOn(limit, h, v)) = Capped(Len(h) + 1, limit)
         /\ limit # 0 => PushedOn(limit, h, v)[1] = v
<1> DEFINE longer == <<v>> \o h
           n      == IF Len(h) < limit THEN Len(h) + 1 ELSE limit
<1>1. longer \in Seq(V) /\ Len(longer) = Len(h) + 1 /\ Len(h) \in Nat
  OBVIOUS
<1>2. n \in Nat /\ n <= Len(longer)
  BY <1>1
<1>3. CASE limit = 0
  BY <1>1, <1>3 DEF PushedOn, Capped
<1>4. CASE limit # 0
  <2> HIDE DEF longer
  <2>0. longer[1] = v /\ n >= 1
    BY <1>1, <1>4 DEF longer
  <2>1. Len(SubSeq(longer, 1, n)) = n /\ SubSeq(longer, 1, n)[1] = v
    BY <1>1, <1>2, <2>0
  <2>2. PushedOn(limit, h, v) = SubSeq(longer, 1, n)
    BY <1>4 DEF PushedOn, longer
  <2>3. QED
    BY <1>1, <2>1, <2>2 DEF Capped
<1>5. QED
  BY <1>3, <1>4

LEMMA AcceptedAttempt ==
  ASSUME NEW s, NEW o, Sound(s), Agreed(s), Result(s, o) = "Accepted"
  PROVE  LET t == After(s, o)
         IN  /\ Agreed(t)
             /\ t.historyLimit = s.historyLimit
             /\ t.step = s.step + 1
             /\ t.refusals = s.refusals
             /\ \A b \in Blocks :
                  /\ t.history[b] # <<>>
                  /\ t.history[b][1].val = s.integrator.values[b]
                  /\ Len(t.history[b]) = Capped(Len(s.history[b]) + 1, s.historyLimit)
<1> DEFINE t == After(s, o)
<1>1. Takes(s, o) /\ Agreed(t)
  BY DEF Result
<1>2. /\ t.historyLimit = s.historyLimit
      /\ t.step = s.step + 1
      /\ t.refusals = s.refusals
      /\ t.history = Lengthened(s)
  BY <1>1 DEF After
<1> HIDE DEF t
<1>3. s.step + 1 # 0
  BY DEF Sound
<1>4. ASSUME NEW b \in Blocks
      PROVE  /\ t.history[b] # <<>>
             /\ t.history[b][1].val = s.integrator.values[b]
             /\ Len(t.history[b]) = Capped(Len(s.history[b]) + 1, s.historyLimit)
  <2>1. t.history[b] # <<>>
    BY <1>1, <1>2, <1>3 DEF Agreed, Exec!PairValid, Exec!HistoryAgrees, Exec!Blocks, Blocks
  <2>2. s.committed[b].val = s.integrator.values[b]
    BY DEF Agreed, Exec!PairValid, Exec!FlatOf, Exec!Blocks, Blocks
  <2>3. s.committed[b] \in Vec /\ s.history[b] \in Seq(Vec) /\ s.historyLimit \in Nat
        /\ Len(s.history[b]) <= s.historyLimit
    BY DEF Sound, Shaped, Agreed, Exec!PairValid, Exec!Blocks, Blocks, Ids
  <2>4. t.history[b] = PushedOn(s.historyLimit, s.history[b], s.committed[b])
    BY <1>2 DEF Lengthened
  <2> DEFINE pushed == PushedOn(s.historyLimit, s.history[b], s.committed[b])
  <2>a. /\ Len(pushed) = Capped(Len(s.history[b]) + 1, s.historyLimit)
        /\ s.historyLimit # 0 => pushed[1] = s.committed[b]
    BY <2>3, PushedDepth
  <2>5. Len(t.history[b]) = Capped(Len(s.history[b]) + 1, s.historyLimit)
    BY <2>a, <2>4
  <2>6. s.historyLimit # 0
    BY <2>1, <2>3, <2>4 DEF PushedOn
  <2>7. t.history[b][1] = s.committed[b]
    BY <2>a, <2>4, <2>6
  <2>8. QED
    BY <2>1, <2>2, <2>5, <2>7
<1>5. QED
  BY <1>1, <1>2, <1>4 DEF t

(* An attempt that was not accepted shows in the log at most, if the two    *)
(* states still agree: a step that was taken and then refused by the closing*)
(* check leaves an execution no checkpoint can be taken of.                 *)
LEMMA FailedAttempt ==
  ASSUME NEW s, NEW o, Result(s, o) # "Accepted", Agreed(After(s, o))
  PROVE  LET t == After(s, o)
         IN  /\ Bytes(t) = Bytes(s)
             /\ t.step = s.step
             /\ Result(s, o) \in {"Rejected", "Refused", "Err"}
             /\ IF Result(s, o) = "Refused"
                THEN t.refusals = Append(s.refusals, [time |-> s.time, size |-> o.size])
                ELSE t.refusals = s.refusals
<1>1. ~Takes(s, o)
  BY DEF Result
<1>2. QED
  BY <1>1 DEF After, Result, Bytes

----------------------------------------------------------------------------
(* Chains of accepted attempts.                                             *)

(* A BdfState has its five fields.                                          *)
Stated(ig) ==
  ig = [values |-> ig.values, time |-> ig.time, acceptedSteps |-> ig.acceptedSteps,
        previous |-> ig.previous, previousStep |-> ig.previousStep]

(* An execution between two calls that agrees with its integrator.          *)
Fit(e) == Sound(e) /\ Agreed(e) /\ Stated(e.integrator)

(* What k accepted attempts leave of the execution e they began with.       *)
Kept(t, e, k) ==
  /\ t.historyLimit = e.historyLimit
  /\ t.step = e.step + k
  /\ t.refusals = e.refusals
  /\ \A b \in Blocks : Len(t.history[b]) = Capped(Len(e.history[b]) + k, e.historyLimit)
  /\ \A s \in Slots : t.committed[s] = e.committed[s]

(* An attempt of the size from s was accepted and led to t.                 *)
Linked(s, t, size) ==
  \E o : Came(s, o, size, "accept") /\ Result(s, o) = "Accepted" /\ t = After(s, o)

(* n accepted attempts of one size.                                         *)
Chain(tr, n, size) ==
  /\ \A k \in 0 .. n : Fit(tr[k]) /\ Kept(tr[k], tr[0], k)
  /\ \A k \in 0 .. n - 1 : Linked(tr[k], tr[k + 1], size)

LEMMA ChainBegins ==
  ASSUME NEW e, NEW size, Fit(e)
  PROVE  Chain([k \in {0} |-> e], 0, size)
<1>1. Kept(e, e, 0)
  BY DEF Fit, Sound, Shaped, Kept, Capped, Ids, Blocks
<1>2. QED
  BY <1>1 DEF Chain

LEMMA LinkedKept ==
  ASSUME NEW CONSTANT s, NEW CONSTANT t, NEW CONSTANT size,
         Remember, UNCHANGED operator, Linked(s, t, size)
  PROVE  Linked(s, t, size)'
<1>1. PICK o : Came(s, o, size, "accept") /\ Result(s, o) = "Accepted" /\ t = After(s, o)
  BY DEF Linked
<1>2. Came(s, o, size, "accept")'
  BY <1>1, AnswersKept
<1>3. QED
  BY <1>1, <1>2 DEF Linked

(* The chain an operator has answered stays what it is.                     *)
LEMMA ChainKept ==
  ASSUME NEW CONSTANT tr, NEW CONSTANT n, NEW CONSTANT size,
         Remember \/ UNCHANGED answers, UNCHANGED operator, Chain(tr, n, size)
  PROVE  Chain(tr, n, size)'
<1>1. ASSUME NEW k \in 0 .. n - 1
      PROVE  Linked(tr[k], tr[k + 1], size)'
  <2>1. Linked(tr[k], tr[k + 1], size)
    BY DEF Chain
  <2>2. CASE Remember
    BY <2>1, <2>2, LinkedKept
  <2>3. CASE UNCHANGED answers
    BY <2>1, <2>3 DEF Linked, Came
  <2>4. QED
    BY <2>2, <2>3
<1>2. QED
  BY <1>1 DEF Chain

LEMMA KeptGrows ==
  ASSUME NEW e, NEW t, NEW u, NEW k \in Nat, Fit(e), Kept(t, e, k), Fit(t),
         u.historyLimit = t.historyLimit, u.step = t.step + 1, u.refusals = t.refusals,
         \A b \in Blocks : Len(u.history[b]) = Capped(Len(t.history[b]) + 1, t.historyLimit),
         \A s \in Slots : u.committed[s] = t.committed[s]
  PROVE  Kept(u, e, k + 1)
<1>1. e.step \in Nat /\ e.historyLimit \in Nat /\ \A b \in Blocks : Len(e.history[b]) \in Nat
  BY DEF Fit, Sound
<1>2. u.step = e.step + (k + 1)
  BY <1>1 DEF Kept
<1>3. ASSUME NEW b \in Blocks
      PROVE  Len(u.history[b]) = Capped(Len(e.history[b]) + (k + 1), e.historyLimit)
  <2>1. ASSUME NEW l \in Nat, NEW limit \in Nat
        PROVE  Capped(Capped(l + k, limit) + 1, limit) = Capped(l + (k + 1), limit)
    BY DEF Capped
  <2>2. Len(u.history[b]) = Capped(Capped(Len(e.history[b]) + k, e.historyLimit) + 1,
                                   e.historyLimit)
    BY DEF Kept
  <2>3. QED
    BY <1>1, <2>1, <2>2
<1>4. QED
  BY <1>2, <1>3 DEF Kept

LEMMA ChainExtends ==
  ASSUME NEW tr, NEW n \in Nat, NEW size, NEW t,
         Chain(tr, n, size), Fit(t), Linked(tr[n], t, size)
  PROVE  LET longer == [k \in 0 .. n + 1 |-> IF k = n + 1 THEN t ELSE tr[k]]
         IN  /\ Chain(longer, n + 1, size)
             /\ \A k \in 0 .. n : longer[k] = tr[k]
             /\ longer[n + 1] = t
<1> DEFINE longer == [k \in 0 .. n + 1 |-> IF k = n + 1 THEN t ELSE tr[k]]
<1>1. (\A k \in 0 .. n : longer[k] = tr[k]) /\ longer[n + 1] = t
  OBVIOUS
<1> HIDE DEF longer
<1>2. Fit(tr[0]) /\ Fit(tr[n]) /\ Kept(tr[n], tr[0], n)
  BY DEF Chain
<1>3. Kept(t, tr[0], n + 1)
  <2>1. PICK o : Result(tr[n], o) = "Accepted" /\ t = After(tr[n], o)
    BY DEF Linked
  <2>2. /\ t.historyLimit = tr[n].historyLimit /\ t.step = tr[n].step + 1
        /\ t.refusals = tr[n].refusals
        /\ \A b \in Blocks : Len(t.history[b]) = Capped(Len(tr[n].history[b]) + 1,
                                                        tr[n].historyLimit)
    BY <1>2, <2>1, AcceptedAttempt DEF Fit
  <2>3. \A s \in Slots : t.committed[s] = tr[n].committed[s]
    <3>1. Takes(tr[n], o)
      BY <2>1 DEF Result
    <3>2. t.committed = Written(tr[n], o)
      BY <2>1, <3>1 DEF After
    <3>3. \A s \in Slots : s \in Ids /\ s \notin Blocks
      BY ExecutionAssumption DEF Exec!StateAssumption, Exec!Sim!LayoutAssumption,
         Exec!Sim!Blocks, Ids, Blocks
    <3>4. QED
      BY <3>2, <3>3 DEF Written
  <2>4. QED
    BY <1>2, <2>2, <2>3, KeptGrows
<1>4. \A k \in 0 .. n + 1 : Fit(longer[k]) /\ Kept(longer[k], longer[0], k)
  <2>1. ASSUME NEW k \in 0 .. n PROVE Fit(longer[k]) /\ Kept(longer[k], longer[0], k)
    BY <1>1 DEF Chain
  <2>2. longer[0] = tr[0]
    BY <1>1
  <2>3. QED
    BY <1>1, <1>3, <2>1, <2>2
<1>5. \A k \in 0 .. n : Linked(longer[k], longer[k + 1], size)
  <2>1. ASSUME NEW k \in 0 .. n, k # n PROVE Linked(longer[k], longer[k + 1], size)
    <3>1. k \in 0 .. n - 1 /\ k + 1 \in 0 .. n
      BY <2>1
    <3>2. QED
      BY <1>1, <3>1 DEF Chain
  <2>2. QED
    BY <1>1, <2>1
<1>6. QED
  BY <1>1, <1>4, <1>5 DEF Chain, longer

(* Over a pure operator what follows an execution is determined.            *)
LEMMA LinksDetermine ==
  ASSUME NEW s, NEW t, NEW size, NEW o, operator.pure,
         Linked(s, t, size), Came(s, o, size, "accept")
  PROVE  t = After(s, o) /\ Result(s, o) = "Accepted"
BY DEF Linked, Came

LEMMA ChainsAgree ==
  ASSUME NEW tr, NEW n \in Nat, NEW wt, NEW m \in Nat, NEW i \in Nat, NEW size,
         operator.pure, Chain(tr, n, size), Chain(wt, m, size), tr[i] = wt[0]
  PROVE  \A k \in 0 .. m : i + k <= n => wt[k] = tr[i + k]
<1> DEFINE T == {k \in Nat : k <= m /\ i + k <= n => wt[k] = tr[i + k]}
<1>1. 0 \in T
  OBVIOUS
<1>2. ASSUME NEW k \in Nat, k \in T PROVE k + 1 \in T
  <2> SUFFICES ASSUME k + 1 <= m, i + (k + 1) <= n PROVE wt[k + 1] = tr[i + (k + 1)]
    OBVIOUS
  <2>1. wt[k] = tr[i + k]
    BY <1>2
  <2>2. Linked(wt[k], wt[k + 1], size) /\ Linked(tr[i + k], tr[i + (k + 1)], size)
    <3>1. k \in 0 .. m - 1 /\ i + k \in 0 .. n - 1 /\ (i + k) + 1 = i + (k + 1)
      OBVIOUS
    <3>2. QED
      BY <3>1 DEF Chain
  <2>3. QED
    BY <2>1, <2>2, LinksDetermine DEF Linked
<1> HIDE DEF T
<1>3. \A k \in Nat : k \in T
  BY <1>1, <1>2, CloneAssumed, Clone!StateAssumed, Clone!State!SetInduction
<1>4. QED
  BY <1>3 DEF T

----------------------------------------------------------------------------
(* The evidence.                                                            *)

(* Position is the first of the realizations with the identity.             *)
LEMMA PositionFirst ==
  ASSUME NEW identity
  PROVE  LET p == Position(identity)
         IN  /\ p = 0 => \A k \in DOMAIN Realizations : Realizations[k].identity # identity
             /\ p # 0 => p \in DOMAIN Realizations /\ Realizations[p].identity = identity
<1> DEFINE Found == {k \in 1 .. Len(Realizations) : Realizations[k].identity = identity}
<1>1. DOMAIN Realizations = 1 .. Len(Realizations) /\ Len(Realizations) \in Nat
  BY RealizationAssumption
<1>2. Position(identity) = IF Found = {} THEN 0 ELSE Min(Found)
  BY DEF Position, SelectInSeq
<1>3. Found # {} => Min(Found) \in Found
  <2>1. Found \in SUBSET Nat
    BY <1>1
  <2> HIDE DEF Found
  <2>2. Found # {} => \E n \in Found : \A m \in Found : n <= m
    BY <2>1, CloneAssumed, Clone!StateAssumed, Clone!State!LeastNumber
  <2>3. QED
    BY <2>2 DEF Min
<1>4. QED
  BY <1>1, <1>2, <1>3

(* Evidence that binds covers the realizations.                             *)
LEMMA BoundCovers ==
  ASSUME NEW evidence, ValidateFor(evidence).bound
  PROVE  Covering(evidence)
<1>1. /\ Realizations # <<>>
      /\ \A e \in Range(evidence) : ~Misfit(e)
      /\ {Position(e.identity) : e \in Range(evidence)} = DOMAIN Realizations
  BY DEF ValidateFor
<1>2. ASSUME NEW e \in Range(evidence)
      PROVE  /\ e.valid
             /\ \E k \in DOMAIN Realizations :
                  /\ Realizations[k].identity = e.identity
                  /\ e.kind = "Agreement" => Realizations[k].kind = "Plan"
  <2>1. Position(e.identity) \in DOMAIN Realizations
        /\ Realizations[Position(e.identity)].identity = e.identity
    BY <1>1, PositionFirst DEF Misfit
  <2>2. Realizations[Position(e.identity)].kind \in {"Plan", "ReducedSystem"}
    BY <2>1, RealizationAssumption DEF Range
  <2>3. QED
    BY <1>1, <2>1, <2>2 DEF Misfit
<1>3. ASSUME NEW k \in DOMAIN Realizations
      PROVE  \E e \in Range(evidence) : e.identity = Realizations[k].identity
  <2>1. PICK e \in Range(evidence) : Position(e.identity) = k
    BY <1>1
  <2>2. Position(e.identity) # 0
    BY <1>1 DEF Misfit
  <2>3. QED
    BY <2>1, <2>2, PositionFirst
<1>4. QED
  BY <1>1, <1>2, <1>3 DEF Covering

LEMMA BoundSupports ==
  ASSUME NEW evidence, ValidateFor(evidence).bound
  PROVE  ValidateFor(evidence).accepted <=> Supported(evidence)
<1>1. Covering(evidence)
  BY BoundCovers
<1>2. ValidateFor(evidence).accepted <=> \A e \in Range(evidence) : e.accepted
  BY DEF ValidateFor
<1>3. QED
  BY <1>1, <1>2 DEF Supported

----------------------------------------------------------------------------
(* The checkpoint, encoded and decoded.                                     *)

(* The execution e once it has been restored from the checkpoint c.         *)
Resumed(e, c) ==
  [phase |-> "Committed", historyLimit |-> c.state.historyLimit, time |-> c.state.time,
   step |-> c.state.step, committed |-> c.state.committed, trial |-> [i \in Ids |-> None],
   history |-> c.state.history, integrator |-> c.integrator, refusals |-> e.refusals]

(* A checkpoint of an execution whose slots are those of the caller's can   *)
(* be restored over a clone of the caller's.                                *)
LEMMA ReadVector ==
  ASSUME NEW v, v # None, v.len \in Nat, v \in Vec, v.val # NonFinite,
         operator.parse \in [Vals -> Vals]
  PROVE  /\ Read(v) # None
         /\ Read(v) \in Vec
         /\ Read(v).len = v.len
         /\ Read(v).val = operator.parse[v.val]
         /\ Read(v).val # NonFinite
<1>1. v.val \in Vals
  BY DEF Vec
<1>2. Read(v) = [len |-> v.len, val |-> operator.parse[v.val]]
  BY DEF Vec, Read
<1>3. Read(v) \in Vec /\ operator.parse[v.val] # NonFinite
  BY <1>1, <1>2, ExecutionAssumption
     DEF Vec, Exec!StateAssumption, Exec!Sim!ValueAssumption
<1>4. None \notin Vec
  BY ExecutionAssumption DEF Vec, Exec!StateAssumption, Exec!Sim!ValueAssumption, Exec!Sim!Vec
<1>5. QED
  BY <1>2, <1>3, <1>4

(* The history levels of a checkpoint, decoded.                             *)
LEMMA ReadHistory ==
  ASSUME NEW h \in Seq(Vec), \A k \in 1 .. Len(h) : h[k].val # NonFinite,
         operator.parse \in [Vals -> Vals]
  PROVE  LET d == [k \in DOMAIN h |-> Read(h[k])]
         IN  /\ d \in Seq(Vec)
             /\ Len(d) = Len(h)
             /\ \A k \in 1 .. Len(h) : /\ d[k].len = h[k].len
                                       /\ d[k].val = operator.parse[h[k].val]
                                       /\ d[k].val # NonFinite
             /\ d = <<>> <=> h = <<>>
<1> DEFINE d == [k \in DOMAIN h |-> Read(h[k])]
<1>1. DOMAIN h = 1 .. Len(h) /\ Len(h) \in Nat
  OBVIOUS
<1>2. \A k \in 1 .. Len(h) : /\ Read(h[k]) \in Vec
                             /\ Read(h[k]).len = h[k].len
                             /\ Read(h[k]).val = operator.parse[h[k].val]
                             /\ Read(h[k]).val # NonFinite
  <2>1. ASSUME NEW k \in 1 .. Len(h) PROVE h[k] \in Vec /\ h[k] # None /\ h[k].len \in Nat
    <3>1. h[k] \in Vec
      OBVIOUS
    <3>2. None \notin Vec /\ Lens \subseteq Nat
      BY ExecutionAssumption DEF Vec, Exec!StateAssumption, Exec!Sim!ValueAssumption,
         Exec!Sim!LayoutAssumption, Exec!Sim!Vec
    <3>3. QED
      BY <3>1, <3>2 DEF Vec
  <2>2. QED
    BY <2>1, ReadVector
<1>3. d \in Seq(Vec) /\ Len(d) = Len(h)
  BY <1>1, <1>2
<1>4. d = <<>> <=> h = <<>>
  BY <1>1, <1>3
<1>5. QED
  BY <1>1, <1>2, <1>3, <1>4

LEMMA DecodedFits ==
  ASSUME NEW e, Fit(e), operator.parse \in [Vals -> Vals]
  PROVE  LET d == Decoded(e)
         IN  /\ d.ownOperator /\ d.state.ownLayout
             /\ d.state \in Exec!Sim!Checkpoint
             /\ d.state.time # NonFinite
             /\ \A s \in Slots :
                  /\ d.state.committed[s] # None <=> e.committed[s] # None
                  /\ e.committed[s] # None => /\ d.state.committed[s].len = e.committed[s].len
                                              /\ d.state.committed[s].val # NonFinite
             /\ \A b \in Blocks :
                  /\ d.state.committed[b] # None
                  /\ d.state.committed[b].len = BlockLen[b]
                  /\ d.state.committed[b].val # NonFinite
                  /\ Len(d.state.history[b]) <= d.state.historyLimit
                  /\ \A k \in 1 .. Len(d.state.history[b]) :
                       /\ d.state.history[b][k].len = BlockLen[b]
                       /\ d.state.history[b][k].val # NonFinite
<1> DEFINE d == Decoded(e)
<1>1. /\ d.ownOperator = TRUE
      /\ d.state.ownLayout = TRUE
      /\ d.state.historyLimit = e.historyLimit
      /\ d.state.time = e.time
      /\ d.state.step = e.step
      /\ d.state = [ownLayout |-> d.state.ownLayout, historyLimit |-> d.state.historyLimit,
                    time |-> d.state.time, step |-> d.state.step,
                    committed |-> d.state.committed, history |-> d.state.history]
      /\ d.state.committed = [i \in Ids |-> Read(e.committed[i])]
      /\ d.state.history =
           [b \in Blocks |-> [k \in DOMAIN e.history[b] |-> Read(e.history[b][k])]]
  BY DEF Decoded, Fit, Sound
<1> HIDE DEF d
<1>2. /\ None \notin Vec /\ Lens \subseteq Nat /\ NonFinite \notin Times
  BY ExecutionAssumption DEF Vec, Exec!StateAssumption, Exec!Sim!ValueAssumption,
     Exec!Sim!LayoutAssumption, Exec!Sim!Vec
<1>3. ASSUME NEW i \in Ids
      PROVE  /\ d.state.committed[i] # None <=> e.committed[i] # None
             /\ d.state.committed[i] \in Vec \cup {None}
             /\ e.committed[i] # None =>
                  /\ d.state.committed[i].len = e.committed[i].len
                  /\ d.state.committed[i].val # NonFinite
  <2>1. d.state.committed[i] = Read(e.committed[i])
    BY <1>1
  <2>2. CASE e.committed[i] = None
    BY <2>1, <2>2 DEF Read
  <2>3. CASE e.committed[i] # None
    <3>1. e.committed[i] \in Vec /\ e.committed[i].val # NonFinite
      BY <2>3 DEF Fit, Sound, Shaped, Ids
    <3>2. e.committed[i].len \in Nat
      BY <1>2, <3>1 DEF Vec
    <3>3. QED
      BY <2>1, <2>3, <3>1, <3>2, ReadVector
  <2>4. QED
    BY <2>2, <2>3
<1>4. ASSUME NEW b \in Blocks
      PROVE  /\ d.state.history[b] \in Seq(Vec)
             /\ Len(d.state.history[b]) <= d.state.historyLimit
             /\ \A k \in 1 .. Len(d.state.history[b]) :
                  /\ d.state.history[b][k].len = BlockLen[b]
                  /\ d.state.history[b][k].val # NonFinite
  <2>1. /\ e.history[b] \in Seq(Vec)
        /\ Len(e.history[b]) <= e.historyLimit
        /\ \A k \in 1 .. Len(e.history[b]) :
             e.history[b][k].len = BlockLen[b] /\ e.history[b][k].val # NonFinite
    BY DEF Fit, Sound, Shaped
  <2> DEFINE h == e.history[b]
             r == [k \in DOMAIN h |-> Read(h[k])]
  <2>2. d.state.history[b] = r
    BY <1>1
  <2>3. /\ r \in Seq(Vec)
        /\ Len(r) = Len(h)
        /\ \A k \in 1 .. Len(h) : r[k].len = h[k].len /\ r[k].val # NonFinite
    BY <2>1, ReadHistory
  <2> HIDE DEF r
  <2>4. QED
    BY <1>1, <2>1, <2>2, <2>3
<1>5. d.state \in Exec!Sim!Checkpoint
  <2>1. d.state.committed \in [Ids -> Vec \cup {None}]
    BY <1>1, <1>3
  <2>2. d.state.history \in [Blocks -> Seq(Vec)]
    BY <1>1, <1>4
  <2>3. e.historyLimit \in Nat /\ e.time \in Times /\ e.step \in 0 .. MaxStep
    BY DEF Fit, Sound
  <2>4. QED
    BY <1>1, <2>1, <2>2, <2>3 DEF Exec!Sim!Checkpoint, Exec!Sim!Ids, Exec!Sim!Blocks,
       Exec!Sim!Vec, Ids, Blocks, Vec
<1>6. d.state.time # NonFinite
  BY <1>1, <1>2 DEF Fit, Sound
<1>7. \A b \in Blocks : b \in Ids /\ e.committed[b] # None /\ e.committed[b].len = BlockLen[b]
  BY DEF Fit, Sound, Shaped, Agreed, Exec!PairValid, Exec!Blocks, Blocks, Ids
<1>8. \A s \in Slots : s \in Ids
  BY DEF Ids
<1>9. QED
  BY <1>1, <1>3, <1>4, <1>5, <1>6, <1>7, <1>8 DEF d

(* The newest level of a history holds a value.                             *)
LEMMA FirstLevel ==
  ASSUME NEW h \in Seq(Vec), h # <<>>, \A k \in 1 .. Len(h) : h[k].val # NonFinite
  PROVE  1 \in 1 .. Len(h) /\ h[1].val \in Vals
<1>1. Len(h) \in Nat /\ Len(h) # 0
  OBVIOUS
<1>2. 1 \in 1 .. Len(h)
  BY <1>1
<1>3. h[1] \in Vec /\ h[1].val # NonFinite
  BY <1>2
<1>4. QED
  BY <1>2, <1>3 DEF Vec

(* The two decoded states agree as the two states did.                      *)
LEMMA DecodedAgrees ==
  ASSUME NEW e, Fit(e), operator.parse \in [Vals -> Vals]
  PROVE  LET d == Decoded(e)
         IN  Exec!PairValid(d.state.committed, d.state.history, d.state.time, d.state.step,
                            d.integrator)
<1> DEFINE d == Decoded(e)
           read == [b \in Blocks |-> [k \in DOMAIN e.history[b] |-> Read(e.history[b][k])]]
<1>1. /\ d.state.time = e.time
      /\ d.state.step = e.step
      /\ d.state.committed = [i \in Ids |-> Read(e.committed[i])]
      /\ d.state.history = read
      /\ d.integrator.values = ReadAll(e.integrator.values)
      /\ d.integrator.time = e.integrator.time
      /\ d.integrator.acceptedSteps = e.integrator.acceptedSteps
      /\ d.integrator.previous = ReadAll(e.integrator.previous)
      /\ d.integrator.previousStep = e.integrator.previousStep
  BY DEF Decoded, Fit, Sound
<1> HIDE DEF d
<1>2. None \notin Vec /\ None \notin Exec!Flats /\ NonFinite \notin Vals /\ Lens \subseteq Nat
  BY ExecutionAssumption DEF Vec, Exec!StateAssumption, Exec!Sim!ValueAssumption,
     Exec!Sim!Vec, Exec!FlatAssumption, Exec!Sim!LayoutAssumption
<1>3. Exec!PairValid(e.committed, e.history, e.time, e.step, e.integrator)
  BY DEF Fit, Agreed
<1>4. ASSUME NEW b \in Blocks
      PROVE  /\ e.committed[b] # None /\ e.committed[b].val \in Vals
             /\ d.state.committed[b] # None
             /\ d.state.committed[b].val = operator.parse[e.committed[b].val]
             /\ d.state.committed[b].val # NonFinite
  <2>1. e.committed[b] \in Vec /\ e.committed[b] # None /\ e.committed[b].val # NonFinite
    BY <1>3 DEF Exec!PairValid, Exec!Blocks, Blocks, Fit, Sound, Shaped, Ids
  <2>2. d.state.committed[b] = Read(e.committed[b])
    BY <1>1 DEF Ids
  <2>3. e.committed[b].len \in Nat /\ e.committed[b].val \in Vals
    BY <1>2, <2>1 DEF Vec
  <2>4. QED
    BY <2>1, <2>2, <2>3, ReadVector
<1>5. ASSUME NEW b \in Blocks
      PROVE  /\ read[b] = <<>> <=> e.history[b] = <<>>
             /\ e.history[b] # <<>> => /\ e.history[b][1].val \in Vals
                                       /\ read[b][1].val = operator.parse[e.history[b][1].val]
                                       /\ read[b][1].val # NonFinite
  <2> DEFINE h == e.history[b]
             r == [k \in DOMAIN h |-> Read(h[k])]
  <2>1. /\ h \in Seq(Vec)
        /\ \A k \in 1 .. Len(h) : h[k].val # NonFinite
    BY DEF Fit, Sound, Shaped
  <2>2. read[b] = r
    OBVIOUS
  <2>3. /\ \A k \in 1 .. Len(h) : /\ r[k].val = operator.parse[h[k].val]
                                  /\ r[k].val # NonFinite
        /\ r = <<>> <=> h = <<>>
    BY <2>1, ReadHistory
  <2> HIDE DEF r
  <2>4. h # <<>> => 1 \in 1 .. Len(h) /\ h[1].val \in Vals
    BY <2>1, FirstLevel
  <2>5. QED
    BY <2>2, <2>3, <2>4
<1> HIDE DEF read
<1>6. d.integrator.values = Exec!FlatOf(d.state.committed)
  <2>1. e.integrator.values = [b \in Blocks |-> e.committed[b].val]
    BY <1>3 DEF Exec!PairValid, Exec!FlatOf, Exec!Blocks, Blocks
  <2>2. e.integrator.values \in Exec!Flats
    BY <1>4, <2>1 DEF Exec!Flats, Exec!Blocks, Blocks
  <2>3. d.integrator.values = [b \in Blocks |-> operator.parse[e.committed[b].val]]
    BY <1>1, <1>2, <2>1, <2>2 DEF ReadAll
  <2>4. QED
    BY <1>4, <2>3 DEF Exec!FlatOf, Exec!Blocks, Blocks
<1>7. Exec!Finite(d.integrator.values)
  BY <1>4, <1>6 DEF Exec!Finite, Exec!FlatOf, Exec!Blocks, Blocks
<1>8. Exec!HistoryAgrees(d.state.history, d.state.step, d.integrator)
  <2>1. CASE e.integrator.previous = None
    BY <1>1, <1>3, <1>5, <2>1 DEF Exec!PairValid, Exec!HistoryAgrees, ReadAll, Exec!Blocks, Blocks
  <2>2. CASE e.integrator.previous # None
    <3>1. /\ e.integrator.previousStep > 0
          /\ \A b \in Blocks : e.history[b] # <<>>
          /\ e.integrator.previous = [b \in Blocks |-> e.history[b][1].val]
      BY <1>3, <2>2 DEF Exec!PairValid, Exec!HistoryAgrees, Exec!HistoryVector, Exec!Blocks, Blocks
    <3>2. d.integrator.previous = [b \in Blocks |-> operator.parse[e.history[b][1].val]]
      <4>1. PICK flat : flat = e.integrator.previous
        OBVIOUS
      <4>2. ReadAll(flat) = [b \in Blocks |-> operator.parse[flat[b]]]
        BY <2>2, <4>1 DEF ReadAll
      <4>3. \A b \in Blocks : flat[b] = e.history[b][1].val
        BY <3>1, <4>1
      <4>4. QED
        BY <1>1, <4>1, <4>2, <4>3
    <3>3. d.integrator.previous = [b \in Blocks |-> read[b][1].val]
      BY <1>5, <3>1, <3>2
    <3>4. d.integrator.previous # None
      <4>1. d.integrator.previous \in Exec!Flats
        BY <1>5, <3>1, <3>2 DEF Exec!Flats, Exec!Blocks, Blocks
      <4>2. QED
        BY <1>2, <4>1
    <3>5. QED
      BY <1>1, <1>5, <3>1, <3>3, <3>4
         DEF Exec!HistoryAgrees, Exec!HistoryVector, Exec!Finite, Exec!Blocks, Blocks
  <2>3. QED
    BY <2>1, <2>2
<1>9. QED
  BY <1>1, <1>3, <1>4, <1>6, <1>7, <1>8 DEF Exec!PairValid, Exec!Blocks, Blocks, d

(* The checkpoint of an execution can be restored over one with its slots.  *)
LEMMA DecodedRestorable ==
  ASSUME NEW CONSTANT e, NEW CONSTANT g, Fit(e), operator.parse \in [Vals -> Vals],
         Execution = g, g.phase = "Committed",
         \A s \in Slots : e.committed[s] = g.committed[s]
  PROVE  Exec!Restorable(Decoded(e))
<1> DEFINE d == Decoded(e)
<1>1. phase = "Committed" /\ committed = g.committed
  BY DEF Execution
<1>2. /\ d.ownOperator /\ d.state.ownLayout
      /\ d.state.time # NonFinite
      /\ \A s \in Slots :
           /\ d.state.committed[s] # None <=> e.committed[s] # None
           /\ e.committed[s] # None => /\ d.state.committed[s].len = e.committed[s].len
                                       /\ d.state.committed[s].val # NonFinite
      /\ \A b \in Blocks :
           /\ d.state.committed[b] # None
           /\ d.state.committed[b].len = BlockLen[b]
           /\ d.state.committed[b].val # NonFinite
           /\ Len(d.state.history[b]) <= d.state.historyLimit
           /\ \A k \in 1 .. Len(d.state.history[b]) :
                /\ d.state.history[b][k].len = BlockLen[b]
                /\ d.state.history[b][k].val # NonFinite
  BY DecodedFits
<1>3. Exec!PairValid(d.state.committed, d.state.history, d.state.time, d.state.step,
                     d.integrator)
  BY DecodedAgrees
<1> HIDE DEF d
<1>4. Exec!Sim!CanRestore(d.state)
  BY <1>1, <1>2 DEF Exec!Sim!CanRestore, Exec!Sim!SchemaMatches, Exec!Sim!HistoryFits,
     Exec!Sim!Fits, Exec!Sim!IsFinite, Exec!Sim!Present, Exec!Sim!Blocks, Blocks
<1>5. QED
  BY <1>2, <1>3, <1>4 DEF Exec!Restorable, d

(* A decoder that is exact brings the execution back.                       *)
LEMMA DecodedSame ==
  ASSUME NEW e, NEW g, Fit(e), RoundTrips, g.refusals = e.refusals
  PROVE  Resumed(g, Decoded(e)) = e
<1> USE DEF Fit
<1>1. NonFinite \notin Vals
  BY ExecutionAssumption DEF Exec!StateAssumption, Exec!Sim!ValueAssumption
<1>2. ASSUME NEW v, v \in Vec \cup {None}, v # None => v.val # NonFinite
      PROVE  Read(v) = v
  BY <1>1, <1>2 DEF Read, Vec, RoundTrips
<1>3. [i \in Ids |-> Read(e.committed[i])] = e.committed
  <2>1. \A i \in Ids : Read(e.committed[i]) = e.committed[i]
    BY <1>2 DEF Sound, Shaped, Ids
  <2>2. e.committed = [i \in Ids |-> e.committed[i]]
    BY DEF Sound
  <2>3. QED
    BY <2>1, <2>2
<1>4. [b \in Blocks |-> [k \in DOMAIN e.history[b] |-> Read(e.history[b][k])]] = e.history
  <2>1. ASSUME NEW b \in Blocks
        PROVE  [k \in DOMAIN e.history[b] |-> Read(e.history[b][k])] = e.history[b]
    <3>1. e.history[b] \in Seq(Vec)
          /\ \A k \in 1 .. Len(e.history[b]) : e.history[b][k].val # NonFinite
      BY DEF Sound, Shaped
    <3>2. \A k \in DOMAIN e.history[b] : Read(e.history[b][k]) = e.history[b][k]
      BY <1>2, <3>1
    <3>3. e.history[b] = [k \in DOMAIN e.history[b] |-> e.history[b][k]]
      BY <3>1
    <3>4. QED
      BY <3>2, <3>3
  <2>2. e.history = [b \in Blocks |-> e.history[b]]
    BY DEF Sound
  <2>3. QED
    BY <2>1, <2>2
<1>5. ASSUME NEW f, \A b \in Blocks : f[b] \in Vals, f = [b \in Blocks |-> f[b]]
      PROVE  ReadAll(f) = f
  BY <1>5 DEF ReadAll, RoundTrips
<1>6. ReadAll(e.integrator.values) = e.integrator.values
  <2>1. e.integrator.values = [b \in Blocks |-> e.committed[b].val]
        /\ \A b \in Blocks : e.committed[b] # None
    BY DEF Agreed, Exec!PairValid, Exec!FlatOf, Exec!Blocks, Blocks
  <2>2. \A b \in Blocks : e.committed[b].val \in Vals
    BY <2>1 DEF Sound, Shaped, Vec, Ids
  <2>3. QED
    BY <1>5, <2>1, <2>2
<1>7. ReadAll(e.integrator.previous) = e.integrator.previous
  <2>1. CASE e.integrator.previous = None
    BY <2>1 DEF ReadAll
  <2>2. CASE e.integrator.previous # None
    <3>1. e.integrator.previous = [b \in Blocks |-> e.history[b][1].val]
          /\ \A b \in Blocks : e.history[b] # <<>>
      BY <2>2 DEF Agreed, Exec!PairValid, Exec!HistoryAgrees, Exec!HistoryVector, Exec!Blocks,
         Blocks
    <3>2. ASSUME NEW b \in Blocks PROVE e.history[b][1].val \in Vals
      <4>1. e.history[b] \in Seq(Vec)
            /\ \A k \in 1 .. Len(e.history[b]) : e.history[b][k].val # NonFinite
        BY DEF Sound, Shaped
      <4>2. QED
        BY <3>1, <4>1, FirstLevel
    <3>3. QED
      BY <1>5, <3>1, <3>2
  <2>3. QED
    BY <2>1, <2>2
<1>8. /\ Resumed(g, Decoded(e)).committed = e.committed
      /\ Resumed(g, Decoded(e)).history = e.history
      /\ Resumed(g, Decoded(e)).integrator = e.integrator
  <2>1. DOMAIN e.committed = Ids
    BY DEF Sound
  <2>2. QED
    BY <1>3, <1>4, <1>6, <1>7, <2>1 DEF Resumed, Decoded, Stated
<1>9. QED
  BY <1>8 DEF Resumed, Decoded, Sound

(* What does not change while the operator stays.                           *)
LEMMA DecodedKept ==
  ASSUME NEW CONSTANT e, UNCHANGED operator
  PROVE  Decoded(e)' = Decoded(e)
BY DEF Decoded, Read, ReadAll

LEMMA EncodableKept ==
  ASSUME NEW CONSTANT e
  PROVE  Encodable(e)' <=> Encodable(e)
BY DEF Encodable

----------------------------------------------------------------------------
(* The invariant.                                                           *)

(* The clone, the caller and what has been returned.                        *)
Settled ==
  /\ Clone!Inv
  /\ pc # "preparing" => Stated(integrator)
  /\ pc = "adopting" => Stated(outcome.next)
  /\ operator.parse \in [Vals -> Vals]
  /\ pc = "preparing" => job = NoJob /\ report = None
  /\ report # None /\ job = NoJob => pc = "idle"
  /\ report = None => observed = None
  /\ observed = None => verdict = None
  /\ observed # None => observed.check # "Refused"

(* The size of the attempts, and the execution a job is at: that of the     *)
(* last call, or the one the call in progress has found.                    *)
Size == job.request.call.size

At(s, config) ==
  IF job.calling
  THEN Calling(s, Size, config) /\ job.previous = s.integrator.values
  ELSE pc = "idle" /\ Execution = s

(* The trajectories a restart has recorded.                                 *)
Follows(seq, tr, n) ==
  /\ seq \in Seq(Exec!Flats)
  /\ Len(seq) = n + 1
  /\ \A k \in 1 .. n + 1 : seq[k] = tr[k - 1].integrator.values

Rejoins(seq, wt, m, rt, n) ==
  /\ seq \in Seq(Exec!Flats)
  /\ Len(seq) = m + n + 1
  /\ \A k \in 1 .. m + 1 : seq[k] = wt[k - 1].integrator.values
  /\ \A k \in 1 .. n : seq[m + 1 + k] = rt[k].integrator.values

RollbackJob ==
  /\ job.stage = "probing"
  /\ job.left = 1
  /\ At(given, "probe")

Accepting(tr, n) ==
  /\ job.stage = "accepting"
  /\ job.left \in 0 .. n
  /\ job.synchronized
  /\ Chain(tr, n - job.left, Size)
  /\ At(tr[n - job.left], "accept")

Probing(tr, n) ==
  /\ job.stage = "probing"
  /\ job.left = 1
  /\ Chain(tr, n, Size)
  /\ Encodable(tr[n])
  /\ job.primed = tr[n]
  /\ job.depths = [b \in Blocks |-> Len(tr[n].history[b])]
  /\ job.synchronized =
       (\A b \in Blocks : Len(tr[n].history[b]) = Capped(n, given.historyLimit))
  /\ At(tr[n], "probe")

HistoryJob(tr) ==
  LET n == job.request.call.total
  IN  n # 0 /\ tr[0] = given /\ (Accepting(tr, n) \/ Probing(tr, n))

(* tr is the chain of the steps that ran on, wt the one of the steps up to  *)
(* the checkpoint, rt the one of the steps after it.                        *)
Continuous(tr, n) ==
  /\ job.stage = "continuous"
  /\ job.left \in 0 .. n
  /\ Chain(tr, n - job.left, Size)
  /\ At(tr[n - job.left], "accept")
  /\ Follows(job.states, tr, n - job.left)
  /\ job.restarted = <<given.integrator.values>>

Source(wt, m) ==
  /\ job.stage = "source"
  /\ job.left \in 0 .. m
  /\ Chain(wt, m - job.left, Size)
  /\ At(wt[m - job.left], "accept")
  /\ Follows(job.restarted, wt, m - job.left)

Restoring(wt, m) ==
  /\ job.stage = "restoring"
  /\ ~job.calling
  /\ At(given, "accept")
  /\ Chain(wt, m, Size)
  /\ Encodable(wt[m])
  /\ job.saved = Decoded(wt[m])
  /\ Follows(job.restarted, wt, m)

Restarting(wt, m, rt, n) ==
  /\ job.stage = "restarted"
  /\ job.left \in 0 .. n
  /\ Chain(wt, m, Size)
  /\ Encodable(wt[m])
  /\ job.saved = Decoded(wt[m])
  /\ rt[0] = Resumed(given, job.saved)
  /\ Chain(rt, n - job.left, Size)
  /\ At(rt[n - job.left], "accept")
  /\ Rejoins(job.restarted, wt, m, rt, n - job.left)

RanOn(tr, n) ==
  /\ Chain(tr, n, Size)
  /\ job.continuous = tr[n]
  /\ Follows(job.states, tr, n)

RestartJob(tr, wt, rt) ==
  LET n == job.request.call.total
      m == job.request.call.split
  IN  /\ 0 < m /\ m < n
      /\ tr[0] = given
      /\ \/ Continuous(tr, n)
         \/ /\ RanOn(tr, n)
            /\ wt[0] = given
            /\ \/ Source(wt, m)
               \/ Restoring(wt, m)
               \/ Restarting(wt, m, rt, n - m)

(* A job in progress, and the check it is made for.                         *)
Busy ==
  /\ job = [request |-> job.request, accepted |-> job.accepted, stage |-> job.stage,
            left |-> job.left, calling |-> job.calling, previous |-> job.previous,
            synchronized |-> job.synchronized, depths |-> job.depths,
            continuous |-> job.continuous, saved |-> job.saved, primed |-> job.primed,
            states |-> job.states, restarted |-> job.restarted]
  /\ job.request \in Requests
  /\ job.calling \in BOOLEAN
  /\ job.calling => job.left > 0
  /\ job.request.call.canonical
  /\ ValidateFor(job.request.evidence).bound
  /\ job.accepted = ValidateFor(job.request.evidence).accepted
  /\ Fit(given) /\ Encodable(given)
  /\ report # None => /\ operator.pure
                      /\ observed # None
                      /\ verdict = None
                      /\ report.check # "Refused"
                      /\ report.request = job.request

Checking ==
  /\ job.request.call.check = "Rollback" => RollbackJob
  /\ job.request.call.check = "History" => \E tr : HistoryJob(tr)
  /\ job.request.call.check = "Restart" => \E tr, wt, rt : RestartJob(tr, wt, rt)

JobInv == job # NoJob => Busy /\ Checking

----------------------------------------------------------------------------
(* A call a job makes.                                                      *)

LEMMA AtAttempts ==
  ASSUME NEW CONSTANT s, NEW CONSTANT config, Fit(s), At(s, config), Attempt,
         Busy
  PROVE  At(s, config)'
<1>1. /\ ~job.calling /\ Exec!AttemptStep(job.request.call.size)
      /\ job' = [job EXCEPT !.calling = TRUE, !.previous = integrator.values]
      /\ pc = "idle" /\ Execution = s
  BY DEF Attempt, At
<1>2. job'.calling /\ job'.previous = integrator.values /\ job'.request = job.request
  BY <1>1 DEF Busy
<1>3. PICK size : size = job.request.call.size
  OBVIOUS
<1>4. Calling(s, size, config)'
  BY <1>1, <1>3, CallBegins DEF Fit, Sound
<1>5. integrator.values = s.integrator.values
  BY <1>1 DEF Execution
<1>6. QED
  BY <1>2, <1>3, <1>4, <1>5 DEF At, Size

LEMMA AtRuns ==
  ASSUME NEW CONSTANT s, NEW CONSTANT config, Fit(s), At(s, config), Run,
         Clone!Inv, Config = config
  PROVE  At(s, config)' /\ job.calling
<1>1. pc # "idle" /\ UNCHANGED job
  BY DEF Run, harness, Exec!Proceed, Exec!Open, Exec!Attempt, Exec!Write, Exec!CommitTrial,
     Exec!RollBack, Exec!Adopt, Exec!Check
<1>2. job.calling /\ InCall(s, job.request.call.size, config)
  BY <1>1 DEF At, Calling, Ended, Size
<1>3. PICK size : size = job.request.call.size
  OBVIOUS
<1>4. Calling(s, size, config)'
  BY <1>2, <1>3, CallProceeds DEF Fit
<1>5. QED
  BY <1>1, <1>2, <1>3, <1>4 DEF At, Size

(* A call that has returned.                                                *)
LEMMA AtEnds ==
  ASSUME NEW CONSTANT s, NEW CONSTANT config, At(s, config), job.calling, pc = "idle"
  PROVE  /\ \E o : /\ Came(s, o, Size, config)
                   /\ Execution = After(s, o)
                   /\ result = Result(s, o)
         /\ job.previous = s.integrator.values
BY DEF At, Calling, InCall, Ended

(* A step that was accepted: the execution at hand follows the one the call *)
(* has found.                                                               *)
LEMMA StepAccepted ==
  ASSUME NEW CONSTANT s, Fit(s), At(s, "accept"), job.calling, pc = "idle",
         result = "Accepted", Settled
  PROVE  Fit(Execution) /\ Linked(s, Execution, Size)
<1>1. PICK o : Came(s, o, Size, "accept") /\ Execution = After(s, o) /\ result = Result(s, o)
  BY AtEnds
<1>2. Agreed(Execution)
  BY <1>1 DEF Result
<1>3. Sound(Execution)
  BY SoundWhenIdle DEF Settled
<1>4. Stated(Execution.integrator)
  BY DEF Settled, Execution
<1>5. QED
  BY <1>1, <1>2, <1>3, <1>4 DEF Fit, Linked

(* The BdfState has its fields from the construction on.                    *)
LEMMA StatedSteps ==
  ASSUME Settled,
         \/ Exec!Prepare
         \/ Exec!Create
         \/ Exec!Proceed
         \/ \E h \in StepSizes : Exec!AttemptStep(h)
         \/ UNCHANGED clone
  PROVE  /\ pc' # "preparing" => Stated(integrator')
         /\ pc' = "adopting" => Stated(outcome'.next)
         /\ pc' = "preparing" => pc = "preparing"
<1> USE DEF Settled
<1>1. CASE Exec!Prepare
  BY <1>1 DEF Exec!Prepare
<1>2. CASE Exec!Create
  BY <1>2 DEF Exec!Create, Stated
<1>3. CASE \E h \in StepSizes : Exec!AttemptStep(h)
  BY <1>3 DEF Exec!AttemptStep
<1>4. CASE Exec!Open \/ Exec!Attempt \/ Exec!Write \/ Exec!RollBack \/ Exec!Check
  BY <1>4 DEF Exec!Open, Exec!Attempt, Exec!Accepted, Exec!NotAccepted, Exec!Write,
     Exec!RollBack, Exec!Check
<1>5. CASE Exec!CommitTrial
  <2>1. pc = "committing" /\ UNCHANGED <<integrator, outcome>> /\ pc' # "preparing"
    BY <1>5 DEF Exec!CommitTrial
  <2>2. outcome.next = Clone!Advanced(outcome.next.values, outcome.size)
    BY <2>1 DEF Clone!Inv, Clone!CallInv, Clone!AttemptInv
  <2>3. Stated(outcome.next)
    BY <2>2 DEF Clone!Advanced, Stated
  <2>4. QED
    BY <2>1, <2>3
<1>6. CASE Exec!Adopt
  BY <1>6 DEF Exec!Adopt
<1>7. CASE UNCHANGED clone
  BY <1>7 DEF clone
<1>8. QED
  BY <1>1, <1>2, <1>3, <1>4, <1>5, <1>6, <1>7 DEF Exec!Proceed

(* A step of the clone, with the harness left alone or at a job.            *)
LEMMA SettledSteps ==
  ASSUME Settled, UNCHANGED operator,
         \/ Exec!Prepare
         \/ Exec!Create
         \/ Exec!Proceed
         \/ \E h \in StepSizes : Exec!AttemptStep(h)
         \/ UNCHANGED clone,
         report' = None => observed' = None,
         observed' = None => verdict' = None,
         observed' # None => observed'.check # "Refused",
         pc' = "preparing" => job' = NoJob /\ report' = None,
         report' # None /\ job' = NoJob => pc' = "idle"
  PROVE  Settled'
<1>1. Clone!Inv'
  BY CloneSteps DEF Settled
<1>2. /\ pc' # "preparing" => Stated(integrator')
      /\ pc' = "adopting" => Stated(outcome'.next)
      /\ pc' = "preparing" => pc = "preparing"
  BY StatedSteps
<1>3. QED
  BY <1>1, <1>2 DEF Settled

LEMMA SettledLoads ==
  ASSUME Settled, NEW e, Fit(e), Load(e), UNCHANGED operator,
         report' = None => observed' = None,
         observed' = None => verdict' = None,
         observed' # None => observed'.check # "Refused"
  PROVE  Settled'
<1>1. Clone!Inv'
  BY LoadKeeps DEF Fit
<1>2. pc' = "idle" /\ Stated(integrator')
  BY DEF Load, Fit
<1>3. QED
  BY <1>1, <1>2 DEF Settled

LEMMA RequiredIsNotNone ==
  ASSUME NEW o, NEW r, o.check # "Refused", r.check = "Refused" \/ r.passed \in BOOLEAN
  PROVE  RequireReport(o, r) # None
<1>1. CASE o = r
  <2>1. RequireReport(o, r) = [validated |-> TRUE, accepted |-> o.passed]
    BY <1>1 DEF RequireReport
  <2>2. RequireReport(o, r) \in [validated : {TRUE}, accepted : BOOLEAN]
    BY <1>1, <2>1
  <2>3. QED
    BY <2>2, MarkerAssumption
<1>2. CASE o # r
  <2>1. RequireReport(o, r) \in [validated : {FALSE}]
    BY <1>2 DEF RequireReport
  <2>2. QED
    BY <2>1, MarkerAssumption
<1>3. QED
  BY <1>1, <1>2

(* The end of a check.                                                      *)
LEMMA SettledConcludes ==
  ASSUME Settled, job # NoJob, Busy, NEW r, Conclude(r),
         r.check = "Refused" \/ r.passed \in BOOLEAN
  PROVE  /\ Settled'
         /\ job' = NoJob
         /\ IF observed = None
            THEN report = None /\ report' = r /\ verdict' = None
            ELSE report' = report /\ verdict' # None
<1>1. /\ job' = NoJob /\ Load(given) /\ Answer(observed, r)
      /\ UNCHANGED <<operator, answers, observed>>
  BY DEF Conclude
<1>2. observed = None => report = None /\ verdict = None
  BY DEF Settled, Busy
<1>3. CASE observed = None
  <2>1. report' = r /\ UNCHANGED verdict
    BY <1>1, <1>3 DEF Answer
  <2>2. QED
    BY <1>1, <1>2, <1>3, <2>1, SettledLoads DEF Busy
<1>4. CASE observed # None
  <2>1. verdict' = RequireReport(observed, r) /\ UNCHANGED report
    BY <1>1, <1>4 DEF Answer
  <2>2. RequireReport(observed, r) # None
    BY <1>4, RequiredIsNotNone DEF Settled
  <2>3. report' # None /\ observed.check # "Refused"
    BY <1>4, <2>1 DEF Settled
  <2>4. QED
    BY <1>1, <1>4, <2>1, <2>2, <2>3, SettledLoads DEF Busy
<1>5. QED
  BY <1>3, <1>4

----------------------------------------------------------------------------
(* Each action keeps the invariant.                                         *)

LEMMA FitValues ==
  ASSUME NEW e, Fit(e)
  PROVE  e.integrator.values \in Exec!Flats
<1>1. /\ e.integrator.values = [b \in Blocks |-> e.committed[b].val]
      /\ \A b \in Blocks : e.committed[b] # None /\ e.committed[b] \in Vec \cup {None}
  BY DEF Fit, Sound, Agreed, Exec!PairValid, Exec!FlatOf, Exec!Blocks, Blocks, Ids
<1>2. QED
  BY <1>1 DEF Exec!Flats, Exec!Blocks, Blocks, Vec

(* The start of a check, and the refusals before any work.                  *)
LEMMA OpensJob ==
  ASSUME Settled, JobInv, NEW CONSTANT request \in Requests, NEW CONSTANT o,
         Open(request, o),
         o = None <=> report = None, o # None => o.check # "Refused",
         report # None => /\ operator.pure /\ observed = None /\ report.check # "Refused"
                          /\ report.request = request
  PROVE  /\ JobInv'
         /\ Settled'
         /\ report # None => report' = report
         /\ report = None /\ report' # None =>
              /\ job' = NoJob /\ verdict' = None
              /\ report'.check = "Refused" /\ report'.request = request
              /\ report'.code \in {"Input", "Sequence", "Source", "Evidence"}
         /\ report # None /\ job' = NoJob => verdict' # None
<1>1. /\ pc = "idle" /\ job = NoJob /\ observed' = o
      /\ UNCHANGED <<operator, answers, witness>> /\ UNCHANGED clone
  BY DEF Open
<1>2. Fit(Execution) \/ ~Encodable(Execution)
  BY <1>1, SoundWhenIdle DEF Settled, Fit, Agreed, Encodable, Execution
<1>3. CASE RefusalOf(request) = "None"
  <2>1. /\ job' = NewJob(request) /\ given' = Execution
        /\ UNCHANGED <<report, verdict>>
    BY <1>3 DEF Open
  <2>2. /\ Encodable(Execution) /\ ValidateFor(request.evidence).bound
        /\ request.call.canonical
        /\ request.call.check = "Restart" =>
             0 < request.call.split /\ request.call.split < request.call.total
        /\ request.call.check = "History" => request.call.total # 0
    BY <1>3 DEF RefusalOf
  <2>3. job' = NewJob(request) /\ job'.stage # "none"
    BY <2>1, RequestAssumption DEF NewJob, FirstStage
  <2>4. job' # NoJob
    BY <2>3 DEF NoJob
  <2>5. Settled'
    BY <1>1, <2>1, <2>4, SettledSteps DEF Settled, clone
  <2>6. PICK e : e = Execution
    OBVIOUS
  <2>7. Fit(e) /\ given' = e /\ Execution' = e
    BY <1>1, <1>2, <2>1, <2>2, <2>6 DEF Execution, clone
  <2>8. Busy'
    <3>1. Encodable(e)'
      BY <2>2, <2>6 DEF Encodable
    <3>2. /\ job'.request = request /\ job'.calling = FALSE
          /\ job'.accepted = ValidateFor(request.evidence).accepted
          /\ job' = [request |-> job'.request, accepted |-> job'.accepted, stage |-> job'.stage,
                     left |-> job'.left, calling |-> job'.calling, previous |-> job'.previous,
                     synchronized |-> job'.synchronized, depths |-> job'.depths,
                     continuous |-> job'.continuous, saved |-> job'.saved,
                     primed |-> job'.primed, states |-> job'.states,
                     restarted |-> job'.restarted]
      BY <2>3 DEF NewJob
    <3>3. report' # None => /\ operator'.pure /\ observed' # None /\ verdict' = None
                            /\ report'.check # "Refused" /\ report'.request = request
      BY <1>1, <2>1 DEF Settled
    <3>4. QED
      BY <2>2, <2>7, <3>1, <3>2, <3>3 DEF Busy
  <2>9. Checking'
    <3>1. /\ job'.request = request /\ job'.calling = FALSE /\ pc' = "idle"
          /\ job'.stage = FirstStage(request.call)
          /\ job'.left = Attempts(request.call, FirstStage(request.call))
          /\ job'.synchronized = TRUE
          /\ job'.states = <<e.integrator.values>> /\ job'.restarted = <<e.integrator.values>>
      BY <1>1, <2>3, <2>6 DEF NewJob, Execution, clone
    <3>2. At(e, "probe")' /\ At(e, "accept")'
      BY <2>7, <3>1 DEF At
    <3> DEFINE tr == [k \in {0} |-> e]
    <3>3. PICK size : size = request.call.size
      OBVIOUS
    <3>4. Chain(tr, 0, size) /\ tr[0] = e
      BY <2>7, ChainBegins
    <3>5. Chain(tr, 0, size)'
      BY <1>1, <3>4, ChainKept
    <3> HIDE DEF tr
    <3>6. CASE request.call.check = "Rollback"
      BY <2>7, <3>1, <3>2, <3>6 DEF Checking, RollbackJob, FirstStage, Attempts
    <3>7. CASE request.call.check = "History"
      <4>1. /\ job'.stage = "accepting" /\ job'.left = request.call.total
            /\ request.call.total \in Nat /\ request.call.total # 0
        BY <2>2, <3>1, <3>7, RequestAssumption DEF FirstStage, Attempts
      <4>2. Accepting(tr, request.call.total)'
        BY <3>1, <3>2, <3>3, <3>4, <3>5, <4>1 DEF Accepting, Size
      <4>3. HistoryJob(tr)'
        BY <2>7, <3>1, <3>4, <4>1, <4>2 DEF HistoryJob
      <4>4. QED
        BY <3>1, <3>7, <4>3 DEF Checking
    <3>8. CASE request.call.check = "Restart"
      <4>1. /\ job'.stage = "continuous" /\ job'.left = request.call.total
            /\ request.call.total \in Nat
        BY <3>1, <3>8, RequestAssumption DEF FirstStage, Attempts
      <4>2. e.integrator.values \in Exec!Flats
        BY <2>7, FitValues
      <4>3. Follows(job'.states, tr, 0)
        BY <3>1, <3>4, <4>2 DEF Follows
      <4>4. Continuous(tr, request.call.total)'
        BY <2>7, <3>1, <3>2, <3>3, <3>4, <3>5, <4>1, <4>3 DEF Continuous, Size, Follows
      <4>5. RestartJob(tr, tr, tr)'
        BY <2>2, <2>7, <3>1, <3>4, <3>8, <4>4 DEF RestartJob
      <4>6. QED
        BY <3>1, <3>8, <4>5 DEF Checking
    <3>9. QED
      BY <3>6, <3>7, <3>8, RequestAssumption
  <2>10. QED
    BY <1>1, <2>1, <2>4, <2>5, <2>8, <2>9 DEF JobInv
<1>4. CASE RefusalOf(request) # "None"
  <2> DEFINE r == Refusal(request, RefusalOf(request))
  <2>1. Answer(o, r) /\ job' = NoJob
    BY <1>1, <1>4 DEF Open
  <2>2. r.check = "Refused" /\ r.request = request /\ r.code \in {"Input", "Sequence", "Source", "Evidence"}
        /\ r = [check |-> "Refused", request |-> request, code |-> RefusalOf(request)]
    BY <1>4 DEF Refusal, RefusalOf
  <2> HIDE DEF r
  <2>3. o # None => verdict' # None /\ report' = report
    BY <2>1, <2>2, RequiredIsNotNone DEF Answer
  <2>4. o = None => report' = r /\ verdict' = verdict
    BY <2>1 DEF Answer
  <2>5. o = None => report = None /\ verdict = None
    BY <1>1 DEF Settled
  <2>6. Settled'
    BY <1>1, <2>1, <2>3, <2>4, <2>5, SettledSteps DEF Settled, clone
  <2>7. QED
    BY <1>1, <2>1, <2>2, <2>3, <2>4, <2>5, <2>6 DEF JobInv, Settled
<1>5. QED
  BY <1>3, <1>4

(* What a check has seen stays, as long as what it is at does.              *)
LEMMA StageKept ==
  ASSUME Busy, Checking, UNCHANGED <<operator, given>>, Remember \/ UNCHANGED answers,
         job.stage # "restoring",
         /\ job'.request = job.request /\ job'.stage = job.stage /\ job'.left = job.left
         /\ job'.synchronized = job.synchronized /\ job'.depths = job.depths
         /\ job'.continuous = job.continuous /\ job'.saved = job.saved
         /\ job'.primed = job.primed /\ job'.states = job.states
         /\ job'.restarted = job.restarted,
         \A s, config : Fit(s) /\ At(s, config)
                          /\ config = (IF job.stage = "probing" THEN "probe" ELSE "accept")
                        => At(s, config)'
  PROVE  Checking'
<1> USE DEF Size
<1>1. PICK request : request = job.request
  OBVIOUS
<1>2. PICK left : left = job.left
  OBVIOUS
<1> DEFINE n == request.call.total
           m == request.call.split
           size == request.call.size
<1>3. n \in Nat /\ m \in Nat /\ request.call.check \in {"Rollback", "Restart", "History"}
  BY <1>1, RequestAssumption DEF Busy
<1>4. ASSUME NEW CONSTANT tr, NEW CONSTANT k \in Nat, Chain(tr, k, size)
      PROVE  Chain(tr, k, size)' /\ Fit(tr[k])
  <2>1. Chain(tr, k, size)'
    BY <1>4, ChainKept
  <2>2. QED
    BY <1>4, <2>1 DEF Chain
<1>5. CASE request.call.check = "Rollback"
  BY <1>1, <1>5 DEF Checking, RollbackJob, Busy
<1>6. CASE request.call.check = "History"
  <2>1. PICK tr : HistoryJob(tr)
    BY <1>1, <1>6 DEF Checking
  <2>2. CASE Accepting(tr, n)
    <3>1. n - left \in Nat /\ Chain(tr, n - left, size) /\ At(tr[n - left], "accept")
      BY <1>1, <1>2, <1>3, <2>2 DEF Accepting
    <3>2. Chain(tr, n - left, size)' /\ At(tr[n - left], "accept")'
      BY <1>4, <2>2, <3>1 DEF Accepting
    <3>3. Accepting(tr, n)'
      BY <1>1, <1>2, <2>2, <3>2 DEF Accepting
    <3>4. QED
      BY <1>1, <1>6, <2>1, <3>3 DEF HistoryJob, Checking
  <2>3. CASE Probing(tr, n)
    <3>1. Chain(tr, n, size)' /\ At(tr[n], "probe")'
      BY <1>1, <1>3, <1>4, <2>3 DEF Probing
    <3>2. Encodable(tr[n])'
      BY <2>3, EncodableKept DEF Probing
    <3>3. Probing(tr, n)'
      BY <1>1, <2>3, <3>1, <3>2 DEF Probing
    <3>4. QED
      BY <1>1, <1>6, <2>1, <3>3 DEF HistoryJob, Checking
  <2>4. QED
    BY <1>1, <2>1, <2>2, <2>3 DEF HistoryJob
<1>7. CASE request.call.check = "Restart"
  <2>1. PICK tr, wt, rt : RestartJob(tr, wt, rt)
    BY <1>1, <1>7 DEF Checking
  <2>2. CASE Continuous(tr, n)
    <3>1. n - left \in Nat /\ Chain(tr, n - left, size) /\ At(tr[n - left], "accept")
      BY <1>1, <1>2, <1>3, <2>2 DEF Continuous
    <3>2. Chain(tr, n - left, size)' /\ At(tr[n - left], "accept")'
      BY <1>4, <2>2, <3>1 DEF Continuous
    <3>3. Continuous(tr, n)'
      BY <1>1, <1>2, <2>2, <3>2 DEF Continuous, Follows
    <3>4. QED
      BY <1>1, <1>7, <2>1, <3>3 DEF RestartJob, Checking
  <2>3. ASSUME RanOn(tr, n), wt[0] = given PROVE RanOn(tr, n)' /\ (wt[0] = given)'
    BY <1>1, <1>3, <1>4, <2>3 DEF RanOn, Follows
  <2>4. CASE RanOn(tr, n) /\ wt[0] = given /\ Source(wt, m)
    <3>1. m - left \in Nat /\ Chain(wt, m - left, size) /\ At(wt[m - left], "accept")
      BY <1>1, <1>2, <1>3, <2>4 DEF Source
    <3>2. Chain(wt, m - left, size)' /\ At(wt[m - left], "accept")'
      BY <1>4, <2>4, <3>1 DEF Source
    <3>3. Source(wt, m)'
      BY <1>1, <1>2, <2>4, <3>2 DEF Source, Follows
    <3>4. QED
      BY <1>1, <1>7, <2>1, <2>3, <2>4, <3>3 DEF RestartJob, Checking
  <2>5. CASE RanOn(tr, n) /\ wt[0] = given /\ Restarting(wt, m, rt, n - m)
    <3>1. /\ (n - m) - left \in Nat /\ Chain(rt, (n - m) - left, size)
          /\ At(rt[(n - m) - left], "accept") /\ Chain(wt, m, size)
      BY <1>1, <1>2, <1>3, <2>1, <2>5 DEF Restarting, RestartJob
    <3>2. /\ Chain(rt, (n - m) - left, size)' /\ At(rt[(n - m) - left], "accept")'
          /\ Chain(wt, m, size)'
      BY <1>3, <1>4, <2>5, <3>1 DEF Restarting
    <3>a. (job.saved = Decoded(wt[m]))'
      BY <2>5 DEF Restarting, Decoded, Read, ReadAll
    <3>b. (rt[0] = Resumed(given, job.saved))'
      BY <2>5 DEF Restarting, Resumed
    <3>c. Rejoins(job.restarted, wt, m, rt, (n - m) - left)'
      BY <1>2, <2>5 DEF Restarting, Rejoins
    <3>d. Encodable(wt[m])'
      BY <2>5 DEF Restarting, Encodable
    <3>3. Restarting(wt, m, rt, n - m)'
      BY <1>1, <1>2, <2>5, <3>2, <3>a, <3>b, <3>c, <3>d DEF Restarting
    <3>4. QED
      BY <1>1, <1>7, <2>1, <2>3, <2>5, <3>3 DEF RestartJob, Checking
  <2>6. QED
    BY <1>1, <2>1, <2>2, <2>4, <2>5 DEF RestartJob, Restoring
<1>8. QED
  BY <1>3, <1>5, <1>6, <1>7

LEMMA RunKeeps ==
  ASSUME Settled, JobInv, Run
  PROVE  /\ Settled' /\ JobInv'
         /\ pc # "idle" /\ UNCHANGED <<operator, harness>>
<1>1. /\ Exec!Proceed /\ Remember /\ UNCHANGED <<operator, harness>>
      /\ pc # "idle" /\ pc # "preparing"
  BY DEF Run, Exec!Proceed, Exec!Open, Exec!Attempt, Exec!Write, Exec!CommitTrial,
     Exec!RollBack, Exec!Adopt, Exec!Check
<1>2. pc' # "preparing" /\ (report # None => job # NoJob)
  BY <1>1 DEF Settled, Exec!Proceed, Exec!Open, Exec!Attempt, Exec!Accepted, Exec!NotAccepted,
     Exec!Write, Exec!CommitTrial, Exec!RollBack, Exec!Adopt, Exec!Check
<1>3. Settled'
  BY <1>1, <1>2, SettledSteps DEF Settled, harness
<1>4. ASSUME job # NoJob PROVE JobInv'
  <2>1. Busy /\ Checking
    BY <1>4 DEF JobInv
  <2>2. Busy'
    <3>1. Encodable(given)'
      BY <1>1, <2>1 DEF Busy, Encodable, harness
    <3>2. Fit(given)'
      BY <1>1, <2>1 DEF Busy, harness
    <3>3. QED
      BY <1>1, <2>1, <3>1, <3>2 DEF Busy, harness
  <2>3. job.stage # "restoring"
    <3>1. job.request.call.check = "Restart" \/ job.stage \in {"probing", "accepting"}
      BY <2>1, RequestAssumption DEF Busy, Checking, RollbackJob, HistoryJob, Accepting, Probing
    <3>2. CASE job.request.call.check = "Restart"
      <4>1. PICK tr, wt, rt : RestartJob(tr, wt, rt)
        BY <2>1, <3>2 DEF Checking
      <4>2. QED
        BY <1>1, <4>1 DEF RestartJob, Continuous, Source, Restoring, Restarting, At
    <3>3. QED
      BY <3>1, <3>2
  <2>4. ASSUME NEW CONSTANT s, NEW CONSTANT config, Fit(s), At(s, config),
               config = (IF job.stage = "probing" THEN "probe" ELSE "accept")
        PROVE  At(s, config)'
    <3>1. Config = config
      BY <1>4, <2>4 DEF Config
    <3>2. QED
      BY <2>4, <3>1, AtRuns DEF Settled
  <2>5. Checking'
    BY <1>1, <2>1, <2>3, <2>4, StageKept DEF harness
  <2>6. QED
    BY <2>2, <2>5 DEF JobInv
<1>5. QED
  BY <1>1, <1>3, <1>4 DEF JobInv, harness

LEMMA AttemptKeeps ==
  ASSUME Settled, JobInv, Attempt
  PROVE  /\ Settled' /\ JobInv'
         /\ job # NoJob /\ job' # NoJob /\ UNCHANGED <<report, verdict>>
<1>1. /\ job.stage \in Stepping \cup {"probing"} /\ pc = "idle" /\ ~job.calling
      /\ job.left > 0
      /\ Exec!AttemptStep(job.request.call.size)
      /\ job' = [job EXCEPT !.calling = TRUE, !.previous = integrator.values]
      /\ UNCHANGED <<operator, answers, given, report, observed, verdict, witness>>
  BY DEF Attempt, Working
<1>2. job # NoJob /\ job.stage # "restoring" /\ job.stage # "none"
  BY <1>1 DEF Stepping, NoJob
<1>3. Busy /\ Checking
  BY <1>2 DEF JobInv
<1>4. /\ job'.request = job.request /\ job'.stage = job.stage /\ job'.left = job.left
      /\ job'.synchronized = job.synchronized /\ job'.depths = job.depths
      /\ job'.continuous = job.continuous /\ job'.saved = job.saved
      /\ job'.primed = job.primed /\ job'.states = job.states
      /\ job'.restarted = job.restarted /\ job'.calling = TRUE /\ job'.accepted = job.accepted
      /\ job' = [request |-> job'.request, accepted |-> job'.accepted, stage |-> job'.stage,
                 left |-> job'.left, calling |-> job'.calling, previous |-> job'.previous,
                 synchronized |-> job'.synchronized, depths |-> job'.depths,
                 continuous |-> job'.continuous, saved |-> job'.saved,
                 primed |-> job'.primed, states |-> job'.states,
                 restarted |-> job'.restarted]
  BY <1>1, <1>3 DEF Busy
<1>5. job' # NoJob
  BY <1>2, <1>4 DEF NoJob
<1>6. Settled'
  <2>1. job.request.call.size \in StepSizes
    BY <1>3, RequestAssumption DEF Busy
  <2>2. pc' # "preparing"
    BY <1>1 DEF Exec!AttemptStep
  <2>3. \E h \in StepSizes : Exec!AttemptStep(h)
    BY <1>1, <2>1
  <2>4. QED
    BY <1>1, <1>5, <2>2, <2>3, SettledSteps DEF Settled
<1>7. Busy'
  <2>1. Encodable(given)' /\ Fit(given)'
    BY <1>1, <1>3 DEF Busy, Encodable
  <2>2. QED
    BY <1>1, <1>3, <1>4, <2>1 DEF Busy
<1>8. Checking'
  <2>1. ASSUME NEW CONSTANT s, NEW CONSTANT config, Fit(s), At(s, config)
        PROVE  At(s, config)'
    BY <1>3, <2>1, AtAttempts
  <2>2. QED
    BY <1>1, <1>2, <1>3, <1>4, <2>1, StageKept
<1>9. QED
  BY <1>1, <1>2, <1>5, <1>6, <1>7, <1>8 DEF JobInv

(* A chain is extended by the step that was accepted.                       *)
LEMMA ChainSteps ==
  ASSUME NEW CONSTANT tr, NEW CONSTANT k \in Nat, NEW CONSTANT size, NEW CONSTANT t,
         Settled, Chain(tr, k, size), At(tr[k], "accept"), size = Size, t = Execution,
         job.calling, pc = "idle", result = "Accepted", UNCHANGED <<operator, answers>>
  PROVE  LET longer == [i \in 0 .. k + 1 |-> IF i = k + 1 THEN t ELSE tr[i]]
         IN  /\ Chain(longer, k + 1, size) /\ Chain(longer, k + 1, size)'
             /\ \A i \in 0 .. k : longer[i] = tr[i]
             /\ longer[k + 1] = t
             /\ Fit(tr[k]) /\ Fit(t) /\ Linked(tr[k], t, size)
             /\ job.previous = tr[k].integrator.values
<1> DEFINE longer == [i \in 0 .. k + 1 |-> IF i = k + 1 THEN t ELSE tr[i]]
<1>1. Fit(tr[k])
  BY DEF Chain
<1>2. Fit(t) /\ Linked(tr[k], t, size)
  BY <1>1, StepAccepted
<1>3. /\ Chain(longer, k + 1, size)
      /\ \A i \in 0 .. k : longer[i] = tr[i]
      /\ longer[k + 1] = t
  BY <1>2, ChainExtends
<1> HIDE DEF longer
<1>4. Chain(longer, k + 1, size)'
  BY <1>3, ChainKept
<1>5. QED
  BY <1>1, <1>2, <1>3, <1>4 DEF longer, At

LEMMA FollowsSteps ==
  ASSUME NEW seq, NEW tr, NEW k \in Nat, NEW longer, NEW t, Follows(seq, tr, k),
         \A i \in 0 .. k : longer[i] = tr[i], longer[k + 1] = t, Fit(t)
  PROVE  Follows(Append(seq, t.integrator.values), longer, k + 1)
<1>1. t.integrator.values \in Exec!Flats
  BY FitValues
<1> DEFINE v == t.integrator.values
<1> HIDE DEF v
<1>2. /\ Append(seq, v) \in Seq(Exec!Flats) /\ Len(Append(seq, v)) = k + 2
      /\ Append(seq, v)[k + 2] = v
      /\ \A i \in 1 .. k + 1 : Append(seq, v)[i] = seq[i]
  BY <1>1 DEF Follows, v
<1>3. ASSUME NEW i \in 1 .. k + 2 PROVE Append(seq, v)[i] = longer[i - 1].integrator.values
  <2>1. CASE i = k + 2
    BY <1>2, <2>1 DEF v
  <2>2. CASE i # k + 2
    <3>1. i \in 1 .. k + 1 /\ i - 1 \in 0 .. k
      BY <2>2
    <3>2. QED
      BY <1>2, <3>1 DEF Follows
  <2>3. QED
    BY <2>1, <2>2
<1>4. QED
  BY <1>2, <1>3 DEF Follows, v

LEMMA RejoinsSteps ==
  ASSUME NEW seq, NEW wt, NEW m \in Nat, NEW rt, NEW k \in Nat, NEW longer, NEW t,
         Rejoins(seq, wt, m, rt, k),
         \A i \in 0 .. k : longer[i] = rt[i], longer[k + 1] = t, Fit(t)
  PROVE  Rejoins(Append(seq, t.integrator.values), wt, m, longer, k + 1)
<1>1. t.integrator.values \in Exec!Flats
  BY FitValues
<1> DEFINE v == t.integrator.values
<1> HIDE DEF v
<1>2. /\ Append(seq, v) \in Seq(Exec!Flats) /\ Len(Append(seq, v)) = m + k + 2
      /\ Append(seq, v)[m + k + 2] = v
      /\ \A i \in 1 .. m + k + 1 : Append(seq, v)[i] = seq[i]
  BY <1>1 DEF Rejoins, v
<1>3. \A i \in 1 .. m + 1 : Append(seq, v)[i] = wt[i - 1].integrator.values
  BY <1>2 DEF Rejoins
<1>4. ASSUME NEW i \in 1 .. k + 1
      PROVE  Append(seq, v)[m + 1 + i] = longer[i].integrator.values
  <2>1. CASE i = k + 1
    BY <1>2, <2>1 DEF v
  <2>2. CASE i # k + 1
    <3>1. i \in 1 .. k /\ i \in 0 .. k /\ m + 1 + i \in 1 .. m + k + 1
      BY <2>2
    <3>2. QED
      BY <1>2, <3>1 DEF Rejoins
  <2>3. QED
    BY <2>1, <2>2
<1>5. Len(Append(seq, v)) = m + (k + 1) + 1
  BY <1>2
<1> DEFINE grown == Append(seq, v)
<1> HIDE DEF grown
<1>6. grown \in Seq(Exec!Flats) /\ Len(grown) = m + (k + 1) + 1
      /\ (\A i \in 1 .. m + 1 : grown[i] = wt[i - 1].integrator.values)
      /\ (\A i \in 1 .. k + 1 : grown[m + 1 + i] = longer[i].integrator.values)
  BY <1>2, <1>3, <1>4, <1>5 DEF grown
<1>7. Rejoins(grown, wt, m, longer, k + 1)
  BY <1>6 DEF Rejoins
<1>8. QED
  BY <1>7 DEF v, grown

(* A step that was accepted, in the job.                                    *)
SteppedJob ==
  [job EXCEPT
     !.calling = FALSE,
     !.left = @ - 1,
     !.states = IF job.stage = "continuous" THEN Append(@, integrator.values) ELSE @,
     !.restarted = IF job.stage \in {"source", "restarted"}
                   THEN Append(@, integrator.values) ELSE @,
     !.synchronized = @ /\ (job.stage = "accepting" =>
         /\ \A b \in Blocks : history[b] # <<>>
         /\ SameNumbers(Exec!HistoryVector(history), job.previous))]

LEMMA SteppedKeeps ==
  ASSUME Settled, JobInv, Working(Stepping), job.calling, result = "Accepted",
         job' = SteppedJob,
         UNCHANGED <<operator, answers, given, report, observed, verdict, witness>>,
         UNCHANGED clone
  PROVE  Settled' /\ JobInv' /\ job # NoJob /\ job' # NoJob
<1>1. job # NoJob /\ pc = "idle" /\ job.stage \in Stepping
  BY DEF Working, Stepping, NoJob
<1>2. Busy /\ Checking
  BY <1>1 DEF JobInv
<1>3. PICK request : request = job.request
  OBVIOUS
<1>4. PICK left : left = job.left
  OBVIOUS
<1>5. PICK t : t = Execution
  OBVIOUS
<1> DEFINE n == request.call.total
           m == request.call.split
           size == request.call.size
<1>6. /\ job'.request = request /\ job'.stage = job.stage /\ job'.left = left - 1
      /\ job'.depths = job.depths /\ job'.accepted = job.accepted
      /\ job'.continuous = job.continuous /\ job'.saved = job.saved
      /\ job'.primed = job.primed /\ job'.calling = FALSE
      /\ job'.states = IF job.stage = "continuous" THEN Append(job.states, t.integrator.values)
                       ELSE job.states
      /\ job'.restarted = IF job.stage \in {"source", "restarted"}
                          THEN Append(job.restarted, t.integrator.values) ELSE job.restarted
      /\ job'.synchronized <=>
           job.synchronized /\ (job.stage = "accepting" =>
             /\ \A b \in Blocks : history[b] # <<>>
             /\ SameNumbers(Exec!HistoryVector(history), job.previous))
      /\ job' = [request |-> job'.request, accepted |-> job'.accepted, stage |-> job'.stage,
                 left |-> job'.left, calling |-> job'.calling, previous |-> job'.previous,
                 synchronized |-> job'.synchronized, depths |-> job'.depths,
                 continuous |-> job'.continuous, saved |-> job'.saved,
                 primed |-> job'.primed, states |-> job'.states,
                 restarted |-> job'.restarted]
  BY <1>2, <1>3, <1>4, <1>5 DEF Busy, SteppedJob, Execution
<1>7. job' # NoJob
  BY <1>1, <1>6 DEF NoJob, Stepping
<1>8. Settled'
  BY <1>1, <1>7, SettledSteps DEF Settled, clone
<1>9. Busy'
  <2>1. Encodable(given)' /\ Fit(given)'
    BY <1>2 DEF Busy, Encodable
  <2>2. QED
    BY <1>2, <1>3, <1>6, <2>1 DEF Busy
<1>10. Execution' = t /\ pc' = "idle" /\ At(t, "accept")'
  BY <1>1, <1>5, <1>6 DEF clone, Execution, At
<1>11. n \in Nat /\ m \in Nat /\ request.call.check \in {"Rollback", "Restart", "History"}
       /\ left > 0
  BY <1>2, <1>3, <1>4, RequestAssumption DEF Busy
<1>12. CASE request.call.check = "Rollback"
  BY <1>1, <1>2, <1>3, <1>12 DEF Checking, RollbackJob, Stepping
<1>13. CASE request.call.check = "History"
  <2>1. PICK tr : HistoryJob(tr)
    BY <1>2, <1>3, <1>13 DEF Checking
  <2>2. Accepting(tr, n)
    BY <1>1, <1>3, <2>1 DEF HistoryJob, Probing, Stepping
  <2>3. PICK k \in Nat : k = n - left
    BY <1>4, <1>11, <2>2 DEF Accepting
  <2> DEFINE longer == [i \in 0 .. k + 1 |-> IF i = k + 1 THEN t ELSE tr[i]]
  <2>4. Chain(tr, k, size) /\ At(tr[k], "accept")
    BY <1>3, <1>4, <2>2, <2>3 DEF Accepting, Size
  <2>5. /\ Chain(longer, k + 1, size)'
        /\ \A i \in 0 .. k : longer[i] = tr[i]
        /\ longer[k + 1] = t
        /\ Fit(tr[k]) /\ Linked(tr[k], t, size)
        /\ job.previous = tr[k].integrator.values
    BY <1>1, <1>3, <1>5, <2>4, ChainSteps DEF Size
  <2> HIDE DEF longer
  <2>6. job'.synchronized
    <3>1. PICK o : Result(tr[k], o) = "Accepted" /\ t = After(tr[k], o)
      BY <2>5 DEF Linked
    <3>2. \A b \in Blocks : /\ t.history[b] # <<>>
                            /\ t.history[b][1].val = tr[k].integrator.values[b]
      BY <2>5, <3>1, AcceptedAttempt DEF Fit
    <3>3. history = t.history
      BY <1>5 DEF Execution
    <3>4. SameNumbers(Exec!HistoryVector(history), job.previous)
      BY <2>5, <3>2, <3>3 DEF SameNumbers, Exec!HistoryVector, Exec!Blocks, Blocks
    <3>5. QED
      BY <1>6, <2>2, <3>2, <3>3, <3>4 DEF Accepting
  <2>7. n - job'.left = k + 1 /\ job'.left \in 0 .. n
    BY <1>4, <1>6, <1>11, <2>2, <2>3 DEF Accepting
  <2>8. Accepting(longer, n)'
    BY <1>6, <1>10, <2>2, <2>5, <2>6, <2>7 DEF Accepting, Size
  <2>9. longer[0] = given'
    BY <2>1, <2>5 DEF HistoryJob
  <2>10. HistoryJob(longer)'
    BY <1>3, <1>6, <2>1, <2>8, <2>9 DEF HistoryJob
  <2>11. Checking'
    BY <1>6, <1>13, <2>10 DEF Checking
  <2>12. QED
    BY <1>1, <1>7, <1>8, <1>9, <2>11 DEF JobInv
<1>14. CASE request.call.check = "Restart"
  <2>1. PICK tr, wt, rt : RestartJob(tr, wt, rt)
    BY <1>2, <1>3, <1>14 DEF Checking
  <2>0. 0 < m /\ m < n /\ tr[0] = given
    BY <1>3, <2>1 DEF RestartJob
  <2>2. CASE Continuous(tr, n)
    <3>1. PICK k \in Nat : k = n - left
      BY <1>4, <1>11, <2>2 DEF Continuous
    <3> DEFINE longer == [i \in 0 .. k + 1 |-> IF i = k + 1 THEN t ELSE tr[i]]
    <3>2. Chain(tr, k, size) /\ At(tr[k], "accept") /\ Follows(job.states, tr, k)
      BY <1>3, <1>4, <2>2, <3>1 DEF Continuous, Size
    <3>3. /\ Chain(longer, k + 1, size)'
          /\ \A i \in 0 .. k : longer[i] = tr[i]
          /\ longer[k + 1] = t
          /\ Fit(t)
      BY <1>1, <1>3, <1>5, <3>2, ChainSteps DEF Size
    <3> HIDE DEF longer
    <3>a. Follows(Append(job.states, t.integrator.values), longer, k + 1)
      BY <3>2, <3>3, FollowsSteps
    <3>b. job'.states = Append(job.states, t.integrator.values)
      BY <1>6, <2>2 DEF Continuous
    <3>4. Follows(job'.states, longer, k + 1)
      BY <3>a, <3>b
    <3>5. n - job'.left = k + 1 /\ job'.left \in 0 .. n
      BY <1>4, <1>6, <1>11, <2>2, <3>1 DEF Continuous
    <3>6. longer[0] = given'
      BY <2>0, <3>3
    <3>7. Follows(job.states, longer, k + 1)'
      BY <3>4 DEF Follows
    <3>8. Continuous(longer, n)'
      BY <1>6, <1>10, <2>2, <3>3, <3>5, <3>7 DEF Continuous, Size
    <3>9. RestartJob(longer, wt, rt)'
      BY <1>6, <2>0, <3>6, <3>8 DEF RestartJob
    <3>10. QED
      BY <1>1, <1>6, <1>7, <1>8, <1>9, <1>14, <3>9 DEF JobInv, Checking
  <2>3. ASSUME RanOn(tr, n), wt[0] = given, job.stage # "continuous"
        PROVE  RanOn(tr, n)' /\ (wt[0] = given)'
    <3>1. Chain(tr, n, size)'
      BY <1>3, <2>3, ChainKept DEF RanOn, Size
    <3>2. QED
      BY <1>6, <2>3, <3>1 DEF RanOn, Follows, Size
  <2>4. CASE RanOn(tr, n) /\ wt[0] = given /\ Source(wt, m)
    <3>1. PICK k \in Nat : k = m - left
      BY <1>4, <1>11, <2>4 DEF Source
    <3> DEFINE longer == [i \in 0 .. k + 1 |-> IF i = k + 1 THEN t ELSE wt[i]]
    <3>2. Chain(wt, k, size) /\ At(wt[k], "accept") /\ Follows(job.restarted, wt, k)
      BY <1>3, <1>4, <2>4, <3>1 DEF Source, Size
    <3>3. /\ Chain(longer, k + 1, size)'
          /\ \A i \in 0 .. k : longer[i] = wt[i]
          /\ longer[k + 1] = t
          /\ Fit(t)
      BY <1>1, <1>3, <1>5, <3>2, ChainSteps DEF Size
    <3> HIDE DEF longer
    <3>a. Follows(Append(job.restarted, t.integrator.values), longer, k + 1)
      BY <3>2, <3>3, FollowsSteps
    <3>b. job'.restarted = Append(job.restarted, t.integrator.values)
      BY <1>6, <2>4 DEF Source
    <3>4. Follows(job'.restarted, longer, k + 1)
      BY <3>a, <3>b
    <3>5. m - job'.left = k + 1 /\ job'.left \in 0 .. m
      BY <1>4, <1>6, <1>11, <2>4, <3>1 DEF Source
    <3>6. longer[0] = given'
      BY <2>4, <3>3
    <3>7. Follows(job.restarted, longer, k + 1)'
      BY <3>4 DEF Follows
    <3>8. Source(longer, m)'
      BY <1>6, <1>10, <2>4, <3>3, <3>5, <3>7 DEF Source, Size
    <3>9. RanOn(tr, n)'
      BY <2>3, <2>4 DEF Source
    <3>10. RestartJob(tr, longer, rt)'
      BY <1>6, <2>0, <3>6, <3>8, <3>9 DEF RestartJob
    <3>11. QED
      BY <1>1, <1>6, <1>7, <1>8, <1>9, <1>14, <3>10 DEF JobInv, Checking
  <2>5. CASE RanOn(tr, n) /\ wt[0] = given /\ Restarting(wt, m, rt, n - m)
    <3>1. PICK k \in Nat : k = (n - m) - left
      BY <1>4, <1>11, <2>0, <2>5 DEF Restarting
    <3> DEFINE longer == [i \in 0 .. k + 1 |-> IF i = k + 1 THEN t ELSE rt[i]]
    <3>2. Chain(rt, k, size) /\ At(rt[k], "accept") /\ Rejoins(job.restarted, wt, m, rt, k)
      BY <1>3, <1>4, <2>5, <3>1 DEF Restarting, Size
    <3>3. /\ Chain(longer, k + 1, size)'
          /\ \A i \in 0 .. k : longer[i] = rt[i]
          /\ longer[k + 1] = t
          /\ Fit(t)
      BY <1>1, <1>3, <1>5, <3>2, ChainSteps DEF Size
    <3> HIDE DEF longer
    <3>a. Rejoins(Append(job.restarted, t.integrator.values), wt, m, longer, k + 1)
      BY <1>11, <3>2, <3>3, RejoinsSteps
    <3>b. job'.restarted = Append(job.restarted, t.integrator.values)
      BY <1>6, <2>5 DEF Restarting
    <3>4. Rejoins(job'.restarted, wt, m, longer, k + 1)
      BY <3>a, <3>b
    <3>5. (n - m) - job'.left = k + 1 /\ job'.left \in 0 .. n - m
      BY <1>4, <1>6, <1>11, <2>0, <2>5, <3>1 DEF Restarting
    <3>6. longer[0] = Resumed(given', job'.saved)
      BY <1>6, <2>5, <3>3 DEF Restarting
    <3>7. Rejoins(job.restarted, wt, m, longer, k + 1)'
      BY <3>4 DEF Rejoins
    <3>8. Chain(wt, m, size)'
      BY <1>3, <2>5, ChainKept DEF Restarting, Size
    <3>9. (job.saved = Decoded(wt[m]))'
      <4>1. Decoded(wt[m])' = Decoded(wt[m])
        BY DecodedKept
      <4>2. QED
        BY <1>6, <2>5, <4>1 DEF Restarting
    <3>10. (longer[0] = Resumed(given, job.saved))'
      BY <3>6 DEF Resumed
    <3>11. Restarting(wt, m, longer, n - m)'
      <4>1. At(longer[(n - m) - job.left], "accept")'
        BY <1>10, <3>3, <3>5
      <4>2. /\ Chain(longer, (n - m) - job.left, job.request.call.size)'
            /\ Chain(wt, m, job.request.call.size)'
            /\ Rejoins(job.restarted, wt, m, longer, (n - m) - job.left)'
        BY <1>6, <3>3, <3>5, <3>7, <3>8
      <4>3. job'.stage = "restarted"
        BY <1>6, <2>5 DEF Restarting
      <4>4. Encodable(wt[m])'
        BY <2>5 DEF Restarting, Encodable
      <4>5. QED
        BY <3>5, <3>9, <3>10, <4>1, <4>2, <4>3, <4>4 DEF Restarting, Size
    <3>12. RanOn(tr, n)' /\ (wt[0] = given)'
      BY <2>3, <2>5 DEF Restarting
    <3>13. RestartJob(tr, wt, longer)'
      BY <1>6, <2>0, <3>11, <3>12 DEF RestartJob
    <3>14. QED
      BY <1>1, <1>6, <1>7, <1>8, <1>9, <1>14, <3>13 DEF JobInv, Checking
  <2>6. QED
    BY <1>1, <1>3, <2>1, <2>2, <2>4, <2>5 DEF RestartJob, Restoring, Stepping
<1>15. QED
  BY <1>11, <1>12, <1>13, <1>14

(* Which stages a check has.                                                *)
LEMMA StageOf ==
  ASSUME Busy, Checking
  PROVE  /\ job.stage \in {"probing", "accepting", "continuous", "source", "restoring", "restarted"}
         /\ job.request.call.check = "Restart" <=>
              job.stage \in {"continuous", "source", "restoring", "restarted"}
         /\ job.stage = "accepting" => job.request.call.check = "History"
         /\ job.stage = "probing" => job.request.call.check \in {"Rollback", "History"}
<1>1. job.request.call.check \in {"Rollback", "Restart", "History"}
  BY RequestAssumption DEF Busy
<1>2. CASE job.request.call.check = "Rollback"
  BY <1>2 DEF Checking, RollbackJob
<1>3. CASE job.request.call.check = "History"
  <2>1. PICK tr : HistoryJob(tr)
    BY <1>3 DEF Checking
  <2>2. job.stage \in {"accepting", "probing"}
    BY <2>1 DEF HistoryJob, Accepting, Probing
  <2>3. QED
    BY <1>3, <2>2
<1>4. CASE job.request.call.check = "Restart"
  <2>1. PICK tr, wt, rt : RestartJob(tr, wt, rt)
    BY <1>4 DEF Checking
  <2>2. job.stage \in {"continuous", "source", "restoring", "restarted"}
    BY <2>1 DEF RestartJob, Continuous, Source, Restoring, Restarting
  <2>3. QED
    BY <1>4, <2>2
<1>5. QED
  BY <1>1, <1>2, <1>3, <1>4

(* The clone of an execution is that execution.                             *)
LEMMA LoadExecution ==
  ASSUME NEW CONSTANT e, Sound(e), Load(e)
  PROVE  Execution' = e /\ pc' = "idle"
BY DEF Sound, Load, Execution

LEMMA EntryFields ==
  ASSUME Busy, NEW stage
  PROVE  LET j == Enter(stage)
         IN  /\ j = [request |-> job.request, accepted |-> job.accepted, stage |-> stage,
                     left |-> Attempts(job.request.call, stage), calling |-> job.calling,
                     previous |-> job.previous, synchronized |-> job.synchronized,
                     depths |-> job.depths, continuous |-> job.continuous, saved |-> job.saved,
                     primed |-> job.primed, states |-> job.states,
                     restarted |-> job.restarted]
<1> DEFINE a == Attempts(job.request.call, stage)
<1> HIDE DEF a
<1>1. PICK j : j = [job EXCEPT !.stage = stage, !.left = a]
  OBVIOUS
<1>2. PICK k : k = job /\
          k = [request |-> k.request, accepted |-> k.accepted, stage |-> k.stage,
               left |-> k.left, calling |-> k.calling, previous |-> k.previous,
               synchronized |-> k.synchronized, depths |-> k.depths,
               continuous |-> k.continuous, saved |-> k.saved, primed |-> k.primed,
               states |-> k.states, restarted |-> k.restarted]
  BY DEF Busy
<1>3. j = [k EXCEPT !.stage = stage, !.left = a]
  BY <1>1, <1>2
<1>4. j = [request |-> k.request, accepted |-> k.accepted, stage |-> stage,
           left |-> a, calling |-> k.calling, previous |-> k.previous,
           synchronized |-> k.synchronized, depths |-> k.depths,
           continuous |-> k.continuous, saved |-> k.saved, primed |-> k.primed,
           states |-> k.states, restarted |-> k.restarted]
  BY <1>2, <1>3
<1>5. Enter(stage) = j
  BY <1>1 DEF Enter, a
<1>6. QED
  BY <1>2, <1>4, <1>5 DEF a

LEMMA KeepContinuousKeeps ==
  ASSUME Settled, JobInv, KeepContinuous
  PROVE  Settled' /\ JobInv' /\ job # NoJob /\ job' # NoJob
<1>1. /\ job.stage = "continuous" /\ pc = "idle" /\ ~job.calling /\ job.left = 0
      /\ job' = [Enter("source") EXCEPT !.continuous = Execution]
      /\ Load(given)
      /\ UNCHANGED <<operator, answers, given, report, observed, verdict, witness>>
  BY DEF KeepContinuous, Finished, Working
<1>2. job # NoJob
  BY <1>1 DEF NoJob
<1>3. Busy /\ Checking
  BY <1>2 DEF JobInv
<1>4. PICK request : request = job.request
  OBVIOUS
<1>5. PICK e : e = given
  OBVIOUS
<1> DEFINE n == request.call.total
           m == request.call.split
           size == request.call.size
<1>6. job' = [request |-> request, accepted |-> job.accepted, stage |-> "source",
              left |-> m, calling |-> job.calling, previous |-> job.previous,
              synchronized |-> job.synchronized, depths |-> job.depths,
              continuous |-> Execution, saved |-> job.saved, primed |-> job.primed,
              states |-> job.states, restarted |-> job.restarted]
  BY <1>1, <1>3, <1>4, EntryFields DEF Attempts
<1>7. job' # NoJob
  <2>1. job'.stage # "none"
    BY <1>6
  <2>2. QED
    BY <2>1 DEF NoJob
<1>8. Fit(e) /\ Execution' = e /\ pc' = "idle"
  BY <1>1, <1>3, <1>5, LoadExecution DEF Busy, Fit
<1>9. Settled'
  BY <1>1, <1>5, <1>8, SettledLoads DEF Settled
<1>10. Busy'
  <2>1. Encodable(given)' /\ Fit(given)'
    BY <1>1, <1>3 DEF Busy, Encodable
  <2>2. QED
    BY <1>1, <1>3, <1>4, <1>6, <2>1 DEF Busy
<1>11. n \in Nat /\ m \in Nat /\ job.request.call.check = "Restart"
  BY <1>1, <1>3, <1>4, StageOf, RequestAssumption DEF Busy
<1>12. PICK tr, wt, rt : RestartJob(tr, wt, rt)
  BY <1>3, <1>11 DEF Checking
<1>13. Continuous(tr, n) /\ 0 < m /\ m < n /\ tr[0] = e
  BY <1>1, <1>4, <1>5, <1>12 DEF RestartJob, Source, Restoring, Restarting
<1>14. Chain(tr, n, size) /\ Execution = tr[n] /\ Follows(job.states, tr, n)
  BY <1>1, <1>4, <1>11, <1>13 DEF Continuous, At, Size
<1>15. RanOn(tr, n)'
  <2>1. Chain(tr, n, size)'
    BY <1>1, <1>14, ChainKept
  <2>2. QED
    BY <1>6, <1>14, <2>1 DEF RanOn, Follows, Size
<1> DEFINE w == [k \in {0} |-> e]
<1>16. Chain(w, 0, size)' /\ w[0] = e
  <2>1. Chain(w, 0, size) /\ w[0] = e
    BY <1>8, ChainBegins
  <2>2. QED
    BY <1>1, <2>1, ChainKept
<1> HIDE DEF w
<1>17. Follows(job'.restarted, w, 0)
  BY <1>5, <1>6, <1>8, <1>13, <1>16, FitValues DEF Continuous, Follows
<1>18. Source(w, m)'
  <2>1. At(e, "accept")'
    BY <1>1, <1>6, <1>8 DEF At
  <2>2. job'.left = m /\ m - m = 0 /\ m \in 0 .. m /\ job'.stage = "source"
    BY <1>6, <1>11
  <2>3. Follows(job.restarted, w, 0)'
    BY <1>17 DEF Follows
  <2>4. QED
    BY <1>6, <1>16, <2>1, <2>2, <2>3 DEF Source, Size
<1>19. RestartJob(tr, w, rt)'
  BY <1>1, <1>5, <1>6, <1>13, <1>15, <1>16, <1>18 DEF RestartJob
<1>20. QED
  BY <1>2, <1>4, <1>6, <1>7, <1>9, <1>10, <1>11, <1>19 DEF JobInv, Checking

LEMMA EncodeKeeps ==
  ASSUME Settled, JobInv, Finished("source"), Encodable(Execution),
         job' = [Enter("restoring") EXCEPT !.saved = Decoded(Execution)],
         Load(given),
         UNCHANGED <<operator, answers, given, report, observed, verdict, witness>>
  PROVE  Settled' /\ JobInv' /\ job # NoJob /\ job' # NoJob
<1>1. job.stage = "source" /\ pc = "idle" /\ ~job.calling /\ job.left = 0
  BY DEF Finished, Working
<1>2. job # NoJob
  BY <1>1 DEF NoJob
<1>3. Busy /\ Checking
  BY <1>2 DEF JobInv
<1>4. PICK request : request = job.request
  OBVIOUS
<1>5. PICK e : e = given
  OBVIOUS
<1> DEFINE n == request.call.total
           m == request.call.split
           size == request.call.size
<1>6. job' = [request |-> request, accepted |-> job.accepted, stage |-> "restoring",
              left |-> 1, calling |-> job.calling, previous |-> job.previous,
              synchronized |-> job.synchronized, depths |-> job.depths,
              continuous |-> job.continuous, saved |-> Decoded(Execution),
              primed |-> job.primed, states |-> job.states, restarted |-> job.restarted]
  BY <1>1, <1>3, <1>4, EntryFields DEF Attempts
<1>7. job' # NoJob
  <2>1. job'.stage # "none"
    BY <1>6
  <2>2. QED
    BY <2>1 DEF NoJob
<1>8. Fit(e) /\ Execution' = e /\ pc' = "idle"
  BY <1>1, <1>3, <1>5, LoadExecution DEF Busy, Fit
<1>9. Settled'
  BY <1>1, <1>5, <1>8, SettledLoads DEF Settled
<1>10. Busy'
  <2>1. Encodable(given)' /\ Fit(given)'
    BY <1>1, <1>3 DEF Busy, Encodable
  <2>2. QED
    BY <1>1, <1>3, <1>4, <1>6, <2>1 DEF Busy
<1>11. n \in Nat /\ m \in Nat /\ job.request.call.check = "Restart"
  BY <1>1, <1>3, <1>4, StageOf, RequestAssumption DEF Busy
<1>12. PICK tr, wt, rt : RestartJob(tr, wt, rt)
  BY <1>3, <1>11 DEF Checking
<1>13. Source(wt, m) /\ RanOn(tr, n) /\ 0 < m /\ m < n /\ tr[0] = e /\ wt[0] = e
  BY <1>1, <1>4, <1>5, <1>12 DEF RestartJob, Continuous, Restoring, Restarting
<1>14. Chain(wt, m, size) /\ Execution = wt[m] /\ Follows(job.restarted, wt, m)
  BY <1>1, <1>4, <1>11, <1>13 DEF Source, At, Size
<1>15. RanOn(tr, n)'
  <2>1. Chain(tr, n, size)'
    BY <1>4, <1>13, ChainKept DEF RanOn, Size
  <2>2. QED
    BY <1>6, <1>13, <2>1 DEF RanOn, Follows, Size
<1>16. Restoring(wt, m)'
  <2>1. At(given, "accept")'
    BY <1>1, <1>5, <1>6, <1>8 DEF At
  <2>2. Chain(wt, m, size)'
    BY <1>14, ChainKept
  <2>3. (job.saved = Decoded(wt[m]))'
    <3>1. job'.saved = Decoded(wt[m])
      BY <1>6, <1>14
    <3>2. Decoded(wt[m])' = Decoded(wt[m])
      BY DEF Decoded, Read, ReadAll
    <3>3. QED
      BY <3>1, <3>2
  <2>4. Follows(job.restarted, wt, m)'
    BY <1>6, <1>14 DEF Follows
  <2>5. Encodable(wt[m])'
    BY <1>14 DEF Encodable
  <2>6. QED
    BY <1>1, <1>6, <2>1, <2>2, <2>3, <2>4, <2>5 DEF Restoring, Size
<1>17. RestartJob(tr, wt, rt)'
  BY <1>5, <1>6, <1>13, <1>15, <1>16 DEF RestartJob
<1>18. QED
  BY <1>2, <1>4, <1>6, <1>7, <1>9, <1>10, <1>11, <1>17 DEF JobInv, Checking

(* A checkpoint that has been encoded and decoded can be restored.          *)
LEMMA SavedRestorable ==
  ASSUME Settled, JobInv, Working({"restoring"})
  PROVE  /\ Exec!Restorable(job.saved)
         /\ job.saved.state \in Exec!Sim!Checkpoint
         /\ Stated(job.saved.integrator)
<1>1. job.stage = "restoring" /\ pc = "idle"
  BY DEF Working
<1>2. Busy /\ Checking
  BY <1>1 DEF JobInv, NoJob
<1>3. job.request.call.check = "Restart" /\ job.request.call.split \in Nat
  BY <1>1, <1>2, StageOf, RequestAssumption DEF Busy
<1>4. PICK m \in Nat : m = job.request.call.split
  BY <1>3
<1>5. PICK tr, wt, rt : RestartJob(tr, wt, rt)
  BY <1>2, <1>3 DEF Checking
<1>6. Restoring(wt, m) /\ wt[0] = given
  BY <1>1, <1>4, <1>5 DEF RestartJob, Continuous, Source, Restarting
<1>7. Fit(wt[m]) /\ Kept(wt[m], wt[0], m) /\ job.saved = Decoded(wt[m]) /\ Execution = given
  BY <1>4, <1>6 DEF Restoring, Chain, At
<1>8. operator.parse \in [Vals -> Vals]
  BY DEF Settled
<1>9. Exec!Restorable(job.saved)
  <2>1. \A s \in Slots : wt[m].committed[s] = given.committed[s]
    BY <1>6, <1>7 DEF Kept
  <2>2. given.phase = "Committed"
    BY <1>2 DEF Busy, Fit, Sound
  <2>3. PICK g, e : g = given /\ e = wt[m]
    OBVIOUS
  <2>4. Exec!Restorable(Decoded(e))
    BY <1>7, <1>8, <2>1, <2>2, <2>3, DecodedRestorable
  <2>5. QED
    BY <1>7, <2>3, <2>4
<1>10. job.saved.state \in Exec!Sim!Checkpoint
  BY <1>7, <1>8, DecodedFits
<1>11. Stated(job.saved.integrator)
  BY <1>7 DEF Decoded, Stated
<1>12. QED
  BY <1>9, <1>10, <1>11

LEMMA ResumeKeeps ==
  ASSUME Settled, JobInv, Resume
  PROVE  Settled' /\ JobInv' /\ job # NoJob /\ job' # NoJob /\ UNCHANGED <<report, verdict>>
<1>1. /\ job.stage = "restoring" /\ pc = "idle" /\ Working({"restoring"})
  BY DEF Resume, Working
<1>2. /\ Exec!Restorable(job.saved)
      /\ job.saved.state \in Exec!Sim!Checkpoint
      /\ Stated(job.saved.integrator)
  BY <1>1, SavedRestorable
<1>3. /\ Exec!Restore(job.saved)
      /\ job' = Enter("restarted")
      /\ UNCHANGED <<operator, answers, given, report, observed, verdict, witness>>
  BY <1>2 DEF Resume
<1>4. job # NoJob
  BY <1>1 DEF NoJob
<1>5. Busy /\ Checking
  BY <1>4 DEF JobInv
<1>6. PICK request : request = job.request
  OBVIOUS
<1>7. PICK e : e = given
  OBVIOUS
<1>8. PICK c : c = job.saved
  OBVIOUS
<1> DEFINE n == request.call.total
           m == request.call.split
           size == request.call.size
<1>9. job' = [request |-> request, accepted |-> job.accepted, stage |-> "restarted",
              left |-> n - m, calling |-> job.calling, previous |-> job.previous,
              synchronized |-> job.synchronized, depths |-> job.depths,
              continuous |-> job.continuous, saved |-> job.saved,
              primed |-> job.primed, states |-> job.states, restarted |-> job.restarted]
  BY <1>3, <1>5, <1>6, EntryFields DEF Attempts
<1>10. job' # NoJob
  <2>1. job'.stage # "none"
    BY <1>9
  <2>2. QED
    BY <2>1 DEF NoJob
<1>11. n \in Nat /\ m \in Nat /\ job.request.call.check = "Restart"
  BY <1>1, <1>5, <1>6, StageOf, RequestAssumption DEF Busy
<1>12. PICK tr, wt, rt : RestartJob(tr, wt, rt)
  BY <1>5, <1>11 DEF Checking
<1>13. Restoring(wt, m) /\ RanOn(tr, n) /\ 0 < m /\ m < n /\ tr[0] = e /\ wt[0] = e
  BY <1>1, <1>6, <1>7, <1>12 DEF RestartJob, Continuous, Source, Restarting
<1>14. ~job.calling /\ Execution = e /\ Chain(wt, m, size) /\ c = Decoded(wt[m])
       /\ Follows(job.restarted, wt, m)
  BY <1>6, <1>7, <1>8, <1>13 DEF Restoring, At, Size
<1>15. Clone!Inv'
  <2>1. Clone!Inv
    BY DEF Settled
  <2>2. QED
    BY <1>2, <1>3, <2>1, CloneRestores
<1>16. /\ phase' = "Committed" /\ trial' = [i \in Ids |-> None]
       /\ committed' = c.state.committed /\ history' = c.state.history
       /\ historyLimit' = c.state.historyLimit /\ time' = c.state.time /\ step' = c.state.step
       /\ integrator' = c.integrator /\ refusals' = refusals /\ pc' = "idle"
  BY <1>1, <1>2, <1>3, <1>8 DEF Exec!Restore, Exec!Sim!Restore, Exec!Sim!NoTrial, Exec!Sim!Ids,
     Exec!Sim!Blocks, Ids, Blocks
<1>17. PICK t : t = Execution'
  OBVIOUS
<1>18. t = Resumed(e, c)
  <2>1. refusals = e.refusals
    BY <1>14 DEF Execution
  <2>2. QED
    BY <1>16, <1>17, <2>1 DEF Execution, Resumed
<1>19. Settled'
  BY <1>2, <1>3, <1>8, <1>10, <1>15, <1>16 DEF Settled
<1>20. Fit(t)
  <2>1. Sound(Execution)'
    BY <1>15, <1>16, SoundOnReturn
  <2>2. Agreed(t)
    BY <1>2, <1>8, <1>18 DEF Exec!Restorable, Agreed, Resumed
  <2>3. Stated(t.integrator)
    BY <1>2, <1>8, <1>18 DEF Resumed
  <2>4. QED
    BY <1>17, <2>1, <2>2, <2>3 DEF Fit
<1>21. Busy'
  <2>1. Encodable(given)' /\ Fit(given)'
    BY <1>3, <1>5 DEF Busy, Encodable
  <2>2. QED
    BY <1>3, <1>5, <1>6, <1>9, <1>14, <2>1 DEF Busy
<1>22. RanOn(tr, n)'
  <2>1. Chain(tr, n, size)'
    BY <1>3, <1>6, <1>13, ChainKept DEF RanOn, Size
  <2>2. QED
    BY <1>9, <1>13, <2>1 DEF RanOn, Follows, Size
<1> DEFINE r == [k \in {0} |-> t]
<1>23. Chain(r, 0, size)' /\ r[0] = t
  <2>1. Chain(r, 0, size) /\ r[0] = t
    BY <1>20, ChainBegins
  <2>2. QED
    BY <1>3, <2>1, ChainKept
<1> HIDE DEF r
<1>24. Restarting(wt, m, r, n - m)'
  <2>1. At(t, "accept")'
    BY <1>9, <1>14, <1>16, <1>17 DEF At
  <2>2. Chain(wt, m, size)'
    BY <1>3, <1>14, ChainKept
  <2>3. (job.saved = Decoded(wt[m]))'
    <3>1. job'.saved = Decoded(wt[m])
      BY <1>8, <1>9, <1>14
    <3>2. Decoded(wt[m])' = Decoded(wt[m])
      BY <1>3 DEF Decoded, Read, ReadAll
    <3>3. QED
      BY <3>1, <3>2
  <2>4. (r[0] = Resumed(given, job.saved))'
    BY <1>3, <1>7, <1>8, <1>9, <1>18, <1>23 DEF Resumed
  <2>5. job'.left = n - m /\ (n - m) - (n - m) = 0 /\ n - m \in 0 .. n - m
        /\ job'.stage = "restarted"
    BY <1>9, <1>11, <1>13
  <2>6. Rejoins(job'.restarted, wt, m, r, 0)
    <3>1. Follows(job'.restarted, wt, m) /\ m + 0 + 1 = m + 1
      BY <1>9, <1>11, <1>14
    <3>2. QED
      BY <3>1 DEF Rejoins, Follows
  <2>7. Rejoins(job.restarted, wt, m, r, 0)'
    BY <2>6 DEF Rejoins
  <2>8. job'.request = request
    BY <1>9
  <2>9. Encodable(wt[m])'
    BY <1>13 DEF Restoring, Encodable
  <2>10. QED
    BY <1>23, <2>1, <2>2, <2>3, <2>4, <2>5, <2>7, <2>8, <2>9 DEF Restarting, Size
<1>25. RestartJob(tr, wt, r)'
  BY <1>3, <1>7, <1>9, <1>13, <1>22, <1>24 DEF RestartJob
<1>26. QED
  BY <1>3, <1>4, <1>6, <1>9, <1>10, <1>11, <1>19, <1>21, <1>25 DEF JobInv, Checking

LEMMA PrimeKeeps ==
  ASSUME Settled, JobInv, Finished("accepting"), Encodable(Execution),
         job' = [Enter("probing") EXCEPT
                   !.primed = Execution,
                   !.depths = [b \in Blocks |-> Len(history[b])],
                   !.synchronized = @ /\ \A b \in Blocks :
                       Len(history[b]) = ExpectedDepth(job.request.call.total)],
         UNCHANGED <<clone, operator, answers, given, report, observed, verdict, witness>>
  PROVE  Settled' /\ JobInv' /\ job # NoJob /\ job' # NoJob
<1>1. job.stage = "accepting" /\ pc = "idle" /\ ~job.calling /\ job.left = 0
  BY DEF Finished, Working
<1>2. job # NoJob
  BY <1>1 DEF NoJob
<1>3. Busy /\ Checking
  BY <1>2 DEF JobInv
<1>4. PICK request : request = job.request
  OBVIOUS
<1> DEFINE n == request.call.total
           size == request.call.size
<1>a. PICK j : j = Enter("probing") /\
          j = [request |-> request, accepted |-> job.accepted, stage |-> "probing",
               left |-> 1, calling |-> job.calling, previous |-> job.previous,
               synchronized |-> job.synchronized, depths |-> job.depths,
               continuous |-> job.continuous, saved |-> job.saved, primed |-> job.primed,
               states |-> job.states, restarted |-> job.restarted]
  BY <1>3, <1>4, EntryFields DEF Attempts
<1>b. job' = [j EXCEPT
                !.primed = Execution,
                !.depths = [b \in Blocks |-> Len(history[b])],
                !.synchronized = @ /\ \A b \in Blocks : Len(history[b]) = ExpectedDepth(n)]
  BY <1>4, <1>a
<1>5. /\ job'.request = request /\ job'.accepted = job.accepted
      /\ job'.stage = "probing" /\ job'.left = 1 /\ job'.calling = job.calling
  BY <1>a, <1>b
<1>c. job'.primed = Execution
  BY <1>a, <1>b
<1>d. job'.depths = [b \in Blocks |-> Len(history[b])]
  BY <1>a, <1>b
<1>e. job'.synchronized =
        (job.synchronized /\ \A b \in Blocks : Len(history[b]) = ExpectedDepth(n))
  <2>1. j = [request |-> j.request, accepted |-> j.accepted, stage |-> j.stage,
             left |-> j.left, calling |-> j.calling, previous |-> j.previous,
             synchronized |-> j.synchronized, depths |-> j.depths,
             continuous |-> j.continuous, saved |-> j.saved, primed |-> j.primed,
             states |-> j.states, restarted |-> j.restarted]
        /\ j.synchronized = job.synchronized
    BY <1>a
  <2>2. job'.synchronized =
          (j.synchronized /\ \A b \in Blocks : Len(history[b]) = ExpectedDepth(n))
    BY <1>b, <2>1
  <2>3. QED
    BY <2>1, <2>2
<1>f. job' = [request |-> job'.request, accepted |-> job'.accepted, stage |-> job'.stage,
              left |-> job'.left, calling |-> job'.calling, previous |-> job'.previous,
              synchronized |-> job'.synchronized, depths |-> job'.depths,
              continuous |-> job'.continuous, saved |-> job'.saved,
              primed |-> job'.primed, states |-> job'.states,
              restarted |-> job'.restarted]
  BY <1>a, <1>b
<1>6. job' # NoJob
  BY <1>5 DEF NoJob
<1>7. Settled'
  BY <1>1, <1>6, SettledSteps DEF Settled, clone
<1>8. Busy'
  <2>1. Encodable(given)' /\ Fit(given)'
    BY <1>3 DEF Busy, Encodable
  <2>2. QED
    BY <1>1, <1>3, <1>4, <1>5, <1>f, <2>1 DEF Busy
<1>9. n \in Nat /\ job.request.call.check = "History"
  BY <1>1, <1>3, <1>4, StageOf, RequestAssumption DEF Busy
<1>10. PICK tr : HistoryJob(tr)
  BY <1>3, <1>9 DEF Checking
<1>11. Accepting(tr, n) /\ tr[0] = given /\ n # 0
  BY <1>1, <1>4, <1>10 DEF HistoryJob, Probing
<1>12. Chain(tr, n, size) /\ Execution = tr[n] /\ job.synchronized
  BY <1>1, <1>4, <1>9, <1>11 DEF Accepting, At, Size
<1>13. history = tr[n].history /\ historyLimit = given.historyLimit
  BY <1>9, <1>11, <1>12 DEF Execution, Chain, Kept
<1>14. Probing(tr, n)'
  <2>1. Chain(tr, n, size)'
    BY <1>12, ChainKept
  <2>2. Encodable(tr[n])'
    BY <1>12 DEF Encodable
  <2>3. job'.synchronized =
          (\A b \in Blocks : Len(tr[n].history[b]) = Capped(n, given'.historyLimit))
    BY <1>e, <1>12, <1>13 DEF ExpectedDepth, Capped
  <2>4. At(tr[n], "probe")'
    BY <1>1, <1>5, <1>12 DEF At, clone, Execution
  <2>5. job'.primed = tr[n] /\ job'.depths = [b \in Blocks |-> Len(tr[n].history[b])]
    BY <1>c, <1>d, <1>12, <1>13
  <2>6. QED
    BY <1>5, <2>1, <2>2, <2>3, <2>4, <2>5 DEF Probing, Size
<1>15. HistoryJob(tr)'
  BY <1>5, <1>11, <1>14 DEF HistoryJob
<1>16. QED
  BY <1>2, <1>4, <1>5, <1>6, <1>7, <1>8, <1>9, <1>15 DEF JobInv, Checking

----------------------------------------------------------------------------
(* The reports.                                                             *)

LEMMA EntryTyped ==
  ASSUME NEW S, NEW q \in Seq(S), NEW k \in 1 .. Len(q)
  PROVE  q[k] \in S
OBVIOUS

(* What the attempt of a probe shows: it moved no step exactly if it was not*)
(* accepted, and then it left the bytes as they were; what it logged is     *)
(* what the report tells of.                                                *)
LEMMA ProbeShows ==
  ASSUME NEW CONSTANT s, NEW CONSTANT t, Fit(s), At(s, "probe"), job.calling, pc = "idle",
         t = Execution, Encodable(t), Settled
  PROVE  /\ t.step = s.step <=> Disposition # "UnexpectedAccepted"
         /\ t.step = s.step \/ t.step = s.step + 1
         /\ t.step = s.step => Bytes(s) = Bytes(t)
         /\ AttemptRefusal # None <=> Len(t.refusals) > Len(s.refusals)
         /\ AttemptRefusal # None => AttemptRefusal = Last(t.refusals)
<1>1. PICK o : Execution = After(s, o) /\ result = Result(s, o)
  BY AtEnds
<1>2. Agreed(t) /\ Agreed(After(s, o))
  BY <1>1 DEF Encodable, Agreed
<1>3. s.step \in Nat /\ s.refusals \in Seq([time : Times, size : StepSizes])
      /\ t.refusals \in Seq([time : Times, size : StepSizes])
  <2>1. Sound(t)
    BY SoundWhenIdle DEF Settled
  <2>2. QED
    BY <2>1 DEF Fit, Sound
<1>4. CASE Result(s, o) = "Accepted"
  <2>1. t.step = s.step + 1 /\ t.refusals = s.refusals
    BY <1>1, <1>4, AcceptedAttempt DEF Fit
  <2>2. Disposition = "UnexpectedAccepted" /\ AttemptRefusal = None
    BY <1>1, <1>4 DEF Disposition, AttemptRefusal
  <2>3. QED
    BY <1>3, <2>1, <2>2
<1>5. CASE Result(s, o) # "Accepted"
  <2>1. /\ Bytes(t) = Bytes(s) /\ t.step = s.step
        /\ result \in {"Rejected", "Refused", "Err"}
        /\ IF result = "Refused"
           THEN t.refusals = Append(s.refusals, [time |-> s.time, size |-> o.size])
           ELSE t.refusals = s.refusals
    BY <1>1, <1>2, <1>5, FailedAttempt
  <2>2. Disposition # "UnexpectedAccepted"
    BY <2>1 DEF Disposition
  <2>3. CASE result # "Refused"
    BY <1>3, <2>1, <2>2, <2>3 DEF AttemptRefusal
  <2>4. CASE result = "Refused"
    <3> DEFINE entry == [time |-> s.time, size |-> o.size]
    <3>1. t.refusals = Append(s.refusals, entry) /\ AttemptRefusal = Last(t.refusals)
      BY <1>1, <2>1, <2>4 DEF AttemptRefusal, Execution
    <3>2. /\ entry \in [time : Times, size : StepSizes]
          /\ Len(t.refusals) = Len(s.refusals) + 1
          /\ Last(t.refusals) = entry
      <4> HIDE DEF entry
      <4>1. Len(s.refusals) \in Nat
        BY <1>3
      <4>2. Len(t.refusals) = Len(s.refusals) + 1 /\ t.refusals[Len(s.refusals) + 1] = entry
        BY <1>3, <3>1
      <4>3. Last(t.refusals) = entry
        BY <4>1, <4>2 DEF Last
      <4>4. t.refusals[Len(s.refusals) + 1] \in [time : Times, size : StepSizes]
        <5>1. Len(s.refusals) + 1 \in 1 .. Len(t.refusals)
          BY <4>1, <4>2
        <5>2. QED
          BY <1>3, <5>1, EntryTyped
      <4>5. QED
        BY <4>2, <4>3, <4>4
    <3>3. AttemptRefusal # None
      BY <3>1, <3>2, MarkerAssumption
    <3>4. QED
      BY <1>3, <2>1, <2>2, <3>1, <3>2, <3>3
  <2>5. QED
    BY <2>3, <2>4
<1>6. QED
  BY <1>4, <1>5

(* The end of a rollback check.                                             *)
LEMMA RollbackConcludes ==
  ASSUME Settled, JobInv, Working({"probing"}), job.calling, Encodable(Execution),
         job.request.call.check = "Rollback", Conclude(RollbackReport), observed = None
  PROVE  RollbackVerdict'
<1>1. job.stage = "probing" /\ pc = "idle"
  BY DEF Working
<1>2. Busy /\ Checking
  BY <1>1 DEF JobInv, NoJob
<1>3. PICK e : e = given
  OBVIOUS
<1>4. PICK t : t = Execution
  OBVIOUS
<1>5. Fit(e) /\ At(e, "probe")
  BY <1>2, <1>3 DEF Busy, Checking, RollbackJob
<1>6. /\ t.step = e.step <=> Disposition # "UnexpectedAccepted"
      /\ t.step = e.step => Bytes(e) = Bytes(t)
      /\ AttemptRefusal # None <=> Len(t.refusals) > Len(e.refusals)
      /\ AttemptRefusal # None => AttemptRefusal = Last(t.refusals)
  BY <1>1, <1>4, <1>5, ProbeShows
<1>7. job.accepted <=> Supported(job.request.evidence)
  BY <1>2, BoundSupports DEF Busy
<1>8. /\ report' = RollbackReport /\ witness'.end = t /\ step' = e.step
      /\ refusals' = e.refusals /\ operator' = operator
  BY <1>3, <1>4 DEF Conclude, Answer, Load
<1>9. /\ report'.identical <=> Bytes(e) = Bytes(t)
      /\ report'.passed <=> /\ job.accepted
                            /\ Disposition # "UnexpectedAccepted"
                            /\ Bytes(e) = Bytes(t)
      /\ report'.refusal = AttemptRefusal
      /\ report'.request = job.request
  BY <1>3, <1>4, <1>8 DEF RollbackReport
<1>10. /\ witness'.end.step = step' => report'.identical
       /\ report'.passed <=>
            witness'.end.step = step' /\ Supported(report'.request.evidence)
       /\ report'.refusal # None <=> Len(witness'.end.refusals) > Len(refusals')
       /\ report'.refusal # None => report'.refusal = Last(witness'.end.refusals)
  BY <1>6, <1>7, <1>8, <1>9
<1>11. QED
  BY <1>10 DEF RollbackVerdict

(* The end of a history check.                                              *)
LEMMA HistoryConcludes ==
  ASSUME Settled, JobInv, Working({"probing"}), job.calling, Encodable(Execution),
         job.request.call.check = "History", Conclude(HistoryReport), observed = None
  PROVE  HistoryVerdict'
<1>1. job.stage = "probing" /\ pc = "idle"
  BY DEF Working
<1>2. Busy /\ Checking
  BY <1>1 DEF JobInv, NoJob
<1>3. PICK e : e = given
  OBVIOUS
<1>4. PICK t : t = Execution
  OBVIOUS
<1>5. PICK n \in Nat : n = job.request.call.total
  BY <1>2, RequestAssumption DEF Busy
<1>6. PICK tr : HistoryJob(tr)
  BY <1>2 DEF Checking
<1>7. Probing(tr, n) /\ tr[0] = e
  BY <1>1, <1>3, <1>5, <1>6 DEF HistoryJob, Accepting
<1>8. Fit(tr[n]) /\ Kept(tr[n], e, n) /\ At(tr[n], "probe") /\ job.primed = tr[n] /\ Fit(e)
  BY <1>2, <1>3, <1>7 DEF Probing, Chain, Busy
<1>9. /\ t.step = tr[n].step <=> Disposition # "UnexpectedAccepted"
      /\ t.step = tr[n].step => Bytes(tr[n]) = Bytes(t)
  BY <1>1, <1>4, <1>8, ProbeShows
<1>10. job.accepted <=> Supported(job.request.evidence)
  BY <1>2, BoundSupports DEF Busy
<1>11. job.synchronized <=>
         \A b \in Blocks : Capped(Len(e.history[b]) + n, e.historyLimit)
                             = Capped(n, e.historyLimit)
  BY <1>3, <1>7, <1>8 DEF Probing, Kept
<1>12. /\ report' = HistoryReport /\ witness'.end = t /\ step' = e.step
       /\ history' = e.history /\ historyLimit' = e.historyLimit
  BY <1>3, <1>4 DEF Conclude, Answer, Load
<1>13. /\ report'.passed <=> /\ job.accepted
                             /\ job.synchronized
                             /\ Disposition # "UnexpectedAccepted"
                             /\ Bytes(tr[n]) = Bytes(t)
       /\ report'.request = job.request
  BY <1>4, <1>8, <1>12 DEF HistoryReport
<1>14. tr[n].step = e.step + n
  BY <1>8 DEF Kept
<1>15. report'.passed <=>
         /\ Supported(report'.request.evidence)
         /\ witness'.end.step = step' + report'.request.call.total
         /\ \A b \in Blocks : Capped(Len(history'[b]) + report'.request.call.total, historyLimit')
                                = Capped(report'.request.call.total, historyLimit')
  BY <1>5, <1>9, <1>10, <1>11, <1>12, <1>13, <1>14
<1>16. QED
  BY <1>15 DEF HistoryVerdict, Capped

(* Over a pure operator the restarted steps are those of the execution that *)
(* ran on, as far as the checkpoint; behind it too if the decoder is exact. *)
LEMMA RestartsAlike ==
  ASSUME Settled, Busy, operator.pure, NEW tr, NEW wt, NEW n \in Nat, NEW m \in Nat, NEW k \in Nat,
         m < n, k <= m, Chain(tr, n, Size), Chain(wt, k, Size), tr[0] = given, wt[0] = given
  PROVE  \A i \in 0 .. k : wt[i] = tr[i]
<1>1. \A i \in 0 .. k : 0 + i <= n => wt[i] = tr[0 + i]
  BY ChainsAgree
<1>2. QED
  BY <1>1

LEMMA ResumesAlike ==
  ASSUME Settled, Busy, operator.pure, RoundTrips, NEW tr, NEW wt, NEW rt,
         NEW n \in Nat, NEW m \in Nat, NEW k \in Nat, m < n, k <= n - m,
         Chain(tr, n, Size), Chain(wt, m, Size), tr[0] = given, wt[0] = given,
         job.saved = Decoded(wt[m]), rt[0] = Resumed(given, job.saved), Chain(rt, k, Size)
  PROVE  /\ \A i \in 0 .. m : wt[i] = tr[i]
         /\ \A i \in 0 .. k : rt[i] = tr[m + i]
<1>1. \A i \in 0 .. m : wt[i] = tr[i]
  BY RestartsAlike
<1>2. Fit(wt[m]) /\ Kept(wt[m], given, m)
  BY DEF Chain
<1>3. rt[0] = wt[m]
  BY <1>2, DecodedSame DEF Kept
<1>4. tr[m] = rt[0]
  BY <1>1, <1>3
<1>5. \A i \in 0 .. k : m + i <= n => rt[i] = tr[m + i]
  BY <1>4, ChainsAgree
<1>6. QED
  BY <1>1, <1>5

(* Numbers that are the same agree.                                         *)
LEMMA TrajectoriesAgree ==
  ASSUME NEW states, NEW restarted, NEW tr, NEW wt, NEW rt, NEW n \in Nat, NEW m \in Nat, m < n,
         Follows(states, tr, n), Rejoins(restarted, wt, m, rt, n - m),
         \A i \in 0 .. m : wt[i] = tr[i],
         \A i \in 0 .. n - m : rt[i] = tr[m + i]
  PROVE  \A k \in DOMAIN states : states[k] = restarted[k]
<1>1. DOMAIN states = 1 .. n + 1
  BY DEF Follows
<1>2. ASSUME NEW k \in 1 .. n + 1
      PROVE  states[k] = restarted[k]
  <2>1. states[k] = tr[k - 1].integrator.values
    BY DEF Follows
  <2>2. CASE k <= m + 1
    <3>1. k \in 1 .. m + 1 /\ k - 1 \in 0 .. m
      BY <2>2
    <3>2. restarted[k] = wt[k - 1].integrator.values
      BY <3>1 DEF Rejoins
    <3>3. QED
      BY <2>1, <3>1, <3>2
  <2>3. CASE k > m + 1
    <3>1. PICK i : i = k - (m + 1)
      OBVIOUS
    <3>2. i \in 1 .. n - m /\ i \in 0 .. n - m /\ m + 1 + i = k /\ m + i = k - 1
      BY <2>3, <3>1
    <3>3. restarted[m + 1 + i] = rt[i].integrator.values
      BY <3>2 DEF Rejoins
    <3>4. QED
      BY <2>1, <3>2, <3>3
  <2>4. QED
    BY <2>2, <2>3
<1>3. QED
  BY <1>1, <1>2

(* The end of a restart check.                                              *)
LEMMA RestartConcludes ==
  ASSUME Settled, JobInv, Finished("restarted"), Conclude(RestartReport), observed = None,
         operator.pure, RoundTrips
  PROVE  report'.passed <=> Supported(report'.request.evidence)
<1>1. job.stage = "restarted" /\ pc = "idle" /\ ~job.calling /\ job.left = 0
  BY DEF Finished, Working
<1>2. Busy /\ Checking
  BY <1>1 DEF JobInv, NoJob
<1>3. job.request.call.check = "Restart"
  BY <1>1, <1>2, StageOf
<1>4. PICK n \in Nat : n = job.request.call.total
  BY <1>2, RequestAssumption DEF Busy
<1>5. PICK m \in Nat : m = job.request.call.split
  BY <1>2, RequestAssumption DEF Busy
<1>6. PICK tr, wt, rt : RestartJob(tr, wt, rt)
  BY <1>2, <1>3 DEF Checking
<1>7. m < n /\ tr[0] = given /\ RanOn(tr, n) /\ wt[0] = given /\ Restarting(wt, m, rt, n - m)
  BY <1>1, <1>4, <1>5, <1>6 DEF RestartJob, Continuous, Source, Restoring
<1>8. /\ Chain(tr, n, Size) /\ Chain(wt, m, Size) /\ Chain(rt, n - m, Size)
      /\ Execution = rt[n - m] /\ job.continuous = tr[n]
      /\ Follows(job.states, tr, n) /\ Rejoins(job.restarted, wt, m, rt, n - m)
      /\ job.saved = Decoded(wt[m]) /\ rt[0] = Resumed(given, job.saved)
  BY <1>1, <1>7 DEF RanOn, Restarting, At
<1>9. n - m \in Nat /\ n - m <= n - m
  BY <1>7
<1>10. /\ \A i \in 0 .. m : wt[i] = tr[i]
       /\ \A i \in 0 .. n - m : rt[i] = tr[m + i]
  BY <1>2, <1>7, <1>8, <1>9, ResumesAlike
<1>11. Agree
  <2>1. \A k \in DOMAIN job.states : job.states[k] = job.restarted[k]
    <3>1. PICK states, restarted : states = job.states /\ restarted = job.restarted
      OBVIOUS
    <3>2. Follows(states, tr, n) /\ Rejoins(restarted, wt, m, rt, n - m)
      BY <1>8, <3>1
    <3>3. \A k \in DOMAIN states : states[k] = restarted[k]
      BY <1>7, <1>10, <3>2, TrajectoriesAgree
    <3>4. QED
      BY <3>1, <3>3
  <2>2. QED
    BY <2>1 DEF Agree, SameNumbers
<1>12. Execution = job.continuous
  BY <1>8, <1>9, <1>10
<1>13. report' = RestartReport
  BY DEF Conclude, Answer
<1>14. report'.passed <=> job.accepted
  BY <1>11, <1>12, <1>13 DEF RestartReport
<1>15. report'.request = job.request
  BY <1>13 DEF RestartReport
<1>16. job.accepted <=> Supported(job.request.evidence)
  BY <1>2, BoundSupports DEF Busy
<1>17. QED
  BY <1>14, <1>15, <1>16

(* The steps of a restart are steps another execution has made.             *)
LEMMA RestartNeverRefused ==
  ASSUME Settled, JobInv, Working(Stepping), job.calling, operator.pure, RoundTrips,
         job.stage \in {"source", "restarted"}
  PROVE  result = "Accepted"
<1>1. pc = "idle" /\ Busy /\ Checking
  BY DEF Working, JobInv, NoJob
<1>2. job.request.call.check = "Restart"
  BY <1>1, StageOf
<1>3. PICK n \in Nat : n = job.request.call.total
  BY <1>1, RequestAssumption DEF Busy
<1>4. PICK m \in Nat : m = job.request.call.split
  BY <1>1, RequestAssumption DEF Busy
<1>5. PICK tr, wt, rt : RestartJob(tr, wt, rt)
  BY <1>1, <1>2 DEF Checking
<1>6. m < n /\ tr[0] = given /\ RanOn(tr, n) /\ wt[0] = given
      /\ (Source(wt, m) \/ Restarting(wt, m, rt, n - m))
  BY <1>3, <1>4, <1>5 DEF RestartJob, Continuous, Restoring
<1>7. job.left > 0
  BY <1>1 DEF Busy
<1>8. ASSUME NEW CONSTANT s, NEW i \in 0 .. n - 1, s = tr[i], At(s, "accept")
      PROVE  result = "Accepted"
  <2>1. PICK o : Came(s, o, Size, "accept") /\ result = Result(s, o)
    BY <1>1, <1>8, AtEnds
  <2>2. Linked(s, tr[i + 1], Size)
    BY <1>6, <1>8 DEF RanOn, Chain
  <2>3. QED
    BY <2>1, <2>2, LinksDetermine
<1>9. CASE Source(wt, m)
  <2>1. PICK k \in Nat : k = m - job.left
    BY <1>9 DEF Source
  <2>2. k <= m /\ k \in 0 .. n - 1 /\ Chain(wt, k, Size) /\ At(wt[k], "accept")
    BY <1>6, <1>7, <1>9, <2>1 DEF Source
  <2>3. \A i \in 0 .. k : wt[i] = tr[i]
    BY <1>1, <1>6, <2>2, RestartsAlike DEF RanOn
  <2>4. wt[k] = tr[k]
    BY <2>3
  <2>5. QED
    BY <1>8, <2>2, <2>4
<1>10. CASE Restarting(wt, m, rt, n - m)
  <2>1. PICK k \in Nat : k = (n - m) - job.left
    BY <1>6, <1>10 DEF Restarting
  <2>2. k <= n - m /\ m + k \in 0 .. n - 1 /\ Chain(rt, k, Size) /\ At(rt[k], "accept")
    BY <1>6, <1>7, <1>10, <2>1 DEF Restarting
  <2>3. \A i \in 0 .. k : rt[i] = tr[m + i]
    BY <1>1, <1>6, <1>10, <2>2, ResumesAlike DEF RanOn, Restarting
  <2>4. rt[k] = tr[m + k]
    BY <2>3
  <2>5. QED
    BY <1>8, <2>2, <2>4
<1>11. QED
  BY <1>6, <1>9, <1>10

----------------------------------------------------------------------------
(* The verdicts are kept.                                                   *)

Verdicts == RollbackVerdict /\ HistoryVerdict /\ RestartVerdict

(* What a report answers is what was asked for.                             *)
Asked == report # None => report.request \in Requests

VInv == Settled /\ JobInv /\ Asked /\ Verdicts

(* What a step does that makes no report: nothing is claimed of the verdicts*)
(* while a check is in progress, and after a report has been validated.     *)
LEMMA VerdictsElsewhere ==
  ASSUME Verdicts, UNCHANGED <<operator, report>>,
         \/ report = None
         \/ verdict' # None
         \/ job' # NoJob /\ report.check # "Refused"
  PROVE  Verdicts'
<1>1. UNCHANGED operator /\ UNCHANGED report
  OBVIOUS
<1>2. RollbackVerdict'
  BY <1>1 DEF RollbackVerdict, Reported
<1>3. HistoryVerdict'
  BY <1>1 DEF HistoryVerdict, Reported
<1>4. RestartVerdict'
  <2>1. (report # None => report.check # "Refused" \/ report.code # "Restore")'
    BY <1>1 DEF Verdicts, RestartVerdict
  <2>2. CASE report = None
    BY <1>1, <2>2 DEF RestartVerdict, Reported
  <2>3. CASE verdict' # None
    BY <2>1, <2>3 DEF RestartVerdict
  <2>4. CASE job' # NoJob /\ report.check # "Refused"
    BY <1>1, <2>1, <2>4 DEF RestartVerdict, Reported
  <2>5. QED
    BY <2>2, <2>3, <2>4
<1>5. QED
  BY <1>2, <1>3, <1>4 DEF Verdicts

(* A job that goes on.                                                      *)
LEMMA JobGoesOn ==
  ASSUME VInv, JobInv', job' # NoJob, UNCHANGED <<operator, report>>
  PROVE  Verdicts' /\ Asked'
<1>1. report' # None => report'.check # "Refused"
  BY DEF JobInv, Busy
<1>2. Verdicts
  BY DEF VInv
<1>3. report = None \/ report.check # "Refused"
  BY <1>1
<1>4. Asked'
  BY DEF VInv, Asked
<1>5. QED
  BY <1>2, <1>3, <1>4, VerdictsElsewhere

(* A check that ends in a refusal.                                          *)
LEMMA RefusedKeeps ==
  ASSUME VInv, job # NoJob, NEW code, code # "Restore", Refused(code),
         code = "Attempt" /\ operator.pure /\ RoundTrips
           => job.stage \in {"continuous", "accepting"}
  PROVE  VInv'
<1>1. Settled /\ Busy /\ Asked /\ Verdicts
  BY DEF VInv, JobInv
<1>2. PICK r : r = Refusal(job.request, code)
  OBVIOUS
<1>3. r.check = "Refused" /\ r.code = code /\ r.request \in Requests
  <2>1. r = [check |-> "Refused", request |-> job.request, code |-> code]
    BY <1>2 DEF Refusal
  <2>2. QED
    BY <1>1, <2>1 DEF Busy
<1>4. Conclude(r)
  BY <1>2 DEF Refused
<1>5. /\ Settled' /\ job' = NoJob
      /\ IF observed = None
         THEN report = None /\ report' = r /\ verdict' = None
         ELSE report' = report /\ verdict' # None
  BY <1>1, <1>3, <1>4, SettledConcludes
<1>6. JobInv' /\ Asked'
  BY <1>1, <1>3, <1>5 DEF JobInv, Asked
<1>7. UNCHANGED operator /\ witness'.stage = job.stage
  BY <1>4 DEF Conclude
<1>8. CASE observed # None
  BY <1>1, <1>5, <1>6, <1>7, <1>8, VerdictsElsewhere DEF VInv
<1>9. CASE observed = None
  <2>1. report' = r
    BY <1>5, <1>9
  <2>2. RollbackVerdict' /\ HistoryVerdict'
    BY <1>3, <2>1 DEF RollbackVerdict, HistoryVerdict, Reported
  <2>3. RestartVerdict'
    <3>1. (operator.pure /\ RoundTrips)' => operator.pure /\ RoundTrips
      BY <1>7 DEF RoundTrips
    <3>2. code = "Attempt" /\ (operator.pure /\ RoundTrips)'
            => witness'.stage \in {"continuous", "accepting"}
      BY <1>7, <3>1
    <3>3. (report # None => report.check # "Refused" \/ report.code # "Restore")'
      BY <1>3, <2>1
    <3>4. (operator.pure /\ RoundTrips)' /\ report'.check = "Refused" /\ report'.code = "Attempt"
            => witness'.stage \in {"continuous", "accepting"}
      BY <1>3, <2>1, <3>2
    <3>5. ~Reported("Restart")'
      BY <1>3, <2>1 DEF Reported
    <3>6. QED
      BY <3>3, <3>4, <3>5 DEF RestartVerdict
  <2>4. QED
    BY <1>5, <1>6, <2>2, <2>3 DEF VInv, Verdicts
<1>10. QED
  BY <1>8, <1>9

(* A check that ends in a report.                                           *)
LEMMA ReportKeeps ==
  ASSUME VInv, job # NoJob, NEW r, Conclude(r), r.check \in {"Rollback", "History", "Restart"},
         r.passed \in BOOLEAN, r.request = job.request,
         observed = None => Verdicts'
  PROVE  VInv'
<1>1. Settled /\ Busy /\ Asked /\ Verdicts
  BY DEF VInv, JobInv
<1>2. /\ Settled' /\ job' = NoJob
      /\ IF observed = None
         THEN report = None /\ report' = r /\ verdict' = None
         ELSE report' = report /\ verdict' # None
  BY <1>1, SettledConcludes
<1>3. JobInv' /\ Asked'
  BY <1>1, <1>2 DEF JobInv, Asked, Busy
<1>4. UNCHANGED operator
  BY DEF Conclude
<1>5. CASE observed # None
  BY <1>1, <1>2, <1>3, <1>4, <1>5, VerdictsElsewhere DEF VInv
<1>6. CASE observed = None
  BY <1>2, <1>3, <1>6 DEF VInv
<1>7. QED
  BY <1>5, <1>6

LEMMA VBegins == Init => VInv
<1> SUFFICES ASSUME Init PROVE VInv
  OBVIOUS
<1>1. Clone!Inv
  BY CloneBegins DEF Init
<1>2. /\ job = NoJob /\ report = None /\ observed = None /\ verdict = None /\ pc = "preparing"
      /\ operator.parse \in [Vals -> Vals]
  BY DecoderAssumption DEF Init, Exec!Init
<1>3. Settled
  BY <1>1, <1>2 DEF Settled
<1>4. Verdicts
  BY <1>2 DEF Verdicts, RollbackVerdict, HistoryVerdict, RestartVerdict, Reported
<1>5. QED
  BY <1>2, <1>3, <1>4 DEF VInv, JobInv, Asked

(* The caller works with its own execution.                                 *)
LEMMA CallerKeeps ==
  ASSUME VInv, Prepare \/ Step
  PROVE  VInv'
<1>1. Settled /\ Verdicts /\ Asked
  BY DEF VInv
<1>2. job = NoJob /\ report = None /\ UNCHANGED <<operator, harness>>
  BY <1>1 DEF Prepare, Step, Exec!Prepare, Exec!Create, Settled
<1>3. Settled'
  BY <1>1, <1>2, SettledSteps DEF Prepare, Step, harness, Settled
<1>4. Verdicts'
  BY <1>1, <1>2, VerdictsElsewhere DEF harness
<1>5. QED
  BY <1>2, <1>3, <1>4 DEF VInv, JobInv, Asked, harness

(* A step of a call in progress, the caller's or a job's.                   *)
LEMMA RunVerdicts ==
  ASSUME VInv, Run
  PROVE  VInv'
<1>1. Settled' /\ JobInv' /\ pc # "idle" /\ UNCHANGED <<operator, harness>>
  BY RunKeeps DEF VInv
<1>2. CASE job = NoJob
  <2>1. report = None
    BY <1>1, <1>2 DEF VInv, Settled
  <2>2. Verdicts'
    BY <1>1, <2>1, VerdictsElsewhere DEF VInv, harness
  <2>3. QED
    BY <1>1, <2>1, <2>2 DEF VInv, Asked, harness
<1>3. CASE job # NoJob
  BY <1>1, <1>3, JobGoesOn DEF VInv, harness
<1>4. QED
  BY <1>2, <1>3

(* A check begins.                                                          *)
LEMMA BeginKeeps ==
  ASSUME VInv, NEW CONSTANT request \in Requests, Begin(request)
  PROVE  VInv'
<1>1. Settled /\ JobInv /\ Verdicts /\ report = None /\ Open(request, None)
  BY DEF VInv, Begin
<1>2. /\ JobInv' /\ Settled'
      /\ report' # None => /\ job' = NoJob /\ verdict' = None
                           /\ report'.check = "Refused" /\ report'.request = request
                           /\ report'.code \in {"Input", "Sequence", "Source", "Evidence"}
  BY <1>1, OpensJob
<1>3. CASE report' = None
  <2>1. UNCHANGED operator
    BY <1>1 DEF Open
  <2>2. Verdicts'
    BY <1>1, <1>3, <2>1, VerdictsElsewhere
  <2>3. QED
    BY <1>2, <1>3, <2>2 DEF VInv, Asked
<1>4. CASE report' # None
  <2>1. report'.check = "Refused" /\ report'.code \in {"Input", "Sequence", "Source", "Evidence"}
    BY <1>2, <1>4
  <2>2. RollbackVerdict' /\ HistoryVerdict' /\ RestartVerdict'
    BY <2>1 DEF RollbackVerdict, HistoryVerdict, RestartVerdict, Reported
  <2>3. QED
    BY <1>2, <1>4, <2>2 DEF VInv, Asked, Verdicts
<1>5. QED
  BY <1>3, <1>4

(* A report is made again.                                                  *)
LEMMA ValidateKeeps ==
  ASSUME VInv, NEW presented, Validate(presented)
  PROVE  VInv'
<1>1. /\ Settled /\ JobInv /\ Verdicts /\ Asked
      /\ report # None /\ report.check # "Refused" /\ observed = None /\ presented # None
      /\ presented.check = report.check /\ operator.pure
      /\ Open(report.request, presented)
  BY DEF VInv, Validate
<1>2. PICK request \in Requests : request = report.request
  BY <1>1 DEF Asked
<1>3. PICK o : o = presented
  OBVIOUS
<1>4. Open(request, o) /\ o # None /\ o.check # "Refused"
  BY <1>1, <1>2, <1>3
<1>5. /\ JobInv' /\ Settled' /\ report' = report
      /\ job' = NoJob => verdict' # None
  BY <1>1, <1>2, <1>4, OpensJob
<1>6. UNCHANGED operator
  BY <1>1 DEF Open
<1>7. Verdicts'
  BY <1>1, <1>5, <1>6, VerdictsElsewhere
<1>8. QED
  BY <1>1, <1>5, <1>7 DEF VInv, Asked

(* A stage begins an attempt, or ends one.                                  *)
LEMMA AttemptVerdicts ==
  ASSUME VInv, Attempt
  PROVE  VInv'
<1>1. Settled' /\ JobInv' /\ job' # NoJob /\ UNCHANGED report
  BY AttemptKeeps DEF VInv
<1>2. UNCHANGED operator
  BY DEF Attempt
<1>3. QED
  BY <1>1, <1>2, JobGoesOn DEF VInv

LEMMA SteppedVerdicts ==
  ASSUME VInv, Stepped
  PROVE  VInv'
<1>1. Settled /\ JobInv /\ Working(Stepping) /\ job.calling /\ job # NoJob
  BY DEF VInv, Stepped, Working, Stepping, NoJob
<1>2. CASE result = "Accepted"
  <2>1. /\ job' = SteppedJob
        /\ UNCHANGED <<operator, answers, given, report, observed, verdict, witness>>
        /\ UNCHANGED clone
    BY <1>2 DEF Stepped, SteppedJob, clone
  <2>2. Settled' /\ JobInv' /\ job' # NoJob
    BY <1>1, <1>2, <2>1, SteppedKeeps
  <2>3. QED
    BY <2>1, <2>2, JobGoesOn DEF VInv
<1>3. CASE result # "Accepted"
  <2>1. Refused("Attempt")
    BY <1>3 DEF Stepped
  <2>2. operator.pure /\ RoundTrips => job.stage \in {"continuous", "accepting"}
    BY <1>1, <1>3, RestartNeverRefused DEF Working, Stepping
  <2>3. QED
    BY <1>1, <2>1, <2>2, RefusedKeeps
<1>4. QED
  BY <1>2, <1>3

(* A stage ends.                                                            *)
LEMMA StageVerdicts ==
  ASSUME VInv, KeepContinuous \/ Encode \/ Resume \/ Prime
  PROVE  VInv'
<1>1. Settled /\ JobInv /\ job # NoJob
  BY DEF VInv, KeepContinuous, Encode, Resume, Prime, Finished, Working, NoJob
<1>2. CASE KeepContinuous
  <2>1. Settled' /\ JobInv' /\ job' # NoJob
    BY <1>1, <1>2, KeepContinuousKeeps
  <2>2. UNCHANGED <<operator, report>>
    BY <1>2 DEF KeepContinuous
  <2>3. QED
    BY <2>1, <2>2, JobGoesOn DEF VInv
<1>3. CASE Encode
  <2>1. CASE ~Encodable(Execution)
    BY <1>1, <1>3, <2>1, RefusedKeeps DEF Encode
  <2>2. CASE Encodable(Execution)
    <3>1. Settled' /\ JobInv' /\ job' # NoJob
      BY <1>1, <1>3, <2>2, EncodeKeeps DEF Encode
    <3>2. UNCHANGED <<operator, report>>
      BY <1>3, <2>2 DEF Encode
    <3>3. QED
      BY <3>1, <3>2, JobGoesOn DEF VInv
  <2>3. QED
    BY <2>1, <2>2
<1>4. CASE Resume
  <2>1. Settled' /\ JobInv' /\ job' # NoJob /\ UNCHANGED report
    BY <1>1, <1>4, ResumeKeeps
  <2>2. UNCHANGED operator
    BY <1>4 DEF Resume, Refused, Conclude
  <2>3. QED
    BY <2>1, <2>2, JobGoesOn DEF VInv
<1>5. CASE Prime
  <2>1. CASE ~Encodable(Execution)
    BY <1>1, <1>5, <2>1, RefusedKeeps DEF Prime
  <2>2. CASE Encodable(Execution)
    <3>1. Settled' /\ JobInv' /\ job' # NoJob
      BY <1>1, <1>5, <2>2, PrimeKeeps DEF Prime, clone
    <3>2. UNCHANGED <<operator, report>>
      BY <1>5, <2>2 DEF Prime
    <3>3. QED
      BY <3>1, <3>2, JobGoesOn DEF VInv
  <2>3. QED
    BY <2>1, <2>2
<1>6. QED
  BY <1>2, <1>3, <1>4, <1>5

(* The check returns.                                                       *)
LEMMA ProbedVerdicts ==
  ASSUME VInv, Probed
  PROVE  VInv'
<1>1. Settled /\ JobInv /\ job # NoJob /\ Working({"probing"}) /\ job.calling
  BY DEF VInv, Probed, Working, NoJob
<1>2. CASE ~Encodable(Execution)
  BY <1>1, <1>2, RefusedKeeps DEF Probed
<1>3. CASE Encodable(Execution) /\ job.request.call.check = "Rollback"
  <2>1. Conclude(RollbackReport)
    BY <1>3 DEF Probed
  <2>2. PICK r : r = RollbackReport
    OBVIOUS
  <2>3. r.check = "Rollback" /\ r.passed \in BOOLEAN /\ r.request = job.request
    BY <2>2 DEF RollbackReport
  <2>4. ASSUME observed = None PROVE Verdicts'
    <3>1. RollbackVerdict'
      BY <1>1, <1>3, <2>1, <2>4, RollbackConcludes
    <3>2. report'.check = "Rollback"
      BY <2>1, <2>2, <2>3, <2>4 DEF Conclude, Answer
    <3>3. HistoryVerdict' /\ RestartVerdict'
      BY <3>2 DEF HistoryVerdict, RestartVerdict, Reported
    <3>4. QED
      BY <3>1, <3>3 DEF Verdicts
  <2>5. QED
    BY <1>1, <2>1, <2>2, <2>3, <2>4, ReportKeeps
<1>4. CASE Encodable(Execution) /\ job.request.call.check # "Rollback"
  <2>1. Conclude(HistoryReport)
    BY <1>4 DEF Probed
  <2>2. PICK r : r = HistoryReport
    OBVIOUS
  <2>3. r.check = "History" /\ r.passed \in BOOLEAN /\ r.request = job.request
    BY <2>2 DEF HistoryReport
  <2>4. job.request.call.check = "History"
    <3>1. Busy /\ Checking /\ job.stage = "probing"
      BY <1>1 DEF JobInv, Working
    <3>2. QED
      BY <1>4, <3>1, StageOf
  <2>5. ASSUME observed = None PROVE Verdicts'
    <3>1. HistoryVerdict'
      BY <1>1, <1>4, <2>1, <2>4, <2>5, HistoryConcludes
    <3>2. report'.check = "History"
      BY <2>1, <2>2, <2>3, <2>5 DEF Conclude, Answer
    <3>3. RollbackVerdict' /\ RestartVerdict'
      BY <3>2 DEF RollbackVerdict, RestartVerdict, Reported
    <3>4. QED
      BY <3>1, <3>3 DEF Verdicts
  <2>6. QED
    BY <1>1, <2>1, <2>2, <2>3, <2>5, ReportKeeps
<1>5. QED
  BY <1>2, <1>3, <1>4

LEMMA RestartedVerdicts ==
  ASSUME VInv, Restarted
  PROVE  VInv'
<1>1. Settled /\ JobInv /\ job # NoJob /\ Finished("restarted")
  BY DEF VInv, Restarted, Finished, Working, NoJob
<1>2. CASE ~(Encodable(job.continuous) /\ Encodable(Execution))
  BY <1>1, <1>2, RefusedKeeps DEF Restarted
<1>3. CASE Encodable(job.continuous) /\ Encodable(Execution)
  <2>1. Conclude(RestartReport)
    BY <1>3 DEF Restarted
  <2>2. PICK r : r = RestartReport
    OBVIOUS
  <2>3. r.check = "Restart" /\ r.passed \in BOOLEAN /\ r.request = job.request
    <3>1. job.accepted \in BOOLEAN
      BY <1>1 DEF JobInv, Busy, ValidateFor
    <3>2. QED
      BY <2>2, <3>1 DEF RestartReport
  <2>4. ASSUME observed = None PROVE Verdicts'
    <3>1. report'.check = "Restart" /\ UNCHANGED operator
      BY <2>1, <2>2, <2>3, <2>4 DEF Conclude, Answer
    <3>2. RollbackVerdict' /\ HistoryVerdict'
      BY <3>1 DEF RollbackVerdict, HistoryVerdict, Reported
    <3>3. (operator.pure /\ RoundTrips)' => operator.pure /\ RoundTrips
      BY <3>1 DEF RoundTrips
    <3>4. (operator.pure /\ RoundTrips)' =>
            (report'.passed <=> Supported(report'.request.evidence))
      BY <1>1, <2>1, <2>4, <3>3, RestartConcludes
    <3>5. RestartVerdict'
      BY <3>1, <3>4 DEF RestartVerdict
    <3>6. QED
      BY <3>2, <3>5 DEF Verdicts
  <2>5. QED
    BY <1>1, <2>1, <2>2, <2>3, <2>4, ReportKeeps
<1>4. QED
  BY <1>2, <1>3

LEMMA CallIdles ==
  ASSUME NEW CONSTANT s, NEW CONSTANT size, NEW CONSTANT config, Calling(s, size, config),
         UNCHANGED clone, UNCHANGED operator, UNCHANGED answers
  PROVE  Calling(s, size, config)'
<1>1. UNCHANGED <<phase, historyLimit, time, step, committed, trial, history, reply,
                  integrator, refusals, pc, outcome, result, before>>
  BY DEF clone
<1>2. ASSUME NEW CONSTANT o, Came(s, o, size, config)
      PROVE  Came(s, o, size, config)'
  BY <1>2 DEF Came
<1>3. CASE Ended(s, size, config)
  <2>1. PICK o : Came(s, o, size, config) /\ Execution = After(s, o) /\ result = Result(s, o)
    BY <1>3 DEF Ended
  <2>2. Came(s, o, size, config)'
    BY <1>2, <2>1
  <2>3. pc' = "idle" /\ Execution' = Execution /\ result' = result
    BY <1>1, <1>3 DEF Execution, Ended
  <2>4. QED
    BY <2>1, <2>2, <2>3 DEF Calling, Ended
<1>4. CASE InCall(s, size, config)
  <2>1. UNCHANGED <<pc, historyLimit, refusals, outcome, trial, integrator>>
        /\ (Untouched(s) => Untouched(s)')
        /\ (Moved(s) => Moved(s)')
        /\ Came(s, outcome, size, config)' = Came(s, outcome, size, config)
    BY <1>1 DEF Untouched, Moved, Came
  <2>2. InCall(s, size, config)'
    BY <1>4, <2>1 DEF InCall
  <2>3. QED
    BY <2>2 DEF Calling
<1>5. QED
  BY <1>3, <1>4 DEF Calling

LEMMA VIdles ==
  ASSUME VInv, UNCHANGED vars
  PROVE  VInv'
<1>1. /\ UNCHANGED clone
      /\ UNCHANGED <<operator, answers, given, job, report, observed, verdict, witness>>
      /\ UNCHANGED <<phase, historyLimit, time, step, committed, trial, history, integrator,
                     refusals, pc>>
  BY DEF vars, harness, clone
<1>2. Settled /\ JobInv /\ Asked /\ Verdicts
  BY DEF VInv
<1>3. Settled'
  BY <1>1, <1>2, SettledSteps DEF Settled
<1>4. Asked'
  BY <1>1, <1>2 DEF Asked
<1>5. Verdicts'
  <2>1. RollbackVerdict' /\ HistoryVerdict'
    BY <1>1, <1>2 DEF Verdicts, RollbackVerdict, HistoryVerdict, Reported
  <2>2. RestartVerdict'
    <3>1. RoundTrips' = RoundTrips
      BY <1>1 DEF RoundTrips
    <3>2. QED
      BY <1>1, <1>2, <3>1 DEF Verdicts, RestartVerdict, Reported
  <2>3. QED
    BY <2>1, <2>2 DEF Verdicts
<1>6. ASSUME job # NoJob PROVE Busy' /\ Checking'
  <2>1. Busy /\ Checking
    BY <1>2, <1>6 DEF JobInv
  <2>2. Busy'
    <3>1. Encodable(given)' /\ Fit(given)'
      BY <1>1, <2>1 DEF Busy, Encodable
    <3>2. QED
      BY <1>1, <2>1, <3>1 DEF Busy
  <2>3. ASSUME NEW CONSTANT s, NEW CONSTANT config, At(s, config)
        PROVE  At(s, config)'
    <3>1. PICK size : size = Size
      OBVIOUS
    <3>2. size' = Size' /\ UNCHANGED <<job, pc>> /\ Execution' = Execution
      BY <1>1, <3>1 DEF Size, Execution
    <3>3. CASE job.calling
      <4>1. Calling(s, size, config)'
        BY <1>1, <2>3, <3>1, <3>3, CallIdles DEF At
      <4>2. QED
        BY <2>3, <3>1, <3>2, <3>3, <4>1 DEF At
    <3>4. CASE ~job.calling
      BY <2>3, <3>2, <3>4 DEF At
    <3>5. QED
      BY <3>3, <3>4
  <2>4. CASE job.stage # "restoring"
    BY <1>1, <2>1, <2>2, <2>3, <2>4, StageKept
  <2>5. CASE job.stage = "restoring"
    <3>1. job.request.call.check = "Restart" /\ job.request.call.split \in Nat
          /\ job.request.call.total \in Nat
      BY <2>1, <2>5, StageOf, RequestAssumption DEF Busy
    <3>2. PICK n \in Nat, m \in Nat : n = job.request.call.total /\ m = job.request.call.split
      BY <3>1
    <3>a. PICK size : size = Size
      OBVIOUS
    <3>3. PICK tr, wt, rt : RestartJob(tr, wt, rt)
      BY <2>1, <3>1 DEF Checking
    <3>4. RanOn(tr, n) /\ wt[0] = given /\ Restoring(wt, m) /\ 0 < m /\ m < n /\ tr[0] = given
      BY <2>5, <3>2, <3>3 DEF RestartJob, Continuous, Source, Restarting
    <3>5. size' = Size' /\ Chain(tr, n, size)' /\ Chain(wt, m, size)'
      <4>1. Chain(tr, n, size) /\ Chain(wt, m, size)
        BY <3>a, <3>4 DEF RanOn, Restoring
      <4>2. QED
        BY <1>1, <3>a, <4>1, ChainKept DEF Size
    <3>6. RanOn(tr, n)'
      BY <1>1, <3>4, <3>5 DEF RanOn, Follows
    <3>7. Restoring(wt, m)'
      <4>1. At(given, "accept")'
        <5>1. PICK e : e = given
          OBVIOUS
        <5>2. At(e, "accept")'
          BY <2>3, <3>4, <5>1 DEF Restoring
        <5>3. QED
          BY <1>1, <5>1, <5>2
      <4>2. (job.saved = Decoded(wt[m]))'
        BY <1>1, <3>4 DEF Restoring, Decoded, Read, ReadAll
      <4>3. Encodable(wt[m])'
        BY <3>4 DEF Restoring, Encodable
      <4>4. QED
        BY <1>1, <3>4, <3>5, <4>1, <4>2, <4>3 DEF Restoring, Follows
    <3>8. RestartJob(tr, wt, rt)'
      BY <1>1, <3>2, <3>4, <3>6, <3>7 DEF RestartJob
    <3>9. QED
      BY <1>1, <2>2, <3>1, <3>8 DEF Checking
  <2>6. QED
    BY <2>2, <2>4, <2>5
<1>7. JobInv'
  BY <1>1, <1>6 DEF JobInv
<1>8. QED
  BY <1>3, <1>4, <1>5, <1>7 DEF VInv

LEMMA VKeeps == VInv /\ [Next]_vars => VInv'
<1> SUFFICES ASSUME VInv, [Next]_vars PROVE VInv'
  OBVIOUS
<1>1. CASE Prepare \/ Step
  BY <1>1, CallerKeeps
<1>2. CASE Run
  BY <1>2, RunVerdicts
<1>3. CASE \E request \in Requests : Begin(request)
  BY <1>3, BeginKeeps
<1>4. CASE \E presented \in Presented(report) : Validate(presented)
  BY <1>4, ValidateKeeps
<1>5. CASE Attempt
  BY <1>5, AttemptVerdicts
<1>6. CASE Stepped
  BY <1>6, SteppedVerdicts
<1>7. CASE KeepContinuous \/ Encode \/ Resume \/ Prime
  BY <1>7, StageVerdicts
<1>8. CASE Probed
  BY <1>8, ProbedVerdicts
<1>9. CASE Restarted
  BY <1>9, RestartedVerdicts
<1>10. CASE UNCHANGED vars
  BY <1>10, VIdles
<1>11. QED
  BY <1>1, <1>2, <1>3, <1>4, <1>5, <1>6, <1>7, <1>8, <1>9, <1>10 DEF Next

(* The rollback check (check_rollback_identity): an attempt that is not     *)
(* accepted never shows in the bytes of the checkpoint, the report passes   *)
(* exactly if the attempt moved no step and the evidence supports it, and   *)
(* the refusal it tells of is the one its own attempt has logged.           *)
THEOREM RollbackTells == Spec => []RollbackVerdict
<1>1. VInv => RollbackVerdict
  BY DEF VInv, Verdicts
<1>2. QED
  BY <1>1, VBegins, VKeeps, PTL DEF Spec

(* The history check (check_history_and_rejection): the report passes       *)
(* exactly if the evidence supports it, the probe moved no step and the     *)
(* depth after the steps is the one an empty history would have reached.    *)
THEOREM HistoryTells == Spec => []HistoryVerdict
<1>1. VInv => HistoryVerdict
  BY DEF VInv, Verdicts
<1>2. QED
  BY <1>1, VBegins, VKeeps, PTL DEF Spec

(* The restart check (check_restart_trajectory): the encoded checkpoint can *)
(* always be restored; over an operator without hidden state and an exact   *)
(* decoder no restarted step is refused, and the trajectories and the bytes *)
(* at their ends agree, so that only the evidence decides.                  *)
THEOREM RestartTells == Spec => []RestartVerdict
<1>1. VInv => RestartVerdict
  BY DEF VInv, Verdicts
<1>2. QED
  BY <1>1, VBegins, VKeeps, PTL DEF Spec

----------------------------------------------------------------------------
(* A report that is made again.  What a check makes of an execution is said *)
(* by the answers of the operator alone: the report it returned is vouched  *)
(* for by the chain of steps those answers make.                            *)

Bound(request) ==
  [sources |-> request.evidence, accepted |-> ValidateFor(request.evidence).accepted]

Disposed(res) ==
  CASE res = "Accepted" -> "UnexpectedAccepted"
    [] res = "Rejected" -> "Rejected"
    [] OTHER -> "SolverError"

Told(t, res) == IF res = "Refused" THEN Last(t.refusals) ELSE None

(* The reports, of the execution e a check was given, the execution s the   *)
(* probe began with, the one t it ended with, and the result.               *)
RollbackOf(request, e, t, res) ==
  [check |-> "Rollback", request |-> request, binding |-> Bound(request),
   disposition |-> Disposed(res), refusal |-> Told(t, res),
   before |-> Bytes(e), after |-> Bytes(t), identical |-> Bytes(e) = Bytes(t),
   passed |-> /\ Bound(request).accepted
              /\ Disposed(res) # "UnexpectedAccepted"
              /\ Bytes(e) = Bytes(t)]

Synchronized(request, e, s) ==
  \A b \in Blocks : Len(s.history[b]) = Capped(request.call.total, e.historyLimit)

HistoryOf(request, e, s, t, res) ==
  [check |-> "History", request |-> request, binding |-> Bound(request),
   depths |-> [b \in Blocks |-> Len(s.history[b])],
   synchronized |-> Synchronized(request, e, s),
   disposition |-> Disposed(res), refusal |-> Told(t, res),
   before |-> Bytes(s), after |-> Bytes(t), identical |-> Bytes(s) = Bytes(t),
   passed |-> /\ Bound(request).accepted
              /\ Synchronized(request, e, s)
              /\ Disposed(res) # "UnexpectedAccepted"
              /\ Bytes(s) = Bytes(t)]

Alike(states, restarted) == \A k \in DOMAIN states : SameNumbers(states[k], restarted[k])

RestartOf(request, e, s, t, states, restarted) ==
  [check |-> "Restart", request |-> request, binding |-> Bound(request),
   initial |-> Bytes(e), agree |-> Alike(states, restarted),
   continuous |-> Bytes(s), restarted |-> Bytes(t), identical |-> Bytes(s) = Bytes(t),
   passed |-> /\ Bound(request).accepted
              /\ Alike(states, restarted)
              /\ Bytes(s) = Bytes(t)]

RollbackBy(e, r, o) ==
  /\ Came(e, o, r.request.call.size, "probe")
  /\ Encodable(After(e, o))
  /\ r = RollbackOf(r.request, e, After(e, o), Result(e, o))

HistoryBy(e, r, n, tr, o) ==
  /\ n # 0
  /\ tr[0] = e
  /\ Chain(tr, n, r.request.call.size)
  /\ Encodable(tr[n])
  /\ Came(tr[n], o, r.request.call.size, "probe")
  /\ Encodable(After(tr[n], o))
  /\ r = HistoryOf(r.request, e, tr[n], After(tr[n], o), Result(tr[n], o))

RestartBy(e, r, n, m, tr, wt, rt, states, restarted) ==
  /\ 0 < m /\ m < n
  /\ tr[0] = e
  /\ Chain(tr, n, r.request.call.size)
  /\ Follows(states, tr, n)
  /\ wt[0] = e
  /\ Chain(wt, m, r.request.call.size)
  /\ Encodable(wt[m])
  /\ rt[0] = Resumed(e, Decoded(wt[m]))
  /\ Chain(rt, n - m, r.request.call.size)
  /\ Rejoins(restarted, wt, m, rt, n - m)
  /\ Encodable(tr[n])
  /\ Encodable(rt[n - m])
  /\ r = RestartOf(r.request, e, tr[n], rt[n - m], states, restarted)

Vouched(e, r) ==
  /\ Encodable(e)
  /\ r.request.call.canonical
  /\ ValidateFor(r.request.evidence).bound
  /\ r.request.call.check = "Rollback" => \E o : RollbackBy(e, r, o)
  /\ r.request.call.check = "History" =>
       \E tr, o : HistoryBy(e, r, r.request.call.total, tr, o)
  /\ r.request.call.check = "Restart" =>
       \E tr, wt, rt, states, restarted :
         RestartBy(e, r, r.request.call.total, r.request.call.split,
                   tr, wt, rt, states, restarted)

(* The operator forgets none of its answers.                                *)
LEMMA VouchedKept ==
  ASSUME NEW CONSTANT e, NEW CONSTANT r, Vouched(e, r), UNCHANGED operator,
         Remember \/ UNCHANGED answers
  PROVE  Vouched(e, r)'
<1>1. ASSUME NEW CONSTANT s, NEW CONSTANT o, NEW CONSTANT size, Came(s, o, size, "probe")
      PROVE  Came(s, o, size, "probe")'
  <2>1. CASE Remember
    BY <1>1, <2>1, AnswersKept
  <2>2. CASE UNCHANGED answers
    BY <1>1, <2>2 DEF Came
  <2>3. QED
    BY <2>1, <2>2
<1>2. ASSUME NEW CONSTANT tr, NEW CONSTANT n, NEW CONSTANT size, Chain(tr, n, size)
      PROVE  Chain(tr, n, size)'
  BY <1>2, ChainKept
<1>3. r.request.call.check = "Rollback" => \E o : RollbackBy(e, r, o)'
  <2> SUFFICES ASSUME r.request.call.check = "Rollback" PROVE \E o : RollbackBy(e, r, o)'
    OBVIOUS
  <2>1. PICK o : RollbackBy(e, r, o)
    BY DEF Vouched
  <2>2. Came(e, o, r.request.call.size, "probe")'
    BY <1>1, <2>1 DEF RollbackBy
  <2>3. RollbackBy(e, r, o)'
    BY <2>1, <2>2 DEF RollbackBy
  <2>4. QED
    BY <2>3
<1>4. r.request.call.check = "History" =>
        \E tr, o : HistoryBy(e, r, r.request.call.total, tr, o)'
  <2> DEFINE n == r.request.call.total
             size == r.request.call.size
  <2> SUFFICES ASSUME r.request.call.check = "History" PROVE \E tr, o : HistoryBy(e, r, n, tr, o)'
    OBVIOUS
  <2>1. PICK tr, o : HistoryBy(e, r, n, tr, o)
    BY DEF Vouched
  <2>2. Came(tr[n], o, size, "probe")' /\ Chain(tr, n, size)'
    BY <1>1, <1>2, <2>1 DEF HistoryBy
  <2>3. HistoryBy(e, r, n, tr, o)'
    BY <2>1, <2>2 DEF HistoryBy
  <2>4. QED
    BY <2>3
<1>5. r.request.call.check = "Restart" =>
        \E tr, wt, rt, states, restarted :
          RestartBy(e, r, r.request.call.total, r.request.call.split,
                    tr, wt, rt, states, restarted)'
  <2> DEFINE n == r.request.call.total
             m == r.request.call.split
             size == r.request.call.size
  <2> SUFFICES ASSUME r.request.call.check = "Restart"
               PROVE  \E tr, wt, rt, states, restarted :
                        RestartBy(e, r, n, m, tr, wt, rt, states, restarted)'
    OBVIOUS
  <2>1. PICK tr, wt, rt, states, restarted : RestartBy(e, r, n, m, tr, wt, rt, states, restarted)
    BY DEF Vouched
  <2>2. Chain(tr, n, size)' /\ Chain(wt, m, size)' /\ Chain(rt, n - m, size)'
    BY <1>2, <2>1 DEF RestartBy
  <2>3. (rt[0] = Resumed(e, Decoded(wt[m])))'
    <3>1. Decoded(wt[m])' = Decoded(wt[m])
      BY DecodedKept
    <3>2. QED
      BY <2>1, <3>1 DEF RestartBy, Resumed
  <2>4. RestartBy(e, r, n, m, tr, wt, rt, states, restarted)'
    BY <2>1, <2>2, <2>3 DEF RestartBy
  <2>5. QED
    BY <2>4
<1>6. QED
  BY <1>3, <1>4, <1>5 DEF Vouched

(* The reports are those of the parts.                                      *)
LEMMA RollbackIsOf ==
  ASSUME Busy, NEW e, NEW t, e = given, t = Execution
  PROVE  RollbackReport = RollbackOf(job.request, e, t, result)
<1>1. Binding = Bound(job.request) /\ Bound(job.request).accepted = job.accepted
  BY DEF Busy, Binding, Bound
<1>2. Disposition = Disposed(result)
  BY DEF Disposition, Disposed
<1>3. AttemptRefusal = Told(t, result)
  BY DEF AttemptRefusal, Told, Execution
<1>4. QED
  BY <1>1, <1>2, <1>3 DEF RollbackReport, RollbackOf

LEMMA HistoryIsOf ==
  ASSUME Busy, NEW tr, NEW n, n = job.request.call.total, Probing(tr, n),
         NEW e, NEW s, NEW t, e = given, s = tr[n], t = Execution
  PROVE  HistoryReport = HistoryOf(job.request, e, s, t, result)
<1>1. Binding = Bound(job.request) /\ Bound(job.request).accepted = job.accepted
  BY DEF Busy, Binding, Bound
<1>2. Disposition = Disposed(result)
  BY DEF Disposition, Disposed
<1>3. AttemptRefusal = Told(t, result)
  BY DEF AttemptRefusal, Told, Execution
<1>4. job.primed = s /\ job.depths = [b \in Blocks |-> Len(s.history[b])]
      /\ job.synchronized = Synchronized(job.request, e, s)
  BY DEF Probing, Synchronized
<1>5. QED
  BY <1>1, <1>2, <1>3, <1>4 DEF HistoryReport, HistoryOf

LEMMA RestartIsOf ==
  ASSUME Busy, NEW e, NEW s, NEW t, NEW states, NEW restarted,
         e = given, s = job.continuous, t = Execution,
         states = job.states, restarted = job.restarted
  PROVE  RestartReport = RestartOf(job.request, e, s, t, states, restarted)
<1>1. Binding = Bound(job.request) /\ Bound(job.request).accepted = job.accepted
  BY DEF Busy, Binding, Bound
<1>2. Agree = Alike(states, restarted)
  BY DEF Agree, Alike
<1>3. QED
  BY <1>1, <1>2 DEF RestartReport, RestartOf

(* A check vouches for the report it returns.                               *)
LEMMA RollbackVouches ==
  ASSUME Settled, JobInv, Working({"probing"}), job.calling, Encodable(Execution),
         job.request.call.check = "Rollback",
         NEW CONSTANT e, NEW CONSTANT r, e = given, r = RollbackReport
  PROVE  Vouched(e, r)
<1>1. job.stage = "probing" /\ pc = "idle" /\ Busy /\ Checking
  BY DEF Working, JobInv, NoJob
<1>2. PICK t : t = Execution
  OBVIOUS
<1>3. At(e, "probe")
  BY <1>1 DEF Checking, RollbackJob
<1>4. PICK o : Came(e, o, Size, "probe") /\ t = After(e, o) /\ result = Result(e, o)
  BY <1>1, <1>2, <1>3, AtEnds
<1>5. r = RollbackOf(job.request, e, After(e, o), Result(e, o)) /\ r.request = job.request
  <2>1. r = RollbackOf(job.request, e, t, result)
    BY <1>1, <1>2, RollbackIsOf
  <2>2. QED
    BY <1>4, <2>1 DEF RollbackOf
<1>6. Encodable(After(e, o))
  BY <1>2, <1>4
<1>7. RollbackBy(e, r, o)
  BY <1>4, <1>5, <1>6 DEF RollbackBy, Size
<1>8. QED
  BY <1>1, <1>5, <1>7 DEF Vouched, Busy

LEMMA HistoryVouches ==
  ASSUME Settled, JobInv, Working({"probing"}), job.calling, Encodable(Execution),
         job.request.call.check = "History",
         NEW CONSTANT e, NEW CONSTANT r, e = given, r = HistoryReport
  PROVE  Vouched(e, r)
<1>1. job.stage = "probing" /\ pc = "idle" /\ Busy /\ Checking
  BY DEF Working, JobInv, NoJob
<1>2. PICK t : t = Execution
  OBVIOUS
<1>3. PICK n \in Nat : n = job.request.call.total
  BY <1>1, RequestAssumption DEF Busy
<1>4. PICK tr : HistoryJob(tr)
  BY <1>1 DEF Checking
<1>5. Probing(tr, n) /\ tr[0] = e /\ n # 0
  BY <1>1, <1>3, <1>4 DEF HistoryJob, Accepting
<1>6. PICK s : s = tr[n]
  OBVIOUS
<1>7. At(s, "probe") /\ Chain(tr, n, Size) /\ Encodable(tr[n])
  BY <1>5, <1>6 DEF Probing
<1>8. PICK o : Came(s, o, Size, "probe") /\ t = After(s, o) /\ result = Result(s, o)
  BY <1>1, <1>2, <1>7, AtEnds
<1>9. r = HistoryOf(job.request, e, s, After(s, o), Result(s, o)) /\ r.request = job.request
  <2>1. r = HistoryOf(job.request, e, s, t, result)
    BY <1>1, <1>2, <1>3, <1>5, <1>6, HistoryIsOf
  <2>2. QED
    BY <1>8, <2>1 DEF HistoryOf
<1>10. Encodable(After(s, o))
  BY <1>2, <1>8
<1>11. HistoryBy(e, r, n, tr, o)
  BY <1>5, <1>6, <1>7, <1>8, <1>9, <1>10 DEF HistoryBy, Size
<1>12. QED
  BY <1>1, <1>3, <1>9, <1>11 DEF Vouched, Busy

LEMMA RestartVouches ==
  ASSUME Settled, JobInv, Finished("restarted"), Encodable(job.continuous), Encodable(Execution),
         NEW CONSTANT e, NEW CONSTANT r, e = given, r = RestartReport
  PROVE  Vouched(e, r)
<1>1. job.stage = "restarted" /\ pc = "idle" /\ ~job.calling /\ job.left = 0 /\ Busy /\ Checking
  BY DEF Finished, Working, JobInv, NoJob
<1>2. job.request.call.check = "Restart"
  BY <1>1, StageOf
<1>3. PICK n \in Nat : n = job.request.call.total
  BY <1>1, RequestAssumption DEF Busy
<1>4. PICK m \in Nat : m = job.request.call.split
  BY <1>1, RequestAssumption DEF Busy
<1>5. PICK tr, wt, rt : RestartJob(tr, wt, rt)
  BY <1>1, <1>2 DEF Checking
<1>6. 0 < m /\ m < n /\ tr[0] = e /\ RanOn(tr, n) /\ wt[0] = e /\ Restarting(wt, m, rt, n - m)
  BY <1>1, <1>3, <1>4, <1>5 DEF RestartJob, Continuous, Source, Restoring
<1>7. (n - m) - job.left = n - m
  BY <1>1, <1>6
<1>8. PICK states, restarted : states = job.states /\ restarted = job.restarted
  OBVIOUS
<1>9. /\ Chain(tr, n, Size) /\ Chain(wt, m, Size) /\ Encodable(wt[m])
      /\ job.saved = Decoded(wt[m]) /\ rt[0] = Resumed(e, Decoded(wt[m]))
      /\ job.continuous = tr[n] /\ Follows(states, tr, n)
  BY <1>6, <1>8 DEF RanOn, Restarting
<1>10. Chain(rt, n - m, Size) /\ Execution = rt[n - m] /\ Rejoins(restarted, wt, m, rt, n - m)
  BY <1>1, <1>6, <1>7, <1>8 DEF Restarting, At
<1>11. PICK s, t : s = tr[n] /\ t = rt[n - m]
  OBVIOUS
<1>12. r = RestartOf(job.request, e, s, t, states, restarted) /\ r.request = job.request
  <2>1. r = RestartOf(job.request, e, s, t, states, restarted)
    BY <1>1, <1>8, <1>9, <1>10, <1>11, RestartIsOf
  <2>2. QED
    BY <2>1 DEF RestartOf
<1>13. Encodable(tr[n]) /\ Encodable(rt[n - m])
  BY <1>9, <1>10
<1>14. RestartBy(e, r, n, m, tr, wt, rt, states, restarted)
  BY <1>6, <1>9, <1>10, <1>11, <1>12, <1>13 DEF RestartBy, Size
<1>15. QED
  BY <1>1, <1>2, <1>3, <1>4, <1>12, <1>14 DEF Vouched, Busy

(* A chain made again is the same chain, and the step a call makes from it  *)
(* is the one that was made.                                                *)
LEMMA ChainRepeats ==
  ASSUME operator.pure, NEW tr, NEW n \in Nat, NEW wt, NEW k \in Nat, NEW size, k <= n,
         Chain(tr, n, size), Chain(wt, k, size), wt[0] = tr[0]
  PROVE  wt[k] = tr[k] /\ \A i \in 0 .. k : wt[i] = tr[i]
<1>1. \A i \in 0 .. k : 0 + i <= n => wt[i] = tr[0 + i]
  BY ChainsAgree
<1>2. \A i \in 0 .. k : wt[i] = tr[i]
  BY <1>1
<1>3. QED
  BY <1>2

LEMMA StepRepeats ==
  ASSUME operator.pure, NEW CONSTANT tr, NEW n \in Nat, NEW CONSTANT wt, NEW k \in Nat, k < n,
         Chain(tr, n, Size), Chain(wt, k, Size), wt[0] = tr[0],
         At(wt[k], "accept"), job.calling, pc = "idle"
  PROVE  result = "Accepted"
<1>1. wt[k] = tr[k]
  BY ChainRepeats
<1>2. PICK s : s = wt[k]
  OBVIOUS
<1>3. PICK o : Came(s, o, Size, "accept") /\ result = Result(s, o)
  BY <1>2, AtEnds
<1>4. Linked(s, tr[k + 1], Size)
  BY <1>1, <1>2 DEF Chain
<1>5. QED
  BY <1>3, <1>4, LinksDetermine

(* So a check that is made again is never refused, and makes the report it  *)
(* has made.                                                                *)
Remade(e, r) ==
  Vouched(e, r) /\ e = given /\ r.request = job.request /\ operator.pure

LEMMA RollbackRemade ==
  ASSUME Settled, JobInv, Working({"probing"}), job.calling,
         job.request.call.check = "Rollback",
         NEW CONSTANT e, NEW CONSTANT r, Remade(e, r)
  PROVE  Encodable(Execution) /\ RollbackReport = r
<1>1. job.stage = "probing" /\ pc = "idle" /\ Busy /\ Checking
  BY DEF Working, JobInv, NoJob
<1>2. PICK t : t = Execution
  OBVIOUS
<1>3. At(e, "probe")
  BY <1>1 DEF Checking, RollbackJob, Remade
<1>4. PICK o : Came(e, o, Size, "probe") /\ t = After(e, o) /\ result = Result(e, o)
  BY <1>1, <1>2, <1>3, AtEnds
<1>5. PICK p : RollbackBy(e, r, p)
  BY DEF Remade, Vouched
<1>6. o = p
  BY <1>4, <1>5 DEF RollbackBy, Came, Remade, Size
<1>7. RollbackReport = RollbackOf(job.request, e, t, result)
  BY <1>1, <1>2, RollbackIsOf DEF Remade
<1>8. QED
  BY <1>2, <1>4, <1>5, <1>6, <1>7 DEF RollbackBy, Remade

(* The steps a history check is at are those that were made.                *)
LEMMA AcceptingRemade ==
  ASSUME Settled, JobInv, Working({"accepting"}),
         NEW CONSTANT e, NEW CONSTANT r, Remade(e, r)
  PROVE  /\ job.calling => result = "Accepted"
         /\ ~job.calling /\ job.left = 0 => Encodable(Execution)
<1>1. job.stage = "accepting" /\ pc = "idle" /\ Busy /\ Checking
  BY DEF Working, JobInv, NoJob
<1>2. job.request.call.check = "History"
  BY <1>1, StageOf
<1>3. PICK n \in Nat : n = job.request.call.total
  BY <1>1, RequestAssumption DEF Busy
<1>4. PICK wt : HistoryJob(wt)
  BY <1>1, <1>2 DEF Checking
<1>5. Accepting(wt, n) /\ wt[0] = e
  BY <1>1, <1>3, <1>4 DEF HistoryJob, Probing, Remade
<1>6. PICK tr, p : HistoryBy(e, r, n, tr, p)
  BY <1>2, <1>3 DEF Remade, Vouched
<1>7. Chain(tr, n, Size) /\ tr[0] = e /\ Encodable(tr[n])
  BY <1>6 DEF HistoryBy, Remade, Size
<1>8. PICK k \in Nat : k = n - job.left
  BY <1>5 DEF Accepting
<1>9. k <= n /\ Chain(wt, k, Size) /\ At(wt[k], "accept") /\ (job.calling => k < n)
  BY <1>1, <1>5, <1>8 DEF Accepting, Busy
<1>10. job.calling => result = "Accepted"
  BY <1>1, <1>5, <1>7, <1>9, StepRepeats DEF Remade
<1>11. ASSUME ~job.calling, job.left = 0 PROVE Encodable(Execution)
  <2>1. k = n /\ Execution = wt[n]
    BY <1>8, <1>9, <1>11 DEF At
  <2>2. wt[n] = tr[n]
    BY <1>5, <1>7, <1>9, <2>1, ChainRepeats DEF Remade
  <2>3. QED
    BY <1>7, <2>1, <2>2
<1>12. QED
  BY <1>10, <1>11

LEMMA HistoryRemade ==
  ASSUME Settled, JobInv, Working({"probing"}), job.calling,
         job.request.call.check = "History",
         NEW CONSTANT e, NEW CONSTANT r, Remade(e, r)
  PROVE  Encodable(Execution) /\ HistoryReport = r
<1>1. job.stage = "probing" /\ pc = "idle" /\ Busy /\ Checking
  BY DEF Working, JobInv, NoJob
<1>2. PICK t : t = Execution
  OBVIOUS
<1>3. PICK n \in Nat : n = job.request.call.total
  BY <1>1, RequestAssumption DEF Busy
<1>4. PICK wt : HistoryJob(wt)
  BY <1>1 DEF Checking
<1>5. Probing(wt, n) /\ wt[0] = e
  BY <1>1, <1>3, <1>4 DEF HistoryJob, Accepting, Remade
<1>6. PICK s : s = wt[n]
  OBVIOUS
<1>7. At(s, "probe") /\ Chain(wt, n, Size)
  BY <1>5, <1>6 DEF Probing
<1>8. PICK o : Came(s, o, Size, "probe") /\ t = After(s, o) /\ result = Result(s, o)
  BY <1>1, <1>2, <1>7, AtEnds
<1>9. PICK tr, p : HistoryBy(e, r, n, tr, p)
  BY <1>3 DEF Remade, Vouched
<1>10. /\ Chain(tr, n, Size) /\ tr[0] = e /\ Came(tr[n], p, Size, "probe")
       /\ Encodable(After(tr[n], p))
       /\ r = HistoryOf(job.request, e, tr[n], After(tr[n], p), Result(tr[n], p))
  BY <1>9 DEF HistoryBy, Remade, Size
<1>11. tr[n] = s
  BY <1>5, <1>6, <1>7, <1>10, ChainRepeats DEF Remade
<1>12. o = p
  BY <1>8, <1>10, <1>11 DEF Came, Remade
<1>13. HistoryReport = HistoryOf(job.request, e, s, t, result)
  BY <1>1, <1>2, <1>3, <1>5, <1>6, HistoryIsOf DEF Remade
<1>14. QED
  BY <1>2, <1>8, <1>10, <1>11, <1>12, <1>13

(* A chain has one trajectory.                                              *)
LEMMA SequencesEqual ==
  ASSUME NEW S, NEW p \in Seq(S), NEW q \in Seq(S), Len(p) = Len(q),
         \A i \in 1 .. Len(p) : p[i] = q[i]
  PROVE  p = q
OBVIOUS

LEMMA FollowsOnce ==
  ASSUME NEW p, NEW q, NEW tr, NEW wt, NEW n \in Nat, Follows(p, tr, n), Follows(q, wt, n),
         \A i \in 0 .. n : wt[i] = tr[i]
  PROVE  q = p
<1>1. ASSUME NEW i \in 1 .. n + 1 PROVE q[i] = p[i]
  <2>1. i - 1 \in 0 .. n
    OBVIOUS
  <2>2. QED
    BY <2>1 DEF Follows
<1>2. /\ p \in Seq(Exec!Flats) /\ q \in Seq(Exec!Flats)
      /\ Len(p) = n + 1 /\ Len(q) = n + 1
  BY DEF Follows
<1>3. QED
  BY <1>1, <1>2, SequencesEqual

LEMMA RejoinsOnce ==
  ASSUME NEW p, NEW q, NEW tr, NEW wt, NEW m \in Nat, NEW rt, NEW ut, NEW n \in Nat,
         Rejoins(p, tr, m, rt, n), Rejoins(q, wt, m, ut, n),
         \A i \in 0 .. m : wt[i] = tr[i], \A i \in 0 .. n : ut[i] = rt[i]
  PROVE  q = p
<1>1. ASSUME NEW i \in 1 .. m + n + 1 PROVE q[i] = p[i]
  <2>1. CASE i <= m + 1
    <3>1. i \in 1 .. m + 1 /\ i - 1 \in 0 .. m
      BY <2>1
    <3>2. p[i] = tr[i - 1].integrator.values /\ q[i] = wt[i - 1].integrator.values
      BY <3>1 DEF Rejoins
    <3>3. QED
      BY <3>1, <3>2
  <2>2. CASE i > m + 1
    <3>1. PICK k : k = i - (m + 1)
      OBVIOUS
    <3>2. k \in 1 .. n /\ k \in 0 .. n /\ m + 1 + k = i
      BY <2>2, <3>1
    <3>3. p[i] = rt[k].integrator.values /\ q[i] = ut[k].integrator.values
      BY <3>2 DEF Rejoins
    <3>4. QED
      BY <3>2, <3>3
  <2>3. QED
    BY <2>1, <2>2
<1>2. /\ p \in Seq(Exec!Flats) /\ q \in Seq(Exec!Flats)
      /\ Len(p) = m + n + 1 /\ Len(q) = m + n + 1
  BY DEF Rejoins
<1>3. QED
  BY <1>1, <1>2, SequencesEqual

(* What a restart check is at is what was made.                             *)
LEMMA RestartStepsRemade ==
  ASSUME Settled, JobInv, Working({"continuous", "source", "restarted"}),
         NEW CONSTANT e, NEW CONSTANT r, Remade(e, r)
  PROVE  /\ job.calling => result = "Accepted"
         /\ job.stage = "source" /\ ~job.calling /\ job.left = 0 => Encodable(Execution)
         /\ job.stage = "restarted" /\ ~job.calling /\ job.left = 0 =>
              Encodable(job.continuous) /\ Encodable(Execution) /\ RestartReport = r
<1>1. job.stage \in {"continuous", "source", "restarted"} /\ pc = "idle" /\ Busy /\ Checking
  BY DEF Working, JobInv, NoJob
<1>2. job.request.call.check = "Restart"
  BY <1>1, StageOf
<1>3. PICK n \in Nat : n = job.request.call.total
  BY <1>1, RequestAssumption DEF Busy
<1>4. PICK m \in Nat : m = job.request.call.split
  BY <1>1, RequestAssumption DEF Busy
<1>5. PICK trj, wtj, rtj : RestartJob(trj, wtj, rtj)
  BY <1>1, <1>2 DEF Checking
<1>6. PICK tr, wt, rt, states, restarted : RestartBy(e, r, n, m, tr, wt, rt, states, restarted)
  BY <1>2, <1>3, <1>4 DEF Remade, Vouched
<1>7. /\ 0 < m /\ m < n /\ tr[0] = e /\ wt[0] = e
      /\ Chain(tr, n, Size) /\ Chain(wt, m, Size) /\ Chain(rt, n - m, Size)
      /\ rt[0] = Resumed(e, Decoded(wt[m]))
      /\ Encodable(wt[m]) /\ Encodable(tr[n]) /\ Encodable(rt[n - m])
      /\ Follows(states, tr, n) /\ Rejoins(restarted, wt, m, rt, n - m)
      /\ r = RestartOf(job.request, e, tr[n], rt[n - m], states, restarted)
  BY <1>6 DEF RestartBy, Remade, Size
<1>8. n - m \in Nat /\ trj[0] = e
  BY <1>3, <1>4, <1>5, <1>7 DEF RestartJob, Remade
<1>9. ASSUME NEW CONSTANT made, NEW CONSTANT again, NEW q \in Nat, NEW k \in Nat,
             Chain(made, q, Size), Chain(again, k, Size), again[0] = made[0],
             At(again[k], "accept"), k = q - job.left
      PROVE  /\ job.calling => result = "Accepted"
             /\ ~job.calling /\ job.left = 0 =>
                  /\ k = q /\ Execution = made[q]
                  /\ \A i \in 0 .. q : again[i] = made[i]
  <2>1. job.left >= 0 /\ (job.calling => k < q) /\ k <= q
    <3>1. job.left \in Int
      BY <1>1, <1>3, <1>4, <1>5, <1>8 DEF RestartJob, Continuous, Source, Restoring, Restarting
    <3>2. job.left >= 0
      BY <1>1, <1>3, <1>4, <1>5, <1>8 DEF RestartJob, Continuous, Source, Restoring, Restarting
    <3>3. job.calling => job.left > 0
      BY <1>1 DEF Busy
    <3>4. QED
      BY <1>9, <3>1, <3>2, <3>3
  <2>2. job.calling => result = "Accepted"
    BY <1>1, <1>9, <2>1, StepRepeats DEF Remade
  <2>3. ASSUME ~job.calling, job.left = 0
        PROVE  /\ k = q /\ Execution = made[q]
               /\ \A i \in 0 .. q : again[i] = made[i]
    <3>1. k = q /\ Execution = again[q]
      BY <1>9, <2>3 DEF At
    <3>2. again[q] = made[q] /\ \A i \in 0 .. q : again[i] = made[i]
      BY <1>9, <3>1, ChainRepeats DEF Remade
    <3>3. QED
      BY <3>1, <3>2
  <2>4. QED
    BY <2>2, <2>3
<1>10. CASE job.stage = "continuous"
  <2>1. Continuous(trj, n)
    BY <1>3, <1>5, <1>10 DEF RestartJob, Source, Restoring, Restarting
  <2>2. PICK k \in Nat : k = n - job.left
    BY <2>1 DEF Continuous
  <2>3. Chain(trj, k, Size) /\ At(trj[k], "accept")
    BY <2>1, <2>2 DEF Continuous
  <2>4. QED
    BY <1>7, <1>8, <1>9, <1>10, <2>2, <2>3
<1>11. CASE job.stage = "source"
  <2>1. Source(wtj, m) /\ wtj[0] = e
    BY <1>3, <1>4, <1>5, <1>11 DEF RestartJob, Continuous, Restoring, Restarting, Remade
  <2>2. PICK k \in Nat : k = m - job.left
    BY <2>1 DEF Source
  <2>3. Chain(wtj, k, Size) /\ At(wtj[k], "accept")
    BY <2>1, <2>2 DEF Source
  <2>a. wtj[0] = wt[0] /\ Chain(wt, m, Size)
    BY <1>7, <2>1
  <2>4. /\ job.calling => result = "Accepted"
        /\ ~job.calling /\ job.left = 0 =>
             /\ k = m /\ Execution = wt[m]
             /\ \A i \in 0 .. m : wtj[i] = wt[i]
    BY <1>9, <2>2, <2>3, <2>a
  <2>5. QED
    BY <1>7, <1>11, <2>4
<1>12. CASE job.stage = "restarted"
  <2>1. Restarting(wtj, m, rtj, n - m) /\ RanOn(trj, n) /\ wtj[0] = e
    BY <1>3, <1>4, <1>5, <1>12 DEF RestartJob, Continuous, Source, Restoring, Remade
  <2>2. PICK k \in Nat : k = (n - m) - job.left
    BY <1>8, <2>1 DEF Restarting
  <2>3. /\ Chain(rtj, k, Size) /\ At(rtj[k], "accept") /\ Chain(wtj, m, Size)
        /\ rtj[0] = Resumed(e, Decoded(wtj[m])) /\ Chain(trj, n, Size)
        /\ Rejoins(job.restarted, wtj, m, rtj, k) /\ Follows(job.states, trj, n)
        /\ job.continuous = trj[n]
    BY <2>1, <2>2 DEF Restarting, RanOn, Remade
  <2>4. wtj[m] = wt[m] /\ \A i \in 0 .. m : wtj[i] = wt[i]
    BY <1>7, <2>1, <2>3, ChainRepeats DEF Remade
  <2>5. rtj[0] = rt[0]
    BY <1>7, <2>3, <2>4
  <2>6. trj[n] = tr[n] /\ \A i \in 0 .. n : trj[i] = tr[i]
    BY <1>7, <1>8, <2>3, ChainRepeats DEF Remade
  <2>7. /\ job.calling => result = "Accepted"
        /\ ~job.calling /\ job.left = 0 =>
             /\ k = n - m /\ Execution = rt[n - m]
             /\ \A i \in 0 .. n - m : rtj[i] = rt[i]
    BY <1>7, <1>8, <1>9, <2>2, <2>3, <2>5
  <2>8. ASSUME ~job.calling, job.left = 0 PROVE RestartReport = r
    <3>1. PICK p, q : p = job.states /\ q = job.restarted
      OBVIOUS
    <3>2. p = states
      BY <2>3, <2>6, <3>1, <1>7, FollowsOnce
    <3>3. q = restarted
      <4>1. Rejoins(q, wtj, m, rtj, n - m) /\ \A i \in 0 .. n - m : rtj[i] = rt[i]
        BY <2>3, <2>7, <2>8, <3>1
      <4>2. QED
        BY <1>7, <1>8, <2>4, <4>1, RejoinsOnce
    <3>4. PICK s, t : s = tr[n] /\ t = rt[n - m]
      OBVIOUS
    <3>5. s = job.continuous /\ t = Execution
      BY <2>3, <2>6, <2>7, <2>8, <3>4
    <3>6. RestartReport = RestartOf(job.request, e, s, t, p, q)
      BY <1>1, <3>1, <3>5, RestartIsOf DEF Remade
    <3>7. QED
      BY <1>7, <3>2, <3>3, <3>4, <3>6
  <2>9. QED
    BY <1>7, <1>12, <2>3, <2>6, <2>7, <2>8
<1>13. QED
  BY <1>1, <1>10, <1>11, <1>12

----------------------------------------------------------------------------
(* The execution of the caller, and the report it holds.                    *)

Caller == IF job = NoJob THEN Execution ELSE given

Reproduces ==
  report # None /\ report.check # "Refused" /\ operator.pure => Vouched(Caller, report)

RInv == VInv /\ Reproduces /\ ReportsReproduce

LEMMA NoVerdictYet ==
  ASSUME VInv, job # NoJob \/ report = None \/ observed = None
  PROVE  verdict = None
BY DEF VInv, Settled, JobInv, Busy

(* A step that returns nothing.                                             *)
LEMMA ReproducesElsewhere ==
  ASSUME Reproduces, UNCHANGED <<operator, report>>, Remember \/ UNCHANGED answers,
         report # None => Caller' = Caller, verdict' = None
  PROVE  Reproduces' /\ ReportsReproduce'
<1>1. ReportsReproduce'
  BY DEF ReportsReproduce
<1>2. UNCHANGED operator /\ UNCHANGED report
  OBVIOUS
<1>3. ASSUME report # None, report.check # "Refused", operator.pure
      PROVE  Vouched(Caller, report)'
  <2>1. PICK e, r : e = Caller /\ r = report
    OBVIOUS
  <2>2. Vouched(e, r)
    BY <1>3, <2>1 DEF Reproduces
  <2>3. Vouched(e, r)'
    BY <2>2, <1>2, VouchedKept
  <2>4. Caller' = e /\ report' = r
    BY <1>2, <1>3, <2>1
  <2>5. QED
    BY <2>3, <2>4
<1>4. Reproduces'
  BY <1>2, <1>3 DEF Reproduces
<1>5. QED
  BY <1>1, <1>4

(* A check that ends: either nothing was reported before, or the report is  *)
(* the one made again.                                                      *)
LEMMA ReproducesConcludes ==
  ASSUME RInv, job # NoJob, NEW CONSTANT r, Conclude(r),
         r.check = "Refused" \/ r.passed \in BOOLEAN,
         report = None /\ operator.pure /\ r.check # "Refused" => Vouched(given, r),
         report # None => r = report
  PROVE  Reproduces' /\ ReportsReproduce'
<1>1. Settled /\ Busy
  BY DEF RInv, VInv, JobInv
<1>2. /\ job' = NoJob
      /\ IF observed = None
         THEN report = None /\ report' = r /\ verdict' = None
         ELSE report' = report /\ verdict' # None
  BY <1>1, SettledConcludes
<1>3. Load(given) /\ Answer(observed, r) /\ UNCHANGED <<operator, answers, observed>>
  BY DEF Conclude
<1>4. PICK e : e = given
  OBVIOUS
<1>5. Caller' = e /\ Caller = e
  <2>1. Execution' = e
    BY <1>1, <1>3, <1>4, LoadExecution DEF Busy, Fit
  <2>2. QED
    BY <1>2, <1>4, <2>1 DEF Caller
<1>6. CASE observed = None
  <2>1. report = None /\ report' = r /\ verdict' = None
    BY <1>2, <1>6
  <2>2. ASSUME operator.pure, r.check # "Refused" PROVE Vouched(Caller, report)'
    <3>1. Vouched(e, r)
      BY <1>4, <2>1, <2>2
    <3>2. Vouched(e, r)'
      BY <1>3, <3>1, VouchedKept
    <3>3. QED
      BY <1>5, <2>1, <3>2
  <2>3. Reproduces'
    BY <1>3, <2>1, <2>2 DEF Reproduces
  <2>4. QED
    BY <2>1, <2>3 DEF ReportsReproduce
<1>7. CASE observed # None
  <2>1. report # None /\ report' = report
    BY <1>1, <1>2, <1>7 DEF Settled
  <2>2. r = report
    BY <2>1
  <2>3. verdict' = RequireReport(observed, r)
    BY <1>3, <1>7 DEF Answer
  <2>4. ReportsReproduce'
    <3>1. observed' = observed /\ report' = r
      BY <1>3, <2>1, <2>2
    <3>2. CASE observed = r
      <4>1. verdict' = [validated |-> TRUE, accepted |-> r.passed]
        BY <2>3, <3>2 DEF RequireReport
      <4>2. QED
        BY <3>1, <3>2, <4>1 DEF ReportsReproduce
    <3>3. CASE observed # r
      <4>1. verdict' = [validated |-> FALSE]
        BY <2>3, <3>3 DEF RequireReport
      <4>2. QED
        BY <3>1, <3>3, <4>1 DEF ReportsReproduce
    <3>4. QED
      BY <3>2, <3>3
  <2>5. Reproduces'
    <3>1. UNCHANGED operator /\ UNCHANGED answers
      BY <1>3
    <3>2. ASSUME report.check # "Refused", operator.pure PROVE Vouched(Caller, report)'
      <4>1. Vouched(e, r)
        BY <1>5, <2>1, <2>2, <3>2 DEF RInv, Reproduces
      <4>2. Vouched(e, r)'
        BY <3>1, <4>1, VouchedKept
      <4>3. QED
        BY <1>5, <2>1, <2>2, <4>2
    <3>3. QED
      BY <2>1, <3>1, <3>2 DEF Reproduces
  <2>6. QED
    BY <2>4, <2>5
<1>8. QED
  BY <1>6, <1>7

LEMMA ReproducesRefused ==
  ASSUME RInv, job # NoJob, NEW code, Refused(code), report = None
  PROVE  Reproduces' /\ ReportsReproduce'
<1>1. PICK r : r = Refusal(job.request, code)
  OBVIOUS
<1>2. r.check = "Refused"
  <2>1. r = [check |-> "Refused", request |-> job.request, code |-> code]
    BY <1>1 DEF Refusal
  <2>2. QED
    BY <2>1
<1>3. Conclude(r)
  BY <1>1 DEF Refused
<1>4. QED
  BY <1>2, <1>3, ReproducesConcludes

(* What a job makes while a report is validated, it has made before.        *)
LEMMA JobRemade ==
  ASSUME RInv, job # NoJob, report # None,
         NEW CONSTANT e, NEW CONSTANT r, e = given, r = report
  PROVE  Remade(e, r)
BY DEF RInv, VInv, JobInv, Busy, Reproduces, Caller, Remade

LEMMA RunReproduces ==
  ASSUME RInv, Run
  PROVE  Reproduces' /\ ReportsReproduce'
<1>1. VInv /\ Reproduces
  BY DEF RInv
<1>2. /\ Remember /\ UNCHANGED <<operator, harness>> /\ pc # "idle"
      /\ UNCHANGED <<given, job, report, verdict>>
  BY <1>1, RunKeeps DEF Run, VInv, harness
<1>3. job # NoJob \/ report = None
  BY <1>1, <1>2 DEF VInv, Settled
<1>4. verdict' = None
  BY <1>1, <1>2, <1>3, NoVerdictYet
<1>5. report # None => Caller' = Caller
  BY <1>2, <1>3 DEF Caller
<1>6. QED
  BY <1>1, <1>2, <1>4, <1>5, ReproducesElsewhere

(* Nothing that was vouched for is refused.                                 *)
LEMMA VouchedOpens ==
  ASSUME NEW e, NEW r, Vouched(e, r), e = Execution
  PROVE  RefusalOf(r.request) = "None"
<1>1. /\ Encodable(Execution) /\ r.request.call.canonical
      /\ ValidateFor(r.request.evidence).bound
  BY DEF Vouched
<1>2. r.request.call.check = "Restart" =>
        0 < r.request.call.split /\ r.request.call.split < r.request.call.total
  BY DEF Vouched, RestartBy
<1>3. r.request.call.check = "History" => r.request.call.total # 0
  BY DEF Vouched, HistoryBy
<1>4. QED
  BY <1>1, <1>2, <1>3 DEF RefusalOf

LEMMA BeginReproduces ==
  ASSUME RInv, NEW CONSTANT request \in Requests, Begin(request)
  PROVE  Reproduces' /\ ReportsReproduce'
<1>1. VInv /\ report = None /\ Open(request, None)
  BY DEF RInv, Begin
<1>2. verdict' = None
  <2>1. verdict = None
    BY <1>1, NoVerdictYet
  <2>2. UNCHANGED verdict
    BY <1>1 DEF Open, Answer
  <2>3. QED
    BY <2>1, <2>2
<1>3. report' # None => report'.check = "Refused"
  BY <1>1, OpensJob DEF VInv
<1>4. QED
  BY <1>2, <1>3 DEF Reproduces, ReportsReproduce

LEMMA ValidateReproduces ==
  ASSUME RInv, NEW presented, Validate(presented)
  PROVE  Reproduces' /\ ReportsReproduce'
<1>1. /\ VInv /\ Reproduces /\ report # None /\ report.check # "Refused" /\ operator.pure
      /\ observed = None /\ Open(report.request, presented)
  BY DEF RInv, Validate
<1>2. job = NoJob /\ UNCHANGED <<operator, answers>>
  BY <1>1 DEF Open
<1>3. PICK e, r : e = Execution /\ r = report
  OBVIOUS
<1>4. Vouched(e, r)
  BY <1>1, <1>2, <1>3 DEF Reproduces, Caller
<1>5. RefusalOf(report.request) = "None"
  BY <1>3, <1>4, VouchedOpens
<1>6. /\ job' = NewJob(report.request) /\ given' = Execution
      /\ UNCHANGED <<report, verdict>>
  BY <1>1, <1>5 DEF Open
<1>7. job' # NoJob
  BY <1>1, <1>6, RequestAssumption DEF NewJob, NoJob, FirstStage, VInv, Asked
<1>8. Caller' = Caller
  BY <1>2, <1>6, <1>7 DEF Caller
<1>9. verdict' = None
  BY <1>1, <1>6, NoVerdictYet
<1>10. QED
  BY <1>1, <1>2, <1>6, <1>8, <1>9, ReproducesElsewhere

(* A job that goes on, from the caller's execution it was given.            *)
LEMMA JobReproduces ==
  ASSUME RInv, job # NoJob, job' # NoJob,
         UNCHANGED <<operator, answers, given, report, verdict>>
  PROVE  Reproduces' /\ ReportsReproduce'
<1>1. verdict' = None
  BY NoVerdictYet DEF RInv
<1>2. Caller' = Caller
  BY DEF Caller
<1>3. QED
  BY <1>1, <1>2, ReproducesElsewhere DEF RInv

LEMMA SteppedReproduces ==
  ASSUME RInv, Stepped
  PROVE  Reproduces' /\ ReportsReproduce'
<1>1. /\ Settled /\ JobInv /\ Working(Stepping) /\ job.calling /\ job # NoJob
      /\ job.stage \in Stepping /\ pc = "idle"
  BY DEF RInv, VInv, Stepped, Working, Stepping, NoJob
<1>2. CASE result = "Accepted"
  <2>1. /\ job' = SteppedJob
        /\ UNCHANGED <<operator, answers, given, report, observed, verdict, witness>>
        /\ UNCHANGED clone
    BY <1>2 DEF Stepped, SteppedJob, clone
  <2>2. job' # NoJob
    BY <1>1, <1>2, <2>1, SteppedKeeps
  <2>3. QED
    BY <1>1, <2>1, <2>2, JobReproduces
<1>3. CASE result # "Accepted"
  <2>1. Refused("Attempt")
    BY <1>3 DEF Stepped
  <2>2. report = None
    <3>1. SUFFICES ASSUME report # None PROVE FALSE
      OBVIOUS
    <3>2. PICK e, r : e = given /\ r = report
      OBVIOUS
    <3>3. Remade(e, r)
      BY <1>1, <3>1, <3>2, JobRemade
    <3>4. CASE job.stage = "accepting"
      BY <1>1, <1>3, <3>3, <3>4, AcceptingRemade DEF Working
    <3>5. CASE job.stage # "accepting"
      <4>1. Working({"continuous", "source", "restarted"})
        BY <1>1, <3>5 DEF Working, Stepping
      <4>2. QED
        BY <1>1, <1>3, <3>3, <4>1, RestartStepsRemade
    <3>6. QED
      BY <3>4, <3>5
  <2>3. QED
    BY <1>1, <2>1, <2>2, ReproducesRefused
<1>4. QED
  BY <1>2, <1>3

LEMMA StageReproduces ==
  ASSUME RInv, Attempt \/ KeepContinuous \/ Encode \/ Resume \/ Prime
  PROVE  Reproduces' /\ ReportsReproduce'
<1>1. Settled /\ JobInv /\ job # NoJob
  BY DEF RInv, VInv, Attempt, KeepContinuous, Encode, Resume, Prime, Finished, Working,
     Stepping, NoJob
<1>2. CASE Attempt
  <2>1. UNCHANGED <<operator, answers, given, report, verdict>> /\ job' # NoJob
    BY <1>1, <1>2, AttemptKeeps DEF Attempt
  <2>2. QED
    BY <1>1, <2>1, JobReproduces
<1>3. CASE KeepContinuous
  <2>1. UNCHANGED <<operator, answers, given, report, verdict>> /\ job' # NoJob
    BY <1>1, <1>3, KeepContinuousKeeps DEF KeepContinuous
  <2>2. QED
    BY <1>1, <2>1, JobReproduces
<1>4. CASE Encode
  <2>1. Finished("source")
    BY <1>4 DEF Encode
  <2>2. CASE Encodable(Execution)
    <3>1. /\ UNCHANGED <<operator, answers, given, report, verdict>>
          /\ job' # NoJob
      BY <1>1, <1>4, <2>2, EncodeKeeps DEF Encode
    <3>2. QED
      BY <1>1, <3>1, JobReproduces
  <2>3. CASE ~Encodable(Execution)
    <3>1. report = None
      <4>1. SUFFICES ASSUME report # None PROVE FALSE
        OBVIOUS
      <4>2. PICK e, r : e = given /\ r = report
        OBVIOUS
      <4>3. Remade(e, r)
        BY <1>1, <4>1, <4>2, JobRemade
      <4>4. /\ Working({"continuous", "source", "restarted"})
            /\ job.stage = "source" /\ ~job.calling /\ job.left = 0
        BY <2>1 DEF Finished, Working
      <4>5. QED
        BY <1>1, <2>3, <4>3, <4>4, RestartStepsRemade
    <3>2. Refused("Source")
      BY <1>4, <2>3 DEF Encode
    <3>3. QED
      BY <1>1, <3>1, <3>2, ReproducesRefused
  <2>4. QED
    BY <2>2, <2>3
<1>5. CASE Resume
  <2>1. Working({"restoring"})
    BY <1>5 DEF Resume
  <2>2. Exec!Restorable(job.saved)
    BY <1>1, <2>1, SavedRestorable
  <2>3. UNCHANGED <<operator, answers, given, report, verdict>> /\ job' # NoJob
    BY <1>1, <1>5, <2>2, ResumeKeeps DEF Resume
  <2>4. QED
    BY <1>1, <2>3, JobReproduces
<1>6. CASE Prime
  <2>1. Finished("accepting")
    BY <1>6 DEF Prime
  <2>2. CASE Encodable(Execution)
    <3>1. /\ UNCHANGED <<operator, answers, given, report, verdict>>
          /\ job' # NoJob
      BY <1>1, <1>6, <2>2, PrimeKeeps DEF Prime, clone
    <3>2. QED
      BY <1>1, <3>1, JobReproduces
  <2>3. CASE ~Encodable(Execution)
    <3>1. report = None
      <4>1. SUFFICES ASSUME report # None PROVE FALSE
        OBVIOUS
      <4>2. PICK e, r : e = given /\ r = report
        OBVIOUS
      <4>3. Remade(e, r)
        BY <1>1, <4>1, <4>2, JobRemade
      <4>4. Working({"accepting"}) /\ ~job.calling /\ job.left = 0
        BY <2>1 DEF Finished
      <4>5. QED
        BY <1>1, <2>3, <4>3, <4>4, AcceptingRemade
    <3>2. Refused("Source")
      BY <1>6, <2>3 DEF Prime
    <3>3. QED
      BY <1>1, <3>1, <3>2, ReproducesRefused
  <2>4. QED
    BY <2>2, <2>3
<1>7. QED
  BY <1>2, <1>3, <1>4, <1>5, <1>6

LEMMA ProbedReproduces ==
  ASSUME RInv, Probed
  PROVE  Reproduces' /\ ReportsReproduce'
<1>1. /\ Settled /\ JobInv /\ job # NoJob /\ Working({"probing"}) /\ job.calling
      /\ job.request.call.check \in {"Rollback", "History"}
  <2>1. Settled /\ JobInv /\ job # NoJob /\ Working({"probing"}) /\ job.calling
    BY DEF RInv, VInv, Probed, Working, NoJob
  <2>2. QED
    BY <2>1, StageOf DEF JobInv, Working
<1>2. PICK e : e = given
  OBVIOUS
<1>3. PICK old : old = report
  OBVIOUS
<1>4. report # None => Remade(e, old)
  BY <1>1, <1>2, <1>3, JobRemade
<1>5. CASE ~Encodable(Execution)
  <2>1. Refused("Source")
    BY <1>5 DEF Probed
  <2>2. report = None
    BY <1>1, <1>4, <1>5, RollbackRemade, HistoryRemade
  <2>3. QED
    BY <1>1, <2>1, <2>2, ReproducesRefused
<1>6. CASE Encodable(Execution) /\ job.request.call.check = "Rollback"
  <2>1. PICK r : r = RollbackReport
    OBVIOUS
  <2>2. Conclude(r)
    BY <1>6, <2>1 DEF Probed
  <2>3. r.passed \in BOOLEAN
    BY <2>1 DEF RollbackReport
  <2>4. Vouched(e, r)
    BY <1>1, <1>2, <1>6, <2>1, RollbackVouches
  <2>5. report # None => r = report
    BY <1>1, <1>3, <1>4, <1>6, <2>1, RollbackRemade
  <2>6. QED
    BY <1>1, <1>2, <2>2, <2>3, <2>4, <2>5, ReproducesConcludes
<1>7. CASE Encodable(Execution) /\ job.request.call.check = "History"
  <2>1. PICK r : r = HistoryReport
    OBVIOUS
  <2>2. Conclude(r)
    BY <1>7, <2>1 DEF Probed
  <2>3. r.passed \in BOOLEAN
    BY <2>1 DEF HistoryReport
  <2>4. Vouched(e, r)
    BY <1>1, <1>2, <1>7, <2>1, HistoryVouches
  <2>5. report # None => r = report
    BY <1>1, <1>3, <1>4, <1>7, <2>1, HistoryRemade
  <2>6. QED
    BY <1>1, <1>2, <2>2, <2>3, <2>4, <2>5, ReproducesConcludes
<1>8. QED
  BY <1>1, <1>5, <1>6, <1>7

LEMMA RestartedReproduces ==
  ASSUME RInv, Restarted
  PROVE  Reproduces' /\ ReportsReproduce'
<1>1. /\ Settled /\ JobInv /\ job # NoJob /\ Finished("restarted")
      /\ Working({"continuous", "source", "restarted"})
      /\ job.stage = "restarted" /\ ~job.calling /\ job.left = 0
  BY DEF RInv, VInv, Restarted, Finished, Working, NoJob
<1>2. PICK e : e = given
  OBVIOUS
<1>3. PICK old : old = report
  OBVIOUS
<1>4. report # None => Encodable(job.continuous) /\ Encodable(Execution) /\ RestartReport = old
  <2>1. report # None => Remade(e, old)
    BY <1>1, <1>2, <1>3, JobRemade
  <2>2. QED
    BY <1>1, <2>1, RestartStepsRemade
<1>5. CASE ~(Encodable(job.continuous) /\ Encodable(Execution))
  <2>1. Refused("Source")
    BY <1>5 DEF Restarted
  <2>2. report = None
    BY <1>4, <1>5
  <2>3. QED
    BY <1>1, <2>1, <2>2, ReproducesRefused
<1>6. CASE Encodable(job.continuous) /\ Encodable(Execution)
  <2>1. PICK r : r = RestartReport
    OBVIOUS
  <2>2. Conclude(r)
    BY <1>6, <2>1 DEF Restarted
  <2>3. r.passed \in BOOLEAN
    <3>1. job.accepted \in BOOLEAN
      BY <1>1 DEF JobInv, Busy, ValidateFor
    <3>2. QED
      BY <2>1, <3>1 DEF RestartReport
  <2>4. Vouched(e, r)
    BY <1>1, <1>2, <1>6, <2>1, RestartVouches
  <2>5. report # None => r = report
    BY <1>3, <1>4, <2>1
  <2>6. QED
    BY <1>1, <1>2, <2>2, <2>3, <2>4, <2>5, ReproducesConcludes
<1>7. QED
  BY <1>5, <1>6

LEMMA RBegins == Init => RInv
<1> SUFFICES ASSUME Init PROVE RInv
  OBVIOUS
<1>1. report = None /\ verdict = None
  BY DEF Init
<1>2. QED
  BY <1>1, VBegins DEF RInv, Reproduces, ReportsReproduce

LEMMA RKeeps == RInv /\ [Next]_vars => RInv'
<1> SUFFICES ASSUME RInv, [Next]_vars PROVE Reproduces' /\ ReportsReproduce'
  BY VKeeps DEF RInv
<1>1. CASE Prepare \/ Step
  <2>1. report = None /\ UNCHANGED <<operator, harness>>
    BY <1>1 DEF RInv, VInv, Settled, Prepare, Step, Exec!Prepare, Exec!Create
  <2>2. verdict = None
    BY <2>1, NoVerdictYet DEF RInv
  <2>3. QED
    BY <2>1, <2>2 DEF harness, Reproduces, ReportsReproduce
<1>2. CASE Run
  BY <1>2, RunReproduces
<1>3. CASE \E request \in Requests : Begin(request)
  BY <1>3, BeginReproduces
<1>4. CASE \E presented \in Presented(report) : Validate(presented)
  BY <1>4, ValidateReproduces
<1>5. CASE Stepped
  BY <1>5, SteppedReproduces
<1>6. CASE Attempt \/ KeepContinuous \/ Encode \/ Resume \/ Prime
  BY <1>6, StageReproduces
<1>7. CASE Probed
  BY <1>7, ProbedReproduces
<1>8. CASE Restarted
  BY <1>8, RestartedReproduces
<1>9. CASE UNCHANGED vars
  <2>1. /\ UNCHANGED <<operator, answers, given, job, report, observed, verdict>>
        /\ UNCHANGED <<phase, historyLimit, time, step, committed, trial, history, integrator,
                       refusals>>
    BY <1>9 DEF vars, harness, clone
  <2>2. ReportsReproduce'
    BY <2>1 DEF RInv, ReportsReproduce
  <2>3. Reproduces'
    <3>1. PICK e, r : e = Caller /\ r = report
      OBVIOUS
    <3>2. Caller' = e /\ report' = r
      BY <2>1, <3>1 DEF Caller, Execution
    <3>3. ASSUME Vouched(e, r) PROVE Vouched(Caller, report)'
      <4>1. Vouched(e, r)'
        BY <2>1, <3>3, VouchedKept
      <4>2. QED
        BY <3>2, <4>1
    <3>4. QED
      BY <2>1, <3>1, <3>3 DEF RInv, Reproduces
  <2>4. QED
    BY <2>2, <2>3
<1>10. QED
  BY <1>1, <1>2, <1>3, <1>4, <1>5, <1>6, <1>7, <1>8, <1>9 DEF Next

(* Validation (require_report): over an operator without hidden state the   *)
(* report made again from the same source and inputs is the one that was    *)
(* returned, so that it validates and no other one presented for it does;   *)
(* in between the check has left the caller's execution as it was.          *)
THEOREM ReportsAreMadeAgain == Spec => []ReportsReproduce
<1>1. RInv => ReportsReproduce
  BY DEF RInv
<1>2. QED
  BY <1>1, RBegins, RKeeps, PTL DEF Spec
=============================================================================
