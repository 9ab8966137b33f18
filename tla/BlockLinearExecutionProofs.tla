--------------------- MODULE BlockLinearExecutionProofs ---------------------
(***************************************************************************)
(* Proofs about BlockLinearExecution, for every layout, every set of       *)
(* vectors and times, and whatever the Krylov solver returns.              *)
(***************************************************************************)
EXTENDS BlockLinearExecution, TLAPS

----------------------------------------------------------------------------
(* What is proved of the state in SimulationStateProofs, said of the state  *)
(* this execution owns.  Sim and State are instances of the same module, so *)
(* their definitions are equal once they are expanded.                      *)

State == INSTANCE SimulationStateProofs WITH saved <- {c.state : c \in checkpoints}

LEMMA StateAssumed ==
  State!LayoutAssumption /\ State!ValueAssumption /\ State!BoundAssumption
BY StateAssumption
   DEF Sim!Blocks, State!Blocks, Sim!Vec, State!Vec

LEMMA StateBegins == Sim!Init => State!IInv
<1>1. Sim!Init => State!Init
  BY DEF Sim!Blocks, State!Blocks, Sim!Ids, State!Ids, Sim!NoTrial,
      State!NoTrial, Sim!New, State!New, Sim!Zeroed, State!Zeroed,
      Sim!ZeroVec, State!ZeroVec, Sim!Init, State!Init
<1>2. QED
  BY <1>1, StateAssumed, State!InitEstablishes

LEMMA StateSteps ==
  ASSUME State!IInv, [Sim!Next]_Sim!vars
  PROVE  State!IInv'
<1>1. [State!Next]_State!vars
  BY DEF Sim!Blocks, State!Blocks, Sim!Ids, State!Ids, Sim!Phases,
      State!Phases, Sim!Replies, State!Replies, Sim!Vec, State!Vec,
      Sim!FlatVec, State!FlatVec, Sim!Part, State!Part, Sim!Checkpoint,
      State!Checkpoint, Sim!store, State!store, Sim!vars, State!vars,
      Sim!IsFinite, State!IsFinite, Sim!Fits, State!Fits, Sim!Present,
      State!Present, Sim!Complete, State!Complete, Sim!NoTrial, State!NoTrial,
      Sim!Pushed, State!Pushed, Sim!CanInsertField, State!CanInsertField,
      Sim!CanInsertConstitutive, State!CanInsertConstitutive,
      Sim!CanBeginTrial, State!CanBeginTrial, Sim!CanSetTrial,
      State!CanSetTrial, Sim!CanSetTrialVector, State!CanSetTrialVector,
      Sim!CanCommit, State!CanCommit, Sim!CanRollback, State!CanRollback,
      Sim!CanCheckpoint, State!CanCheckpoint, Sim!SchemaMatches,
      State!SchemaMatches, Sim!HistoryFits, State!HistoryFits, Sim!CanRestore,
      State!CanRestore, Sim!InsertField, State!InsertField,
      Sim!InsertConstitutive, State!InsertConstitutive, Sim!BeginTrial,
      State!BeginTrial, Sim!SetTrial, State!SetTrial, Sim!SetTrialVector,
      State!SetTrialVector, Sim!HistoryAfterCommit, State!HistoryAfterCommit,
      Sim!Commit, State!Commit, Sim!Rollback, State!Rollback,
      Sim!CheckpointOf, State!CheckpointOf, Sim!TakeCheckpoint,
      State!TakeCheckpoint, Sim!Restore, State!Restore, Sim!Offers,
      State!Offers, Sim!Refuse, State!Refuse, Sim!Next, State!Next,
      Sim!Cardinality, State!Cardinality
<1>2. QED
  BY <1>1, StateAssumed, State!NextPreserves

LEMMA StateFacts ==
  State!IInv => Sim!TypeOK /\ Sim!TrialIsWhole /\ Sim!ShapesHold /\ Sim!HistoryBounded
BY DEF State!IInv, Sim!TypeOK, State!TypeOK, Sim!TrialIsWhole,
    State!TrialIsWhole, Sim!ShapesHold, State!ShapesHold, Sim!HistoryBounded,
    State!HistoryBounded, Sim!Blocks, State!Blocks, Sim!Ids, State!Ids,
    Sim!Phases, State!Phases, Sim!Replies, State!Replies, Sim!Vec, State!Vec,
    Sim!Checkpoint, State!Checkpoint, Sim!Fits, State!Fits, Sim!IsFinite,
    State!IsFinite, Sim!Present, State!Present, Sim!Complete, State!Complete,
    Sim!NoTrial, State!NoTrial

LEMMA StateWrites ==
  ASSUME State!IInv, NEW f \in Sim!FlatVec, Sim!SetTrialVector(f), NEW b \in Blocks
  PROVE  trial'[b] = Sim!Part(f, b)
<1>1. State!SetTrialVector(f) /\ f \in State!FlatVec /\ b \in State!Blocks
  BY DEF Blocks, Sim!Blocks, State!Blocks, Sim!Ids, State!Ids, Sim!FlatVec,
      State!FlatVec, Sim!Part, State!Part, Sim!IsFinite, State!IsFinite,
      Sim!Fits, State!Fits, Sim!Present, State!Present, Sim!CanSetTrial,
      State!CanSetTrial, Sim!CanSetTrialVector, State!CanSetTrialVector,
      Sim!SetTrialVector, State!SetTrialVector
<1>2. QED
  BY <1>1, StateAssumed, State!WrittenTrial DEF Sim!Part, State!Part

LEMMA StateCommits ==
  ASSUME State!IInv, NEW t, Sim!Commit(t), NEW b \in Blocks
  PROVE  /\ committed[b] \in Sim!Vec
         /\ committed'[b] = trial[b]
         /\ trial[b] \in Sim!Vec
         /\ history[b] \in Seq(Sim!Vec)
         /\ history'[b] \in Seq(Sim!Vec)
         /\ Len(history'[b]) =
              IF Len(history[b]) < historyLimit THEN Len(history[b]) + 1 ELSE historyLimit
         /\ \A k \in 1 .. Len(history'[b]) :
              history'[b][k] = IF k = 1 THEN committed[b] ELSE history[b][k - 1]
<1>1. State!Commit(t) /\ b \in State!Blocks
  BY DEF Blocks, Sim!Blocks, State!Blocks, Sim!Ids, State!Ids, Sim!Present,
      State!Present, Sim!NoTrial, State!NoTrial, Sim!Pushed, State!Pushed,
      Sim!CanCommit, State!CanCommit, Sim!HistoryAfterCommit,
      State!HistoryAfterCommit, Sim!Commit, State!Commit
<1>2. Sim!Vec = State!Vec
  BY DEF Sim!Vec, State!Vec
<1>3. QED
  BY <1>1, <1>2, StateAssumed, State!CommittedTrial, State!CommittedHistory

----------------------------------------------------------------------------
(* The invariant of the calls: where a call is, what it holds, and that it  *)
(* has moved nothing before its commit.  A failed call returns through a    *)
(* roll back, so FailureLeavesNoTrace needs that the state is still the one *)
(* the call found while its trial is open.                                  *)

CallRecord ==
  [goal : Times \cup {NonFinite},
   kind : {"None", "Converged", "Unconverged", "Refused", "Failed"},
   solution : Flats \cup {None}]

Solving == {"solving", "writing", "committing", "rollingBack"}

Written == [fits |-> TRUE, at |-> call.solution]

CallInv ==
  /\ pc \in {"preparing", "idle"} \cup Solving
  /\ call \in CallRecord
  /\ pc = "preparing" => result = "None"
  /\ pc \in {"writing", "committing"} => call.solution \in Flats
  /\ pc \in Solving => phase = "Trial" /\ before = Snapshot
  /\ pc = "idle" => phase = "Committed"
  /\ pc = "committing" => \A b \in Blocks : trial[b] = Sim!Part(Written, b)
  /\ pc = "idle" /\ result = "Err" => before = Snapshot

(* The invariant of the solutions: what is committed, remembered or saved   *)
(* has been solved for, and so has what is about to be committed.           *)
Solved(v, h) == FlatOf(v) \in solutions /\ LevelsOf(h) \subseteq solutions

SolvedInv ==
  /\ pc = "preparing" => checkpoints = {}
  /\ pc # "preparing" =>
       /\ Solved(committed, history)
       /\ \A c \in checkpoints : Solved(c.state.committed, c.state.history)
  /\ pc \in {"writing", "committing"} => call.solution \in solutions

Inv == State!IInv /\ CallInv

LEMMA InitInv == Init => Inv /\ SolvedInv
<1>1. Init => State!IInv
  BY StateBegins DEF Init
<1>2. Init => CallInv
  BY StateAssumption DEF Init, CallInv, NoCall, CallRecord, Solving, Sim!BoundAssumption
<1>3. Init => SolvedInv
  BY DEF Init, SolvedInv
<1>4. QED
  BY <1>1, <1>2, <1>3 DEF Inv

(* A step that does not touch the state is no step of the state.            *)
LEMMA SteadyStutters == Steady => UNCHANGED Sim!vars
BY DEF Steady, simVars, Sim!vars, Sim!store

(* Every step of the execution is a step of its state, made when the state  *)
(* allows it, or leaves the state alone.                                    *)
LEMMA StepsTransact ==
  ASSUME Inv, [Next]_vars
  PROVE  [Sim!Next]_Sim!vars
<1> USE DEF Inv
<1>0. Sim!TypeOK
  BY StateFacts
<1>1. CASE Prepare
  <2>1. ASSUME NEW b \in Blocks, NEW x \in Vals,
               Sim!InsertField(b, [len |-> BlockLen[b], val |-> x])
        PROVE  Sim!Next
    <3>1. b \in Sim!Blocks /\ [len |-> BlockLen[b], val |-> x] \in Sim!Vec
      BY StateAssumption DEF Sim!LayoutAssumption, Blocks, Sim!Blocks, Sim!Vec
    <3>2. QED
      BY <2>1, <3>1 DEF Sim!Next
  <2>2. ASSUME NEW s \in Slots, NEW n \in Lens,
               Sim!InsertConstitutive(s, [len |-> n, val |-> Zero])
        PROVE  Sim!Next
    <3>1. [len |-> n, val |-> Zero] \in Sim!Vec
      BY StateAssumption DEF Sim!ValueAssumption, Sim!Vec
    <3>2. QED
      BY <2>2, <3>1 DEF Sim!Next
  <2>3. CASE Sim!Commit(time)
    BY <1>0, <2>3 DEF Sim!Next, Sim!TypeOK
  <2>4. CASE Sim!BeginTrial \/ Sim!Rollback
    BY <2>4 DEF Sim!Next
  <2>5. QED
    BY <1>1, <2>1, <2>2, <2>3, <2>4 DEF Prepare
<1>2. CASE Create \/ Run
  BY <1>2, SteadyStutters DEF Create, Run
<1>3. ASSUME NEW goal \in Times \cup {NonFinite}, NEW admitted \in BOOLEAN,
             Solve(goal, admitted)
      PROVE  [Sim!Next]_Sim!vars
  BY <1>3 DEF Solve, Sim!Next, simVars, Sim!vars, Sim!store
<1>4. CASE Write
  <2>1. Written \in Sim!FlatVec
    BY <1>4 DEF Write, CallInv, Written, Flats, Blocks, Sim!Blocks, Sim!FlatVec
  <2>2. QED
    BY <1>4, <2>1 DEF Write, Written, Sim!Next
<1>5. CASE CommitTrial
  <2>1. call.goal \in Times \cup {NonFinite}
    BY DEF CallInv, CallRecord
  <2>2. Sim!Commit(call.goal) => call.goal \in Times
    BY <2>1 DEF Sim!Commit, Sim!CanCommit
  <2>3. QED
    BY <1>5, <2>2 DEF CommitTrial, Sim!Next
<1>6. CASE RollBack
  BY <1>6 DEF RollBack, Sim!Next
<1>7. CASE Checkpoint
  BY <1>7 DEF Checkpoint, Sim!Next
<1>8. ASSUME NEW c \in Offers, Restore(c)
      PROVE  [Sim!Next]_Sim!vars
  <2>1. c.own => c.state \in Sim!Offers
    BY DEF Offers
  <2>2. QED
    BY <1>8, <2>1 DEF Restore, Restorable, Sim!Next, simVars, Sim!vars, Sim!store
<1>9. CASE UNCHANGED vars
  BY <1>9 DEF vars, simVars, Sim!vars, Sim!store
<1>10. QED
  BY <1>1, <1>2, <1>3, <1>4, <1>5, <1>6, <1>7, <1>8, <1>9 DEF Next, Proceed

(* What a state operation leaves of the committed state and its history.    *)
LEMMA TrialKeepsCommitted ==
  ASSUME \/ Sim!BeginTrial
         \/ Sim!Refuse
         \/ Sim!Rollback
         \/ \E f : Sim!SetTrialVector(f)
         \/ UNCHANGED simVars
  PROVE  Snapshot' = Snapshot
BY DEF Snapshot, simVars, Sim!BeginTrial, Sim!Refuse, Sim!Rollback, Sim!SetTrialVector, Sim!store

(* A committed trial that held a flat vector is that vector.                *)
LEMMA CommitsWritten ==
  ASSUME State!IInv, NEW t, Sim!Commit(t), NEW f \in Flats,
         \A b \in Blocks : trial[b] = Sim!Part([fits |-> TRUE, at |-> f], b)
  PROVE  FlatOf(committed') = f
<1>1. \A b \in Blocks : committed'[b].val = f[b]
  <2> SUFFICES ASSUME NEW b \in Blocks PROVE committed'[b].val = f[b]
    OBVIOUS
  <2>1. committed'[b] = trial[b]
    BY StateCommits
  <2>2. trial[b] = [len |-> BlockLen[b], val |-> f[b]]
    BY DEF Sim!Part
  <2>3. QED
    BY <2>1, <2>2
<1>2. QED
  BY <1>1 DEF FlatOf, Flats

LEMMA NextKeepsCalls ==
  ASSUME Inv, [Next]_vars
  PROVE  CallInv'
<1> USE DEF Inv, CallInv, Solving
<1>0. Sim!TypeOK
  BY StateFacts
<1>1. CASE Prepare
  <2>1. pc = "preparing" /\ UNCHANGED <<pc, call, result, before>>
    BY <1>1 DEF Prepare
  <2>2. QED
    BY <2>1
<1>2. CASE Create
  <2>1. UNCHANGED <<call, result, before>> /\ UNCHANGED simVars
    BY <1>2 DEF Create, Steady
  <2>2. pc = "preparing"
    BY <1>2 DEF Create
  <2>3. QED
    BY <1>2, <2>1, <2>2 DEF Create, simVars
<1>3. ASSUME NEW goal \in Times \cup {NonFinite}, NEW admitted \in BOOLEAN,
             Solve(goal, admitted)
      PROVE  CallInv'
  <2>1. CASE admitted
    <3>1. Sim!BeginTrial /\ pc' = "solving" /\ before' = Snapshot /\ Snapshot' = Snapshot
      BY <1>3, <2>1, TrialKeepsCommitted DEF Solve
    <3>2. phase' = "Trial"
      BY <3>1 DEF Sim!BeginTrial
    <3>3. call' \in CallRecord
      BY <1>3, <2>1 DEF Solve, NoCall, CallRecord
    <3>4. QED
      BY <3>1, <3>2, <3>3
  <2>2. CASE ~admitted
    BY <1>3, <2>2, TrialKeepsCommitted DEF Solve, simVars
  <2>3. QED
    BY <2>1, <2>2
<1>4. CASE Run
  <2>1. UNCHANGED simVars /\ UNCHANGED before /\ Snapshot' = Snapshot /\ pc = "solving"
    BY <1>4, TrialKeepsCommitted DEF Run, Steady
  <2>2. call' \in CallRecord /\ (call'.kind = "Converged" => call'.solution \in Flats)
    BY <1>4 DEF Run, Krylov, CallRecord
  <2>3. pc' \in {"writing", "rollingBack"} /\ (pc' = "writing" => call'.kind = "Converged")
    BY <1>4 DEF Run
  <2>4. QED
    BY <2>1, <2>2, <2>3 DEF simVars
<1>5. CASE Write
  <2>1. Written \in Sim!FlatVec
    BY <1>5 DEF Write, Written, Flats, Blocks, Sim!Blocks, Sim!FlatVec
  <2>2. UNCHANGED <<call, before>> /\ Snapshot' = Snapshot
    BY <1>5, TrialKeepsCommitted DEF Write
  <2>3. CASE Sim!SetTrialVector(Written) /\ pc' = "committing"
    <3>1. \A b \in Blocks : trial'[b] = Sim!Part(Written, b)
      BY <2>1, <2>3, StateWrites
    <3>2. phase' = "Trial"
      BY <2>3 DEF Sim!SetTrialVector, Sim!CanSetTrialVector
    <3>3. QED
      BY <1>5, <2>2, <2>3, <3>1, <3>2 DEF Write, Written, Sim!Part
  <2>4. CASE Sim!Refuse /\ pc' = "rollingBack"
    BY <1>5, <2>2, <2>4 DEF Write, Sim!Refuse, Sim!store
  <2>5. QED
    BY <1>5, <2>3, <2>4 DEF Write, Written
<1>6. CASE CommitTrial
  <2>1. CASE Sim!Commit(call.goal) /\ Return("Solved")
    <3>1. pc' = "idle" /\ result' = "Solved" /\ phase' = "Committed"
      BY <2>1 DEF Return, Sim!Commit
    <3>2. call' \in CallRecord
      BY <2>1, StateAssumption DEF Return, NoCall, CallRecord, Sim!BoundAssumption
    <3>3. QED
      BY <3>1, <3>2
  <2>2. CASE Sim!Refuse /\ pc' = "rollingBack" /\ UNCHANGED <<call, result>>
    <3>1. Snapshot' = Snapshot /\ UNCHANGED <<phase, before>>
      BY <1>6, <2>2, TrialKeepsCommitted DEF CommitTrial, Sim!Refuse, Sim!store
    <3>2. QED
      BY <1>6, <2>2, <3>1 DEF CommitTrial
  <2>3. QED
    BY <1>6, <2>1, <2>2 DEF CommitTrial
<1>7. CASE RollBack
  <2>1. Snapshot' = Snapshot /\ UNCHANGED before /\ phase' = "Committed"
    BY <1>7, TrialKeepsCommitted DEF RollBack, Sim!Rollback
  <2>2. pc' = "idle" /\ pc \in Solving
    BY <1>7 DEF RollBack, Return
  <2>3. call' \in CallRecord
    BY <1>7, StateAssumption DEF RollBack, Return, NoCall, CallRecord, Sim!BoundAssumption
  <2>4. QED
    BY <2>1, <2>2, <2>3
<1>8. CASE Checkpoint
  <2>1. pc = "idle" /\ UNCHANGED <<pc, call, phase>> /\ result' = "Ok"
    BY <1>8 DEF Checkpoint, Sim!TakeCheckpoint, Sim!store
  <2>2. QED
    BY <2>1
<1>9. ASSUME NEW c \in Offers, Restore(c)
      PROVE  CallInv'
  <2>1. pc = "idle" /\ UNCHANGED <<pc, call>> /\ before' = Snapshot
    BY <1>9 DEF Restore
  <2>2. CASE Sim!Restore(c.state) /\ result' = "Ok"
    BY <2>1, <2>2 DEF Sim!Restore
  <2>3. CASE UNCHANGED simVars
    BY <2>1, <2>3, TrialKeepsCommitted DEF simVars
  <2>4. QED
    BY <1>9, <2>2, <2>3 DEF Restore
<1>10. CASE UNCHANGED vars
  BY <1>10, TrialKeepsCommitted DEF vars, simVars, Written, Sim!Part
<1>11. QED
  BY <1>1, <1>2, <1>3, <1>4, <1>5, <1>6, <1>7, <1>8, <1>9, <1>10 DEF Next, Proceed

LEMMA NextKeeps == Inv /\ [Next]_vars => Inv'
BY StepsTransact, StateSteps, NextKeepsCalls DEF Inv

(* The invariant holds of every behaviour.                                  *)
THEOREM Invariance == Spec => []Inv
<1>1. QED
  BY InitInv, NextKeeps, PTL DEF Spec

(* A call that returned an error has left the committed state and its       *)
(* history as it found them, with no trial open.                            *)
THEOREM FailuresLeaveNoTrace == Spec => []FailureLeavesNoTrace
<1>1. Inv => FailureLeavesNoTrace
  BY DEF Inv, CallInv, FailureLeavesNoTrace
<1>2. QED
  BY <1>1, Invariance, PTL

----------------------------------------------------------------------------
(* Only converged solutions are committed, as long as the caller hands      *)
(* restore the checkpoints it was given (a caller that alters one can put   *)
(* any vector into the state) or another operator's, which are refused.     *)

(* What a restore accepts is a checkpoint the caller keeps.                 *)
LEMMA RestoredIsKept ==
  ASSUME State!HonestDelivery, Sim!TypeOK, NEW c \in Offers, Restorable(c)
  PROVE  \E k \in checkpoints : k.state = c.state
<1>1. c.state \in Sim!Offers
  BY DEF Offers, Restorable
<1>2. PICK k \in checkpoints : c.state \in Delivered(k.state) \cap Sim!Checkpoint
  BY <1>1 DEF Sim!Offers
<1>3. k.state \in Sim!Checkpoint
  BY <1>2 DEF Sim!TypeOK
<1>4. State!WellFormed(c.state)
  BY DEF Restorable, Sim!CanRestore, State!WellFormed, Sim!Fits, State!Fits,
         Sim!IsFinite, State!IsFinite, Sim!HistoryFits, State!HistoryFits,
         Sim!Blocks, State!Blocks
<1>5. Sim!Checkpoint = State!Checkpoint
  BY DEF Sim!Checkpoint, State!Checkpoint, Sim!Ids, State!Ids, Sim!Blocks, State!Blocks,
         Sim!Vec, State!Vec
<1>6. c.state = k.state
  BY <1>2, <1>3, <1>4, <1>5 DEF State!HonestDelivery
<1>7. QED
  BY <1>6

(* A commit puts the committed vector in front of the levels there were.    *)
LEMMA CommittedLevels ==
  ASSUME State!IInv, NEW t, Sim!Commit(t)
  PROVE  LevelsOf(history') \subseteq LevelsOf(history) \cup {FlatOf(committed)}
<1> SUFFICES ASSUME NEW k \in 1 .. Len(history'[1]),
                    \A b \in Blocks : k <= Len(history'[b])
             PROVE  [b \in Blocks |-> history'[b][k].val]
                      \in LevelsOf(history) \cup {FlatOf(committed)}
  BY DEF LevelsOf
<1>0. 1 \in Blocks
  BY StateAssumption DEF Blocks, Sim!LayoutAssumption
<1>1. \A b \in Blocks : /\ Len(history[b]) \in Nat
                        /\ Len(history'[b]) \in Nat
                        /\ Len(history'[b]) <= Len(history[b]) + 1
                        /\ k \in 1 .. Len(history'[b])
                        /\ history'[b][k] = IF k = 1 THEN committed[b] ELSE history[b][k - 1]
  <2> SUFFICES ASSUME NEW b \in Blocks
               PROVE  /\ Len(history[b]) \in Nat
                      /\ Len(history'[b]) \in Nat
                      /\ Len(history'[b]) <= Len(history[b]) + 1
                      /\ k \in 1 .. Len(history'[b])
                      /\ history'[b][k] = IF k = 1 THEN committed[b] ELSE history[b][k - 1]
    OBVIOUS
  <2>1. /\ history[b] \in Seq(Sim!Vec)
        /\ history'[b] \in Seq(Sim!Vec)
        /\ Len(history'[b]) =
             IF Len(history[b]) < historyLimit THEN Len(history[b]) + 1 ELSE historyLimit
        /\ \A j \in 1 .. Len(history'[b]) :
             history'[b][j] = IF j = 1 THEN committed[b] ELSE history[b][j - 1]
    BY StateCommits
  <2>2. historyLimit \in Nat
    BY StateFacts DEF Sim!TypeOK
  <2>3. k \in 1 .. Len(history'[b])
    BY <2>1
  <2>4. QED
    BY <2>1, <2>2, <2>3
<1>2. CASE k = 1
  BY <1>1, <1>2 DEF FlatOf
<1>3. CASE k # 1
  <2>1. k - 1 \in 1 .. Len(history[1]) /\ \A b \in Blocks : k - 1 <= Len(history[b])
    BY <1>0, <1>1, <1>3
  <2>2. [b \in Blocks |-> history'[b][k].val] = [b \in Blocks |-> history[b][k - 1].val]
    BY <1>1, <1>3
  <2>3. QED
    BY <2>1, <2>2 DEF LevelsOf
<1>4. QED
  BY <1>2, <1>3

LEMMA NextKeepsSolved ==
  ASSUME State!HonestDelivery, Inv, SolvedInv, [Next]_vars
  PROVE  SolvedInv'
<1> USE DEF SolvedInv, Solved
<1>0. Sim!TypeOK
  BY StateFacts DEF Inv
<1>1. CASE Prepare
  BY <1>1 DEF Prepare
<1>2. CASE Create
  BY <1>2 DEF Create, Steady, simVars, FlatOf, LevelsOf
<1>3. ASSUME NEW goal \in Times \cup {NonFinite}, NEW admitted \in BOOLEAN,
             Solve(goal, admitted)
      PROVE  SolvedInv'
  <2>1. UNCHANGED <<checkpoints, solutions>> /\ pc' \in {"solving", "idle"} /\ pc = "idle"
    BY <1>3 DEF Solve
  <2>2. UNCHANGED <<committed, history>>
    BY <1>3 DEF Solve, simVars, Sim!BeginTrial
  <2>3. QED
    BY <2>1, <2>2 DEF FlatOf, LevelsOf
<1>4. CASE Run
  <2>1. UNCHANGED <<checkpoints, committed, history>> /\ pc = "solving"
    BY <1>4 DEF Run, Steady, simVars
  <2>2. solutions \subseteq solutions' /\ pc' \in {"writing", "rollingBack"}
    BY <1>4 DEF Run
  <2>3. pc' = "writing" => call'.solution \in solutions'
    BY <1>4 DEF Run
  <2>4. QED
    BY <2>1, <2>2, <2>3 DEF FlatOf, LevelsOf
<1>5. CASE Write \/ RollBack
  <2>1. UNCHANGED <<checkpoints, committed, history, solutions>> /\ pc # "preparing"
    BY <1>5 DEF Write, RollBack, Sim!SetTrialVector, Sim!Refuse, Sim!Rollback, Sim!store
  <2>2. pc' = "committing" => call' = call /\ pc = "writing"
    BY <1>5 DEF Write, RollBack, Return
  <2>3. pc' \in {"committing", "rollingBack", "idle"}
    BY <1>5 DEF Write, RollBack, Return
  <2>4. QED
    BY <2>1, <2>2, <2>3 DEF FlatOf, LevelsOf
<1>6. CASE CommitTrial
  <2>1. UNCHANGED <<checkpoints, solutions>> /\ pc = "committing"
    BY <1>6 DEF CommitTrial
  <2>2. CASE Sim!Commit(call.goal) /\ pc' = "idle"
    <3>1. FlatOf(committed') = call.solution
      BY <2>1, <2>2, CommitsWritten DEF Inv, CallInv, Written
    <3>2. LevelsOf(history') \subseteq solutions
      BY <2>1, <2>2, CommittedLevels DEF Inv
    <3>3. QED
      BY <2>1, <2>2, <3>1, <3>2 DEF FlatOf, LevelsOf
  <2>3. CASE Sim!Refuse /\ pc' = "rollingBack"
    BY <2>1, <2>3 DEF Sim!Refuse, Sim!store, FlatOf, LevelsOf
  <2>4. QED
    BY <1>6, <2>2, <2>3 DEF CommitTrial, Return
<1>7. CASE Checkpoint
  <2>1. /\ checkpoints' = checkpoints \cup {[own |-> TRUE, state |-> Sim!CheckpointOf]}
        /\ UNCHANGED <<committed, history, solutions, pc>> /\ pc = "idle"
    BY <1>7 DEF Checkpoint, Sim!TakeCheckpoint, Sim!store
  <2>2. Sim!CheckpointOf.committed = committed /\ Sim!CheckpointOf.history = history
    BY DEF Sim!CheckpointOf
  <2>3. QED
    BY <2>1, <2>2 DEF FlatOf, LevelsOf
<1>8. ASSUME NEW c \in Offers, Restore(c)
      PROVE  SolvedInv'
  <2>1. UNCHANGED <<checkpoints, solutions, pc>> /\ pc = "idle"
    BY <1>8 DEF Restore
  <2>2. CASE Restorable(c) /\ Sim!Restore(c.state)
    <3>1. PICK k \in checkpoints : k.state = c.state
      BY <1>0, <2>2, RestoredIsKept
    <3>2. committed' = k.state.committed /\ history' = k.state.history
      BY <2>2, <3>1 DEF Sim!Restore
    <3>3. QED
      BY <2>1, <3>2 DEF FlatOf, LevelsOf
  <2>3. CASE UNCHANGED simVars
    BY <2>1, <2>3 DEF simVars, FlatOf, LevelsOf
  <2>4. QED
    BY <1>8, <2>2, <2>3 DEF Restore
<1>9. CASE UNCHANGED vars
  <2>1. UNCHANGED <<committed, history, checkpoints, solutions, call, pc>>
    BY <1>9 DEF vars, simVars
  <2>2. Solved(committed, history)' <=> Solved(committed, history)
    BY <2>1 DEF FlatOf, LevelsOf
  <2>3. ASSUME NEW c \in checkpoints
        PROVE  Solved(c.state.committed, c.state.history)' <=>
               Solved(c.state.committed, c.state.history)
    BY <2>1 DEF FlatOf, LevelsOf
  <2>4. QED
    BY <2>1, <2>2, <2>3 DEF FlatOf, LevelsOf
<1>10. CASE Proceed
  BY <1>3, <1>4, <1>5, <1>6, <1>10 DEF Proceed
<1>11. CASE Next
  BY <1>1, <1>2, <1>3, <1>7, <1>8, <1>10, <1>11 DEF Next
<1>12. QED
  BY <1>9, <1>11

(* solve never commits, and restore never brings in, a vector the solver    *)
(* has not converged to: neither as the committed state, nor in its history *)
(* nor in a checkpoint.                                                     *)
THEOREM OnlySolutionsCommitted ==
  ASSUME State!HonestDelivery
  PROVE  Spec => []OnlyConvergedCommitted
<1>1. Inv /\ SolvedInv /\ [Next]_vars => SolvedInv'
  BY NextKeepsSolved
<1>2. SolvedInv => OnlyConvergedCommitted
  BY DEF SolvedInv, Solved, OnlyConvergedCommitted
<1>3. QED
  BY <1>1, <1>2, InitInv, Invariance, PTL DEF Spec

----------------------------------------------------------------------------
(* Every call is atomic for its caller.  What is missing for it is that     *)
(* the trial of a slot is its committed vector: no solver writes a slot, so *)
(* the commit of a solution leaves the slots as they were.                  *)

SlotsStay == phase = "Trial" => \A s \in Slots : trial[s] = committed[s]

LEMMA NextKeepsSlots ==
  ASSUME Inv, SlotsStay, [Next]_vars
  PROVE  SlotsStay'
<1> USE DEF SlotsStay
<1>0. \A s \in Slots : s \in Sim!Ids /\ s \notin Sim!Blocks
  BY StateAssumption DEF Sim!LayoutAssumption, Sim!Ids
<1>1. ASSUME \/ \E b, v : Sim!InsertField(b, v)
             \/ \E r, v : Sim!InsertConstitutive(r, v)
             \/ \E t : Sim!Commit(t)
             \/ \E c : Sim!Restore(c)
             \/ Sim!Rollback
      PROVE  SlotsStay'
  BY <1>1 DEF Sim!InsertField, Sim!InsertConstitutive, Sim!CanInsertField,
      Sim!CanInsertConstitutive, Sim!Commit, Sim!Restore, Sim!Rollback
<1>2. CASE Sim!BeginTrial
  BY <1>2 DEF Sim!BeginTrial
<1>3. ASSUME NEW f, Sim!SetTrialVector(f)
      PROVE  SlotsStay'
  BY <1>0, <1>3 DEF Sim!SetTrialVector, Sim!CanSetTrialVector
<1>4. CASE UNCHANGED <<phase, trial, committed>>
  BY <1>4
<1>5. QED
  BY <1>1, <1>2, <1>3, <1>4
     DEF Next, Proceed, Prepare, Create, Solve, Run, Write, CommitTrial, RollBack, Checkpoint,
         Restore, Steady, vars, simVars, Sim!Refuse, Sim!TakeCheckpoint, Sim!store

LEMMA OneMoreState ==
  ASSUME NEW S, NEW k
  PROVE  {c.state : c \in S \cup {k}} = {c.state : c \in S} \cup {k.state}
OBVIOUS

(* What the caller sees in the middle of a call that has moved nothing.     *)
LEMMA FoundIsThere == before = Snapshot => Found = Sim!CheckpointOf
BY DEF Found, Snapshot, Sim!CheckpointOf

LEMMA SameCheckpoint ==
  Snapshot' = Snapshot => (Sim!CheckpointOf)' = Sim!CheckpointOf
BY DEF Snapshot, Sim!CheckpointOf

(* A commit moves the state one step on.                                    *)
LEMMA CommitIsOneStep ==
  ASSUME State!IInv, SlotsStay, NEW t, Sim!Commit(t)
  PROVE  Calls!OneStepOn(Sim!CheckpointOf, (Sim!CheckpointOf)')
<1>1. /\ step' = step + 1 /\ time' = t /\ t >= time /\ historyLimit' = historyLimit
      /\ phase = "Trial"
  BY DEF Sim!Commit, Sim!CanCommit
<1>2. Sim!TypeOK /\ Sim!TrialIsWhole
  BY StateFacts
<1>3. ASSUME NEW b \in Blocks
      PROVE  history'[b] = IF historyLimit = 0 THEN history[b]
               ELSE SubSeq(<<committed[b]>> \o history[b], 1,
                      IF Len(history[b]) < historyLimit THEN Len(history[b]) + 1
                      ELSE historyLimit)
  <2>1. b \in Sim!Blocks /\ Sim!Present(b)
    BY <1>1, <1>2 DEF Sim!TrialIsWhole, Sim!Complete, Blocks, Sim!Blocks
  <2>2. QED
    BY <2>1 DEF Sim!Commit, Sim!HistoryAfterCommit, Sim!Pushed
<1>4. ASSUME NEW i \in DOMAIN committed \ Blocks
      PROVE  committed'[i] = committed[i]
  <2>1. i \in Slots /\ i \in Sim!Ids
    BY <1>2 DEF Sim!TypeOK, Sim!Ids, Sim!Blocks, Blocks
  <2>2. QED
    BY <1>1, <2>1 DEF Sim!Commit, Sim!Present, SlotsStay
<1>5. QED
  BY <1>1, <1>3, <1>4 DEF Calls!OneStepOn, Sim!CheckpointOf

(* A restored state is one that was kept, under honest delivery.            *)
LEMMA RestoreGoesBack ==
  ASSUME State!HonestDelivery, Sim!TypeOK, NEW c \in Offers, Restorable(c), Sim!Restore(c.state)
  PROVE  (Sim!CheckpointOf)' \in {k.state : k \in checkpoints}
<1>1. PICK k \in checkpoints : k.state = c.state
  BY RestoredIsKept
<1>2. k.state \in Sim!Checkpoint
  BY DEF Sim!TypeOK
<1>3. c.state.ownLayout = TRUE
  BY <1>1, <1>2 DEF Sim!Checkpoint, Sim!Restore, Sim!CanRestore
<1>4. (Sim!CheckpointOf)' = k.state
  BY <1>1, <1>2, <1>3 DEF Sim!CheckpointOf, Sim!Restore, Sim!Checkpoint
<1>5. QED
  BY <1>4

LEMMA NextIsAtomic ==
  ASSUME State!HonestDelivery, Inv, SlotsStay, [Next]_vars
  PROVE  [Calls!Next]_Calls!vars
<1> USE DEF AtRest
<1>0. /\ Sim!TypeOK
      /\ pc \in {"preparing", "idle"} \cup Solving
      /\ pc \in Solving => Found = Sim!CheckpointOf
      /\ pc = "idle" => phase = "Committed"
  BY StateFacts, FoundIsThere DEF Inv, CallInv
<1>1. CASE Prepare
  BY <1>1 DEF Prepare, Calls!Next, Calls!Prepare
<1>2. CASE Create
  BY <1>2 DEF Create, Steady, simVars, Sim!CheckpointOf, Calls!Next, Calls!Create
<1>3. ASSUME NEW goal \in Times \cup {NonFinite}, NEW admitted \in BOOLEAN,
             Solve(goal, admitted)
      PROVE  Calls!Next
  <2>1. /\ pc = "idle" /\ before' = Snapshot /\ UNCHANGED checkpoints
        /\ Snapshot' = Snapshot
    BY <1>3, TrialKeepsCommitted DEF Solve
  <2>2. /\ Found' = Sim!CheckpointOf
        /\ (Sim!CheckpointOf)' = Sim!CheckpointOf
    BY <2>1, FoundIsThere, SameCheckpoint DEF Found, Snapshot, Sim!CheckpointOf
  <2>3. CASE admitted
    BY <1>0, <1>3, <2>1, <2>2, <2>3 DEF Solve, Calls!Next, Calls!Begin
  <2>4. CASE ~admitted
    <3>1. UNCHANGED <<pc, phase>> /\ result' = "Err"
      BY <1>3, <2>4 DEF Solve, simVars
    <3>2. QED
      BY <1>0, <2>1, <2>2, <3>1 DEF Calls!Next, Calls!Fail
  <2>5. QED
    BY <2>3, <2>4
<1>4. CASE Run \/ Write
  <2>1. pc \in Solving /\ pc' \in Solving /\ UNCHANGED <<before, checkpoints>>
    BY <1>4 DEF Run, Write, Steady, Solving
  <2>2. QED
    BY <2>1 DEF Calls!vars, Found, Solving
<1>5. CASE CommitTrial
  <2>1. pc = "committing" /\ UNCHANGED <<before, checkpoints>>
    BY <1>5 DEF CommitTrial
  <2>2. CASE Sim!Commit(call.goal) /\ Return("Solved")
    <3>1. /\ pc' = "idle" /\ result' = "Solved" /\ phase' = "Committed"
          /\ Calls!OneStepOn(Sim!CheckpointOf, (Sim!CheckpointOf)')
      BY <2>2, CommitIsOneStep DEF Return, Sim!Commit, Inv
    <3>2. QED
      BY <1>0, <2>1, <3>1 DEF Calls!Next, Calls!Step, Calls!OneStepOn, Solving
  <2>3. CASE pc' = "rollingBack"
    BY <2>1, <2>3 DEF Calls!vars, Found
  <2>4. QED
    BY <1>5, <2>2, <2>3 DEF CommitTrial
<1>6. CASE RollBack
  <2>1. /\ pc = "rollingBack" /\ pc' = "idle" /\ result' = "Err" /\ phase' = "Committed"
        /\ UNCHANGED checkpoints /\ (Sim!CheckpointOf)' = Sim!CheckpointOf
    BY <1>6, TrialKeepsCommitted, SameCheckpoint DEF RollBack, Return, Sim!Rollback
  <2>2. QED
    BY <1>0, <2>1 DEF Calls!Next, Calls!Fail, Solving
<1>7. CASE Checkpoint
  <2>1. /\ pc = "idle" /\ pc' = "idle" /\ result' = "Ok" /\ UNCHANGED phase
        /\ checkpoints' = checkpoints \cup {[own |-> TRUE, state |-> Sim!CheckpointOf]}
        /\ (Sim!CheckpointOf)' = Sim!CheckpointOf
    BY <1>7 DEF Checkpoint, Sim!TakeCheckpoint, Sim!store, Sim!CheckpointOf
  <2>2. {c.state : c \in checkpoints'} = {c.state : c \in checkpoints} \cup {Sim!CheckpointOf}
    BY <2>1, OneMoreState
  <2>3. QED
    BY <1>0, <2>1, <2>2 DEF Calls!Next, Calls!Keep
<1>8. ASSUME NEW c \in Offers, Restore(c)
      PROVE  Calls!Next
  <2>1. pc = "idle" /\ UNCHANGED <<checkpoints, pc>>
    BY <1>8 DEF Restore
  <2>2. CASE Restorable(c) /\ Sim!Restore(c.state) /\ result' = "Ok"
    <3>1. phase' = "Committed" /\ (Sim!CheckpointOf)' \in {k.state : k \in checkpoints}
      BY <1>0, <2>2, RestoreGoesBack DEF Sim!Restore
    <3>2. QED
      BY <1>0, <2>1, <2>2, <3>1 DEF Calls!Next, Calls!Back
  <2>3. CASE result' = "Err" /\ UNCHANGED simVars
    BY <1>0, <2>1, <2>3 DEF simVars, Sim!CheckpointOf, Calls!Next, Calls!Fail
  <2>4. QED
    BY <1>8, <2>2, <2>3 DEF Restore
<1>9. CASE UNCHANGED vars
  BY <1>9 DEF vars, simVars, Sim!CheckpointOf, Found, Calls!vars
<1>10. QED
  BY <1>1, <1>2, <1>3, <1>4, <1>5, <1>6, <1>7, <1>8, <1>9 DEF Next, Proceed

(* Seen from outside, a call has taken the committed state one step on with *)
(* one more level of history, or back to a state that was kept, or has left *)
(* it alone, and has said which.                                            *)
THEOREM CallsAlwaysAtomic ==
  ASSUME State!HonestDelivery
  PROVE  Spec => CallsAreAtomic
<1>1. Init => SlotsStay /\ Calls!Init
  BY DEF Init, Sim!Init, SlotsStay, AtRest, Calls!Init
<1>2. Inv /\ SlotsStay /\ [Next]_vars => SlotsStay'
  BY NextKeepsSlots
<1>3. Inv /\ SlotsStay /\ [Next]_vars => [Calls!Next]_Calls!vars
  BY NextIsAtomic
<1>4. QED
  BY <1>1, <1>2, <1>3, Invariance, PTL DEF Spec, CallsAreAtomic, Calls!Spec
=============================================================================
