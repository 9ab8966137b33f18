--------------------- MODULE PartitionedExecutionProofs ---------------------
(***************************************************************************)
(* Proofs about PartitionedExecution, for every layout, every set of       *)
(* changes, floors and norms, every configuration validate admits, and     *)
(* whatever the sweeps and the accelerated driver return.                  *)
(***************************************************************************)
EXTENDS PartitionedExecution, TLAPS

----------------------------------------------------------------------------
(* What is proved of the state in SimulationStateProofs, said of the state  *)
(* this execution owns.  Sim and State are instances of the same module, so *)
(* their definitions are equal once they are expanded.                      *)

State == INSTANCE SimulationStateProofs WITH saved <- {c.state : c \in checkpoints}

LEMMA StateAssumed ==
  State!LayoutAssumption /\ State!ValueAssumption /\ State!BoundAssumption
BY StateAssumption
   DEF Sim!Blocks, State!Blocks, Sim!Vec, State!Vec

LEMMA StateBegins == Sim!Init => State!IInv
<1>1. Sim!Init => State!Init
  BY DEF Sim!Blocks, State!Blocks, Sim!Ids, State!Ids, Sim!NoTrial,
      State!NoTrial, Sim!New, State!New, Sim!Zeroed, State!Zeroed,
      Sim!ZeroVec, State!ZeroVec, Sim!Init, State!Init
<1>2. QED
  BY <1>1, StateAssumed, State!InitEstablishes

LEMMA StateSteps ==
  ASSUME State!IInv, [Sim!Next]_Sim!vars
  PROVE  State!IInv'
<1>1. [State!Next]_State!vars
  BY DEF Sim!Blocks, State!Blocks, Sim!Ids, State!Ids, Sim!Phases,
      State!Phases, Sim!Replies, State!Replies, Sim!Vec, State!Vec,
      Sim!FlatVec, State!FlatVec, Sim!Part, State!Part, Sim!Checkpoint,
      State!Checkpoint, Sim!store, State!store, Sim!vars, State!vars,
      Sim!IsFinite, State!IsFinite, Sim!Fits, State!Fits, Sim!Present,
      State!Present, Sim!Complete, State!Complete, Sim!NoTrial, State!NoTrial,
      Sim!Pushed, State!Pushed, Sim!CanInsertField, State!CanInsertField,
      Sim!CanInsertConstitutive, State!CanInsertConstitutive,
      Sim!CanBeginTrial, State!CanBeginTrial, Sim!CanSetTrial,
      State!CanSetTrial, Sim!CanSetTrialVector, State!CanSetTrialVector,
      Sim!CanCommit, State!CanCommit, Sim!CanRollback, State!CanRollback,
      Sim!CanCheckpoint, State!CanCheckpoint, Sim!SchemaMatches,
      State!SchemaMatches, Sim!HistoryFits, State!HistoryFits, Sim!CanRestore,
      State!CanRestore, Sim!InsertField, State!InsertField,
      Sim!InsertConstitutive, State!InsertConstitutive, Sim!BeginTrial,
      State!BeginTrial, Sim!SetTrial, State!SetTrial, Sim!SetTrialVector,
      State!SetTrialVector, Sim!HistoryAfterCommit, State!HistoryAfterCommit,
      Sim!Commit, State!Commit, Sim!Rollback, State!Rollback,
      Sim!CheckpointOf, State!CheckpointOf, Sim!TakeCheckpoint,
      State!TakeCheckpoint, Sim!Restore, State!Restore, Sim!Offers,
      State!Offers, Sim!Refuse, State!Refuse, Sim!Next, State!Next,
      Sim!Cardinality, State!Cardinality
<1>2. QED
  BY <1>1, StateAssumed, State!NextPreserves

LEMMA StateFacts ==
  State!IInv => Sim!TypeOK /\ Sim!TrialIsWhole /\ Sim!ShapesHold /\ Sim!HistoryBounded
BY DEF State!IInv, Sim!TypeOK, State!TypeOK, Sim!TrialIsWhole,
    State!TrialIsWhole, Sim!ShapesHold, State!ShapesHold, Sim!HistoryBounded,
    State!HistoryBounded, Sim!Blocks, State!Blocks, Sim!Ids, State!Ids,
    Sim!Phases, State!Phases, Sim!Replies, State!Replies, Sim!Vec, State!Vec,
    Sim!Checkpoint, State!Checkpoint, Sim!Fits, State!Fits, Sim!IsFinite,
    State!IsFinite, Sim!Present, State!Present, Sim!Complete, State!Complete,
    Sim!NoTrial, State!NoTrial

LEMMA StateWrites ==
  ASSUME State!IInv, NEW f \in Sim!FlatVec, Sim!SetTrialVector(f), NEW b \in Blocks
  PROVE  trial'[b] = Sim!Part(f, b)
<1>1. State!SetTrialVector(f) /\ f \in State!FlatVec /\ b \in State!Blocks
  BY DEF Blocks, Sim!Blocks, State!Blocks, Sim!Ids, State!Ids, Sim!FlatVec,
      State!FlatVec, Sim!Part, State!Part, Sim!IsFinite, State!IsFinite,
      Sim!Fits, State!Fits, Sim!Present, State!Present, Sim!CanSetTrial,
      State!CanSetTrial, Sim!CanSetTrialVector, State!CanSetTrialVector,
      Sim!SetTrialVector, State!SetTrialVector
<1>2. QED
  BY <1>1, StateAssumed, State!WrittenTrial DEF Sim!Part, State!Part

LEMMA StateCommits ==
  ASSUME State!IInv, NEW t, Sim!Commit(t), NEW b \in Blocks
  PROVE  /\ committed[b] \in Sim!Vec
         /\ committed'[b] = trial[b]
         /\ trial[b] \in Sim!Vec
         /\ history[b] \in Seq(Sim!Vec)
         /\ history'[b] \in Seq(Sim!Vec)
         /\ Len(history'[b]) =
              IF Len(history[b]) < historyLimit THEN Len(history[b]) + 1 ELSE historyLimit
         /\ \A k \in 1 .. Len(history'[b]) :
              history'[b][k] = IF k = 1 THEN committed[b] ELSE history[b][k - 1]
<1>1. State!Commit(t) /\ b \in State!Blocks
  BY DEF Blocks, Sim!Blocks, State!Blocks, Sim!Ids, State!Ids, Sim!Present,
      State!Present, Sim!NoTrial, State!NoTrial, Sim!Pushed, State!Pushed,
      Sim!CanCommit, State!CanCommit, Sim!HistoryAfterCommit,
      State!HistoryAfterCommit, Sim!Commit, State!Commit
<1>2. Sim!Vec = State!Vec
  BY DEF Sim!Vec, State!Vec
<1>3. QED
  BY <1>1, <1>2, StateAssumed, State!CommittedTrial, State!CommittedHistory

----------------------------------------------------------------------------
(* The invariant of the calls.  The committed state does not move before    *)
(* the commit, and the verdict of a solve is settled before the roll back   *)
(* or the commit that ends it, so what the properties say of an idle        *)
(* execution must hold from there on; the sweeps made so far bound what can *)
(* still be recorded.                                                       *)

RunRecord ==
  [goal : Times \cup {NonFinite}, once : BOOLEAN, sweeps : Seq(Changes \cup {Unbounded}),
   image : Flats \cup {None}, failure : BOOLEAN, floor : Floors \cup {0}]

Solving ==
  {"validating", "sweeping", "accelerating", "writing", "committing", "rollingBack"}

Written == [fits |-> TRUE, at |-> run.image]

(* The control of the iteration, and how many sweeps it has made.           *)
IterationInv ==
  /\ pc = "validating" => run.sweeps = <<>>
  /\ pc = "sweeping" => IF run.once THEN run.sweeps = <<>> ELSE Len(run.sweeps) < MaxSweeps
  /\ pc = "accelerating" =>
       ~run.once /\ Len(run.sweeps) \in 1 .. MaxSweeps /\ run.image \in Flats
  /\ pc \in {"writing", "committing"} =>
       /\ run.image \in Flats
       /\ Len(run.sweeps) <= (IF run.once THEN 1 ELSE MaxSweeps)
       /\ ~run.once => Previous <= Tolerance

(* A refusal is settled before the roll back.                               *)
Earned ==
  /\ result = "Diverged" => First \/ Previous > run.floor
  /\ result = "MaxSweeps" =>
       /\ ~run.once
       /\ Len(run.sweeps) = MaxSweeps \/ (~First /\ Previous <= run.floor)
  /\ result = "Breakdown" => ~run.once /\ ~First /\ Len(run.sweeps) < MaxSweeps

GrowthWatched ==
  \A k \in 2 .. Len(run.sweeps) :
    \/ run.sweeps[k] <= Growth * run.sweeps[k - 1]
    \/ \E floor \in Floors : run.sweeps[k - 1] <= floor

TransactionInv ==
  /\ pc \in {"preparing", "idle"} \cup Solving
  /\ pc = "preparing" => result = "None"
  /\ pc \in Solving => phase = "Trial" /\ before = Snapshot
  /\ pc = "idle" => phase = "Committed"
  /\ pc = "committing" => \A b \in Blocks : trial[b] = Sim!Part(Written, b)
  /\ pc = "rollingBack" => result \in Refusals
  /\ pc = "idle" /\ result \in Refusals => before = Snapshot

CallInv ==
  /\ run \in RunRecord
  /\ TransactionInv
  /\ IterationInv
  /\ pc \in {"rollingBack", "idle"} => Earned
  /\ GrowthWatched
  /\ AcceptedIsConverged

Inv == State!IInv /\ CallInv

LEMMA InitInv == Init => Inv
<1>1. Init => State!IInv
  BY StateBegins DEF Init
<1>2. Init => CallInv
  <2> SUFFICES ASSUME Init PROVE CallInv
    OBVIOUS
  <2>1. run \in RunRecord /\ run.sweeps = <<>>
    BY StateAssumption DEF Init, NewRun, RunRecord, Sim!BoundAssumption
  <2>2. TransactionInv /\ IterationInv
    BY DEF Init, TransactionInv, IterationInv, Solving
  <2>3. GrowthWatched
    BY <2>1 DEF GrowthWatched
  <2>4. AcceptedIsConverged
    BY DEF Init, AcceptedIsConverged
  <2>5. QED
    BY <2>1, <2>2, <2>3, <2>4 DEF Init, CallInv
<1>3. QED
  BY <1>1, <1>2 DEF Inv

(* A step that does not touch the state is no step of the state.            *)
LEMMA SteadyStutters == Steady => UNCHANGED Sim!vars
BY DEF Steady, simVars, Sim!vars, Sim!store

(* Every step of the execution is a step of its state, made when the state  *)
(* allows it, or leaves the state alone.                                    *)
LEMMA StepsTransact ==
  ASSUME Inv, [Next]_vars
  PROVE  [Sim!Next]_Sim!vars
<1> USE DEF Inv, CallInv
<1>0. Sim!TypeOK
  BY StateFacts
<1>1. CASE Prepare
  <2>1. ASSUME NEW b \in Blocks, NEW x \in Vals,
               Sim!InsertField(b, [len |-> BlockLen[b], val |-> x])
        PROVE  Sim!Next
    <3>1. b \in Sim!Blocks /\ [len |-> BlockLen[b], val |-> x] \in Sim!Vec
      BY StateAssumption DEF Sim!LayoutAssumption, Blocks, Sim!Blocks, Sim!Vec
    <3>2. QED
      BY <2>1, <3>1 DEF Sim!Next
  <2>2. CASE Sim!Commit(time)
    BY <1>0, <2>2 DEF Sim!Next, Sim!TypeOK
  <2>3. CASE Sim!BeginTrial \/ Sim!Rollback
    BY <2>3 DEF Sim!Next
  <2>4. QED
    BY <1>1, <2>1, <2>2, <2>3 DEF Prepare
<1>2. CASE Create \/ Validate \/ Sweep \/ Accelerate
  BY <1>2, SteadyStutters DEF Create, Validate, Sweep, Accelerate
<1>3. ASSUME NEW goal \in Times \cup {NonFinite}, NEW once \in BOOLEAN,
             Solve(goal, once)
      PROVE  [Sim!Next]_Sim!vars
  BY <1>3 DEF Solve, Sim!Next
<1>4. CASE Write
  <2>1. Written \in Sim!FlatVec
    BY <1>4 DEF Write, IterationInv, Written, Flats, Blocks, Sim!Blocks, Sim!FlatVec
  <2>2. QED
    BY <1>4, <2>1 DEF Write, Written, Sim!Next
<1>5. CASE CommitTrial
  <2>1. run.goal \in Times \cup {NonFinite}
    BY DEF RunRecord
  <2>2. Sim!Commit(run.goal) => run.goal \in Times
    BY <2>1 DEF Sim!Commit, Sim!CanCommit
  <2>3. QED
    BY <1>5, <2>2 DEF CommitTrial, Sim!Next
<1>6. CASE RollBack
  BY <1>6 DEF RollBack, Sim!Next
<1>7. CASE Checkpoint
  BY <1>7 DEF Checkpoint, Sim!Next
<1>8. ASSUME NEW c \in Offers, Restore(c)
      PROVE  [Sim!Next]_Sim!vars
  <2>1. c.state \in Sim!Offers
    BY DEF Offers
  <2>2. QED
    BY <1>8, <2>1 DEF Restore, Restorable, Sim!Next, simVars, Sim!vars, Sim!store
<1>9. CASE UNCHANGED vars
  BY <1>9 DEF vars, simVars, Sim!vars, Sim!store
<1>10. QED
  BY <1>1, <1>2, <1>3, <1>4, <1>5, <1>6, <1>7, <1>8, <1>9 DEF Next, Proceed

(* What a state operation leaves of the committed state and its history.    *)
LEMMA TrialKeepsCommitted ==
  ASSUME \/ Sim!BeginTrial
         \/ Sim!Refuse
         \/ Sim!Rollback
         \/ \E f : Sim!SetTrialVector(f)
         \/ UNCHANGED simVars
  PROVE  Snapshot' = Snapshot
BY DEF Snapshot, simVars, Sim!BeginTrial, Sim!Refuse, Sim!Rollback, Sim!SetTrialVector, Sim!store

(* A committed trial that held a flat vector is that vector.                *)
LEMMA CommitsWritten ==
  ASSUME State!IInv, NEW t, Sim!Commit(t), NEW f \in Flats,
         \A b \in Blocks : trial[b] = Sim!Part([fits |-> TRUE, at |-> f], b)
  PROVE  FlatOf(committed') = f
<1>1. \A b \in Blocks : committed'[b].val = f[b]
  <2> SUFFICES ASSUME NEW b \in Blocks PROVE committed'[b].val = f[b]
    OBVIOUS
  <2>1. committed'[b] = trial[b]
    BY StateCommits
  <2>2. trial[b] = [len |-> BlockLen[b], val |-> f[b]]
    BY DEF Sim!Part
  <2>3. QED
    BY <2>1, <2>2
<1>2. QED
  BY <1>1 DEF FlatOf, Flats

(* A sweep of the iteration: it is recorded only if it is within the growth *)
(* bound or follows one at the rounding floor; if not recorded, the verdict *)
(* fits its reason.                                                         *)
LEMMA SweepKeeps ==
  ASSUME Inv, Sweep
  PROVE  CallInv'
<1> USE DEF Inv, CallInv
<1>0. /\ pc = "sweeping" /\ UNCHANGED <<simVars, before>> /\ Snapshot' = Snapshot
      /\ UNCHANGED <<phase, trial>>
  BY TrialKeepsCommitted DEF Sweep, Steady, simVars
<1>1. PICK floor \in Floors :
        Swept(floor) \/ LineSearchFailed(floor) \/ SweepFailed(floor) \/ SweepRefused(floor)
  BY DEF Sweep
<1>2. /\ run.sweeps \in Seq(Changes \cup {Unbounded})
      /\ Len(run.sweeps) \in Nat
      /\ \A k \in 1 .. Len(run.sweeps) : run.sweeps[k] \in Nat
      /\ First <=> Len(run.sweeps) = 0
      /\ floor \in Nat
  <2>1. run.sweeps \in Seq(Changes \cup {Unbounded}) /\ floor \in Nat
    BY SweepAssumption DEF RunRecord
  <2>2. Changes \cup {Unbounded} \subseteq Nat
    BY SweepAssumption
  <2>3. ASSUME NEW s \in Seq(Changes \cup {Unbounded})
        PROVE  /\ Len(s) \in Nat
               /\ \A k \in 1 .. Len(s) : s[k] \in Nat
               /\ s = <<>> <=> Len(s) = 0
    BY <2>2
  <2>4. QED
    BY <2>1, <2>3 DEF First
<1>3. ASSUME NEW change \in Changes \cup {Unbounded}, NEW image \in Flats,
             ~Grew(change, floor),
             run' = [run EXCEPT !.sweeps = Append(@, change), !.image = image, !.floor = floor],
             pc' = IF run.once THEN "writing" ELSE "accelerating",
             UNCHANGED result
      PROVE  CallInv'
  <2>1. run' \in RunRecord
    <3>1. Append(run.sweeps, change) \in Seq(Changes \cup {Unbounded})
      BY <1>2
    <3>2. QED
      BY <1>3, <3>1 DEF RunRecord
  <2>2. TransactionInv'
    BY <1>0, <1>3 DEF TransactionInv, Solving
  <2>3. /\ run'.sweeps = Append(run.sweeps, change) /\ run'.once = run.once
        /\ run'.image = image
        /\ Len(run'.sweeps) = Len(run.sweeps) + 1
    BY <1>2, <1>3 DEF RunRecord
  <2>4. IterationInv'
    BY <1>0, <1>2, <1>3, <2>3, ConfigAssumption DEF IterationInv, Flats
  <2>5. GrowthWatched'
    <3> SUFFICES ASSUME NEW k \in 2 .. Len(run'.sweeps)
                 PROVE  \/ run'.sweeps[k] <= Growth * run'.sweeps[k - 1]
                        \/ \E f \in Floors : run'.sweeps[k - 1] <= f
      BY DEF GrowthWatched
    <3>1. CASE k <= Len(run.sweeps)
      <4>1. run'.sweeps[k] = run.sweeps[k] /\ run'.sweeps[k - 1] = run.sweeps[k - 1]
        BY <1>2, <2>3, <3>1
      <4>2. k \in 2 .. Len(run.sweeps)
        BY <1>2, <3>1
      <4>3. QED
        BY <4>1, <4>2 DEF GrowthWatched
    <3>2. CASE k = Len(run.sweeps) + 1
      <4>1. run'.sweeps[k] = change /\ run'.sweeps[k - 1] = Previous /\ ~First
        BY <1>2, <2>3, <3>2 DEF Previous
      <4>2. Previous \in Nat /\ change \in Nat /\ Growth * Previous \in Nat
        BY <1>2, <4>1, SweepAssumption, ConfigAssumption DEF Previous
      <4>3. CASE Previous <= floor
        BY <4>1, <4>3
      <4>4. CASE ~(Previous <= floor)
        <5>1. ~(change > Growth * Previous)
          BY <1>2, <1>3, <4>1, <4>2, <4>4 DEF Grew, AboveFloor
        <5>2. QED
          BY <4>1, <4>2, <5>1
      <4>5. QED
        BY <4>3, <4>4
    <3>3. QED
      BY <1>2, <2>3, <3>1, <3>2
  <2>6. QED
    BY <1>3, <2>1, <2>2, <2>4, <2>5 DEF AcceptedIsConverged
<1>4. ASSUME NEW r \in Refusals, NEW failed \in BOOLEAN, Verdict(r),
             run' = [run EXCEPT !.floor = floor, !.failure = failed],
             r = "Diverged" => First \/ Previous > floor,
             r = "MaxSweeps" => ~First /\ Previous <= floor,
             r # "Breakdown"
      PROVE  CallInv'
  <2>1. /\ run' \in RunRecord
        /\ run'.sweeps = run.sweeps /\ run'.once = run.once /\ run'.floor = floor
    BY <1>4 DEF RunRecord
  <2>2. pc' = "rollingBack" /\ result' = r
    BY <1>4 DEF Verdict
  <2>3. TransactionInv' /\ IterationInv' /\ AcceptedIsConverged'
    BY <1>0, <2>2 DEF TransactionInv, IterationInv, AcceptedIsConverged, Solving
  <2>4. Earned'
    <3>1. ~First => ~run.once
      BY <1>0 DEF IterationInv, First
    <3>2. QED
      BY <1>4, <2>1, <2>2, <3>1 DEF Earned, First, Previous
  <2>5. GrowthWatched'
    BY <2>1 DEF GrowthWatched
  <2>6. QED
    BY <2>1, <2>3, <2>4, <2>5
<1>5. run.failure \in BOOLEAN /\ [run EXCEPT !.floor = floor] =
        [run EXCEPT !.floor = floor, !.failure = run.failure]
  BY DEF RunRecord
<1>6. CASE Swept(floor)
  <2>1. PICK change \in Changes \cup {Unbounded}, image \in Flats :
          IF Grew(change, floor)
          THEN run' = [run EXCEPT !.floor = floor] /\ Verdict("Diverged")
          ELSE /\ run' = [run EXCEPT !.sweeps = Append(@, change), !.image = image,
                                     !.floor = floor]
               /\ pc' = IF run.once THEN "writing" ELSE "accelerating"
               /\ UNCHANGED result
    BY <1>6 DEF Swept
  <2>2. CASE Grew(change, floor)
    <3>1. Previous > floor
      BY <2>2 DEF Grew, AboveFloor
    <3>2. QED
      BY <1>4, <1>5, <2>1, <2>2, <3>1 DEF Refusals
  <2>3. CASE ~Grew(change, floor)
    BY <1>3, <2>1, <2>3
  <2>4. QED
    BY <2>2, <2>3
<1>7. CASE LineSearchFailed(floor)
  <2>1. CASE Verdict("Numeric")
    BY <1>4, <1>5, <1>7, <2>1 DEF LineSearchFailed, Refusals
  <2>2. CASE ~First /\ ~AboveFloor(floor) /\ Verdict("MaxSweeps")
    <3>1. Previous <= floor
      BY <1>2, <2>2 DEF AboveFloor, First, Previous
    <3>2. QED
      BY <1>4, <1>5, <1>7, <2>2, <3>1 DEF LineSearchFailed, Refusals
  <2>3. CASE (First \/ AboveFloor(floor)) /\ Verdict("Diverged")
    BY <1>4, <1>5, <1>7, <2>3 DEF LineSearchFailed, Refusals, AboveFloor
  <2>4. QED
    BY <1>7, <2>1, <2>2, <2>3 DEF LineSearchFailed
<1>8. CASE SweepFailed(floor)
  BY <1>4, <1>8 DEF SweepFailed, Refusals
<1>9. CASE SweepRefused(floor)
  BY <1>4, <1>5, <1>9 DEF SweepRefused, Refusals
<1>10. QED
  BY <1>1, <1>6, <1>7, <1>8, <1>9

(* The driver stops within the tolerance, or gives up, or asks for another  *)
(* sweep while some are left.                                               *)
LEMMA AccelerateKeeps ==
  ASSUME Inv, Accelerate
  PROVE  CallInv'
<1> USE DEF Inv, CallInv
<1>0. /\ pc = "accelerating" /\ UNCHANGED <<run, before>> /\ Snapshot' = Snapshot
      /\ UNCHANGED phase
  BY TrialKeepsCommitted DEF Accelerate, Steady, simVars
<1>1. /\ Len(run.sweeps) \in 1 .. MaxSweeps /\ ~run.once /\ ~First
      /\ Previous \in Nat /\ run.image \in Flats \cup {None}
  <2>1. /\ run.sweeps \in Seq(Changes \cup {Unbounded}) /\ run.image \in Flats \cup {None}
        /\ Len(run.sweeps) \in 1 .. MaxSweeps /\ ~run.once
    BY <1>0 DEF RunRecord, IterationInv
  <2>2. Changes \cup {Unbounded} \subseteq Nat /\ MaxSweeps \in Nat
    BY SweepAssumption, ConfigAssumption
  <2>3. ASSUME NEW s \in Seq(Changes \cup {Unbounded}), Len(s) \in 1 .. MaxSweeps
        PROVE  s # <<>> /\ s[Len(s)] \in Nat
    BY <2>2, <2>3
  <2>4. QED
    BY <2>1, <2>3 DEF First, Previous
<1>2. PICK residual \in Previous .. Spread * Previous :
        \/ Verdict("Numeric")
        \/ residual <= Tolerance /\ pc' = "writing" /\ UNCHANGED result
        \/ /\ residual > Tolerance
           /\ \/ Exhausted /\ Verdict("MaxSweeps")
              \/ ~Exhausted /\ Verdict("Breakdown")
              \/ ~Exhausted /\ pc' = "sweeping" /\ UNCHANGED result
  BY DEF Accelerate
<1>3. GrowthWatched' /\ run' \in RunRecord
  BY <1>0 DEF GrowthWatched
<1>4. CASE residual <= Tolerance /\ pc' = "writing" /\ UNCHANGED result
  <2>1. Previous <= Tolerance
    BY <1>1, <1>2, <1>4, SweepAssumption, ConfigAssumption
  <2>2. run.image \in Flats
    BY <1>0 DEF IterationInv
  <2>3. QED
    BY <1>0, <1>1, <1>3, <1>4, <2>1, <2>2, ConfigAssumption
       DEF TransactionInv, IterationInv, Solving, AcceptedIsConverged, Previous
<1>5. CASE Exhausted /\ Verdict("MaxSweeps")
  BY <1>0, <1>1, <1>3, <1>5
     DEF Verdict, TransactionInv, IterationInv, Solving, AcceptedIsConverged, Earned,
         Refusals, Exhausted
<1>6. CASE ~Exhausted /\ Verdict("Breakdown")
  <2>1. Len(run.sweeps) < MaxSweeps
    BY <1>1, <1>6, ConfigAssumption DEF Exhausted
  <2>2. QED
    BY <1>0, <1>1, <1>3, <1>6, <2>1
       DEF Verdict, TransactionInv, IterationInv, Solving, AcceptedIsConverged, Earned,
           Refusals, First
<1>7. CASE ~Exhausted /\ pc' = "sweeping" /\ UNCHANGED result
  <2>1. Len(run.sweeps) < MaxSweeps
    BY <1>1, <1>7, ConfigAssumption DEF Exhausted
  <2>2. QED
    BY <1>0, <1>1, <1>3, <1>7, <2>1
       DEF TransactionInv, IterationInv, Solving, AcceptedIsConverged
<1>8. CASE Verdict("Numeric")
  BY <1>0, <1>3, <1>8
     DEF Verdict, TransactionInv, IterationInv, Solving, AcceptedIsConverged, Earned, Refusals
<1>9. QED
  BY <1>2, <1>4, <1>5, <1>6, <1>7, <1>8

(* The commit of the trial: what it commits is what was written into it.    *)
LEMMA CommitTrialKeeps ==
  ASSUME Inv, CommitTrial
  PROVE  CallInv'
<1> USE DEF Inv, CallInv
<1>0. /\ pc = "committing" /\ UNCHANGED <<run, before>> /\ before = Snapshot
      /\ GrowthWatched' /\ run' \in RunRecord
  BY DEF CommitTrial, TransactionInv, Solving, GrowthWatched
<1>1. CASE /\ Sim!Commit(run.goal) /\ pc' = "idle"
           /\ result' = IF run.once THEN "OnceApplied" ELSE "Converged"
  <2>1. FlatOf(committed') = run.image
    BY <1>0, <1>1, CommitsWritten DEF TransactionInv, IterationInv, Written
  <2>2. time' = run.goal /\ step' = before.step + 1 /\ phase' = "Committed"
    BY <1>0, <1>1 DEF Sim!Commit, Snapshot
  <2>3. AcceptedIsConverged'
    BY <1>0, <1>1, <2>1, <2>2 DEF AcceptedIsConverged, IterationInv, FlatOf, Previous
  <2>4. TransactionInv' /\ IterationInv' /\ Earned'
    BY <1>1, <2>2 DEF TransactionInv, IterationInv, Earned, Solving, Refusals
  <2>5. QED
    BY <1>0, <2>3, <2>4
<1>2. CASE Sim!Refuse /\ Verdict("Err")
  <2>1. Snapshot' = Snapshot /\ UNCHANGED phase
    BY <1>2, TrialKeepsCommitted DEF Sim!Refuse, Sim!store
  <2>2. QED
    BY <1>0, <1>2, <2>1
       DEF Verdict, TransactionInv, IterationInv, Earned, Solving, Refusals, AcceptedIsConverged
<1>3. QED
  BY <1>1, <1>2 DEF CommitTrial

LEMMA NextKeepsCalls ==
  ASSUME Inv, [Next]_vars
  PROVE  CallInv'
<1> USE DEF Inv, CallInv
<1>0. ASSUME NEW goal \in Times \cup {NonFinite}, NEW once \in BOOLEAN,
             run' = NewRun(goal, once)
      PROVE  run' \in RunRecord /\ run'.sweeps = <<>> /\ run'.once = once /\ GrowthWatched'
  <2>1. run' \in RunRecord /\ run'.sweeps = <<>> /\ run'.once = once
    BY <1>0 DEF NewRun, RunRecord
  <2>2. QED
    BY <2>1 DEF GrowthWatched
<1>1. CASE Prepare
  <2>1. pc = "preparing" /\ UNCHANGED <<pc, run, result, before>>
    BY <1>1 DEF Prepare
  <2>2. TransactionInv' /\ IterationInv' /\ AcceptedIsConverged' /\ GrowthWatched'
    BY <2>1 DEF TransactionInv, IterationInv, AcceptedIsConverged, GrowthWatched, Solving
  <2>3. QED
    BY <2>1, <2>2
<1>2. CASE Create
  <2>1. pc = "preparing" /\ phase' = "Committed" /\ pc' = "idle" /\ UNCHANGED <<run, result>>
    BY <1>2 DEF Create, Steady, simVars
  <2>2. result' = "None"
    BY <2>1 DEF TransactionInv
  <2>3. TransactionInv' /\ IterationInv' /\ AcceptedIsConverged' /\ GrowthWatched' /\ Earned'
    BY <2>1, <2>2 DEF TransactionInv, IterationInv, AcceptedIsConverged, GrowthWatched, Solving,
                      Earned, Refusals, Accepted
  <2>4. QED
    BY <2>1, <2>3
<1>3. ASSUME NEW goal \in Times \cup {NonFinite}, NEW once \in BOOLEAN,
             Solve(goal, once)
      PROVE  CallInv'
  <2>1. pc' = "validating" /\ before' = Snapshot /\ Snapshot' = Snapshot /\ phase' = "Trial"
    BY <1>3, TrialKeepsCommitted DEF Solve, Sim!BeginTrial
  <2>2. run' \in RunRecord /\ run'.sweeps = <<>> /\ GrowthWatched'
    BY <1>0, <1>3 DEF Solve
  <2>3. QED
    BY <2>1, <2>2 DEF TransactionInv, IterationInv, AcceptedIsConverged, Solving
<1>4. CASE Validate
  <2>1. /\ pc = "validating" /\ UNCHANGED <<run, before, phase>> /\ Snapshot' = Snapshot
        /\ \/ pc' = "sweeping"
           \/ pc' = "rollingBack" /\ result' = "Failed"
    BY <1>4, TrialKeepsCommitted DEF Validate, Steady, simVars, Verdict
  <2>2. run.sweeps = <<>> /\ Len(<<>>) = 0
    BY <2>1 DEF IterationInv
  <2>3. TransactionInv' /\ AcceptedIsConverged' /\ GrowthWatched'
    BY <2>1 DEF TransactionInv, AcceptedIsConverged, GrowthWatched, Solving, Refusals
  <2>4. IterationInv'
    BY <2>1, <2>2, ConfigAssumption DEF IterationInv
  <2>5. QED
    BY <2>1, <2>3, <2>4 DEF Earned
<1>5. CASE Sweep
  BY <1>5, SweepKeeps
<1>6. CASE Accelerate
  BY <1>6, AccelerateKeeps
<1>7. CASE Write
  <2>1. Written \in Sim!FlatVec
    BY <1>7 DEF Write, IterationInv, Written, Flats, Blocks, Sim!Blocks, Sim!FlatVec
  <2>2. UNCHANGED <<run, before>> /\ Snapshot' = Snapshot /\ GrowthWatched' /\ pc = "writing"
    BY <1>7, TrialKeepsCommitted DEF Write, GrowthWatched
  <2>3. CASE Sim!SetTrialVector(Written) /\ pc' = "committing"
    <3>1. \A b \in Blocks : trial'[b] = Sim!Part(Written, b)
      BY <2>1, <2>3, StateWrites
    <3>2. phase' = "Trial"
      BY <2>3 DEF Sim!SetTrialVector, Sim!CanSetTrialVector
    <3>3. TransactionInv'
      BY <2>2, <2>3, <3>1, <3>2 DEF TransactionInv, Solving, Written, Sim!Part
    <3>4. IterationInv' /\ AcceptedIsConverged'
      BY <2>2, <2>3 DEF IterationInv, AcceptedIsConverged, Previous
    <3>5. QED
      BY <2>2, <2>3, <3>3, <3>4
  <2>4. CASE Sim!Refuse /\ Verdict("Err")
    BY <2>2, <2>4
       DEF Sim!Refuse, Sim!store, Verdict, TransactionInv, IterationInv, AcceptedIsConverged,
           Earned, Solving, Refusals
  <2>5. QED
    BY <1>7, <2>3, <2>4 DEF Write, Written
<1>8. CASE CommitTrial
  BY <1>8, CommitTrialKeeps
<1>9. CASE RollBack
  <2>1. /\ Snapshot' = Snapshot /\ UNCHANGED <<run, result, before>> /\ phase' = "Committed"
        /\ pc = "rollingBack" /\ pc' = "idle" /\ GrowthWatched'
    BY <1>9, TrialKeepsCommitted DEF RollBack, Sim!Rollback, GrowthWatched
  <2>2. result \notin Accepted
    BY <2>1 DEF TransactionInv, Refusals, Accepted
  <2>3. TransactionInv' /\ IterationInv' /\ AcceptedIsConverged'
    BY <2>1, <2>2 DEF TransactionInv, IterationInv, AcceptedIsConverged, Solving
  <2>4. Earned'
    BY <2>1 DEF Earned, First, Previous
  <2>5. QED
    BY <2>1, <2>3, <2>4
<1>10. CASE Checkpoint
  <2>1. /\ pc = "idle" /\ UNCHANGED <<pc, phase>> /\ result' = "Ok" /\ run' = NewRun(0, TRUE)
    BY <1>10 DEF Checkpoint, Sim!TakeCheckpoint, Sim!store
  <2>2. 0 \in Times
    BY StateAssumption DEF Sim!BoundAssumption
  <2>3. run' \in RunRecord /\ GrowthWatched'
    BY <1>0, <2>1, <2>2
  <2>4. QED
    BY <2>1, <2>3
       DEF TransactionInv, IterationInv, AcceptedIsConverged, Earned, Solving, Refusals, Accepted
<1>11. ASSUME NEW c \in Offers, Restore(c)
       PROVE  CallInv'
  <2>1. pc = "idle" /\ UNCHANGED pc /\ before' = Snapshot /\ run' = NewRun(0, TRUE)
    BY <1>11 DEF Restore
  <2>2. 0 \in Times
    BY StateAssumption DEF Sim!BoundAssumption
  <2>3. run' \in RunRecord /\ GrowthWatched'
    BY <1>0, <2>1, <2>2
  <2>4. CASE Sim!Restore(c.state) /\ result' = "Ok"
    BY <2>1, <2>3, <2>4
       DEF Sim!Restore, TransactionInv, IterationInv, AcceptedIsConverged, Earned, Solving,
           Refusals, Accepted
  <2>5. CASE UNCHANGED simVars /\ result' = "Err"
    <3>1. Snapshot' = Snapshot /\ UNCHANGED phase
      BY <2>5, TrialKeepsCommitted DEF simVars
    <3>2. QED
      BY <2>1, <2>3, <2>5, <3>1
         DEF TransactionInv, IterationInv, AcceptedIsConverged, Earned, Solving, Accepted
  <2>6. QED
    BY <1>11, <2>4, <2>5 DEF Restore
<1>12. CASE UNCHANGED vars
  <2>1. UNCHANGED <<pc, run, result, before, phase, trial, committed, time, step>>
    BY <1>12 DEF vars, simVars
  <2>2. Snapshot' = Snapshot
    BY <1>12, TrialKeepsCommitted DEF vars
  <2>3. TransactionInv'
    BY <2>1, <2>2 DEF TransactionInv, Written, Sim!Part
  <2>4. IterationInv' /\ GrowthWatched' /\ (Earned' <=> Earned)
    BY <2>1 DEF IterationInv, GrowthWatched, Earned, First, Previous
  <2>5. AcceptedIsConverged'
    BY <2>1 DEF AcceptedIsConverged, FlatOf, Previous
  <2>6. QED
    BY <2>1, <2>3, <2>4, <2>5
<1>13. QED
  BY <1>1, <1>2, <1>3, <1>4, <1>5, <1>6, <1>7, <1>8, <1>9, <1>10, <1>11, <1>12
     DEF Next, Proceed

LEMMA NextKeeps == Inv /\ [Next]_vars => Inv'
BY StepsTransact, StateSteps, NextKeepsCalls DEF Inv

(* The invariant holds of every behaviour.                                  *)
THEOREM Invariance == Spec => []Inv
BY InitInv, NextKeeps, PTL DEF Spec

(* A solve that reports convergence has committed the output of a sweep     *)
(* that moved the state by no more than the tolerance.                      *)
THEOREM AcceptedHasConverged == Spec => []AcceptedIsConverged
<1>1. Inv => AcceptedIsConverged
  BY DEF Inv, CallInv
<1>2. QED
  BY <1>1, Invariance, PTL

(* Each refusal means what its code documents, and no growth went unseen.   *)
THEOREM RefusalsWereEarned == Spec => []RefusalsAreEarned
<1>1. Inv => RefusalsAreEarned
  BY DEF Inv, CallInv, Earned, GrowthWatched, RefusalsAreEarned
<1>2. QED
  BY <1>1, Invariance, PTL

(* A refused solve has left the committed state and its history as it found *)
(* them, with no trial open.                                                *)
THEOREM FailuresLeaveNoTrace == Spec => []FailureLeavesNoTrace
<1>1. Inv => FailureLeavesNoTrace
  BY DEF Inv, CallInv, TransactionInv, FailureLeavesNoTrace
<1>2. QED
  BY <1>1, Invariance, PTL

----------------------------------------------------------------------------
(* Every call is atomic for its caller.  What is missing for it is that     *)
(* the trial of a slot is its committed vector: no solver writes a slot, so *)
(* the commit of a solution leaves the slots as they were.                  *)

SlotsStay == phase = "Trial" => \A s \in Slots : trial[s] = committed[s]

LEMMA NextKeepsSlots ==
  ASSUME Inv, SlotsStay, [Next]_vars
  PROVE  SlotsStay'
<1> USE DEF SlotsStay
<1>0. \A s \in Slots : s \in Sim!Ids /\ s \notin Sim!Blocks
  BY StateAssumption DEF Sim!LayoutAssumption, Sim!Ids
<1>1. ASSUME \/ \E b, v : Sim!InsertField(b, v)
             \/ \E r, v : Sim!InsertConstitutive(r, v)
             \/ \E t : Sim!Commit(t)
             \/ \E c : Sim!Restore(c)
             \/ Sim!Rollback
      PROVE  SlotsStay'
  BY <1>1 DEF Sim!InsertField, Sim!InsertConstitutive, Sim!CanInsertField,
      Sim!CanInsertConstitutive, Sim!Commit, Sim!Restore, Sim!Rollback
<1>2. CASE Sim!BeginTrial
  BY <1>2 DEF Sim!BeginTrial
<1>3. ASSUME NEW f, Sim!SetTrialVector(f)
      PROVE  SlotsStay'
  BY <1>0, <1>3 DEF Sim!SetTrialVector, Sim!CanSetTrialVector
<1>4. CASE UNCHANGED <<phase, trial, committed>>
  BY <1>4
<1>5. QED
  BY <1>1, <1>2, <1>3, <1>4
     DEF Next, Proceed, Prepare, Create, Solve, Validate, Sweep, Accelerate, Write, CommitTrial,
         RollBack, Checkpoint, Restore, Steady, vars, simVars, Sim!Refuse, Sim!TakeCheckpoint, Sim!store

LEMMA OneMoreState ==
  ASSUME NEW S, NEW k
  PROVE  {c.state : c \in S \cup {k}} = {c.state : c \in S} \cup {k.state}
OBVIOUS

(* What the caller sees in the middle of a call that has moved nothing.     *)
LEMMA FoundIsThere == before = Snapshot => Found = Sim!CheckpointOf
BY DEF Found, Snapshot, Sim!CheckpointOf

LEMMA SameCheckpoint ==
  Snapshot' = Snapshot => (Sim!CheckpointOf)' = Sim!CheckpointOf
BY DEF Snapshot, Sim!CheckpointOf

(* A commit moves the state one step on.                                    *)
LEMMA CommitIsOneStep ==
  ASSUME State!IInv, SlotsStay, NEW t, Sim!Commit(t)
  PROVE  Calls!OneStepOn(Sim!CheckpointOf, (Sim!CheckpointOf)')
<1>1. /\ step' = step + 1 /\ time' = t /\ t >= time /\ historyLimit' = historyLimit
      /\ phase = "Trial"
  BY DEF Sim!Commit, Sim!CanCommit
<1>2. Sim!TypeOK /\ Sim!TrialIsWhole
  BY StateFacts
<1>3. ASSUME NEW b \in Blocks
      PROVE  history'[b] = IF historyLimit = 0 THEN history[b]
               ELSE SubSeq(<<committed[b]>> \o history[b], 1,
                      IF Len(history[b]) < historyLimit THEN Len(history[b]) + 1
                      ELSE historyLimit)
  <2>1. b \in Sim!Blocks /\ Sim!Present(b)
    BY <1>1, <1>2 DEF Sim!TrialIsWhole, Sim!Complete, Blocks, Sim!Blocks
  <2>2. QED
    BY <2>1 DEF Sim!Commit, Sim!HistoryAfterCommit, Sim!Pushed
<1>4. ASSUME NEW i \in DOMAIN committed \ Blocks
      PROVE  committed'[i] = committed[i]
  <2>1. i \in Slots /\ i \in Sim!Ids
    BY <1>2 DEF Sim!TypeOK, Sim!Ids, Sim!Blocks, Blocks
  <2>2. QED
    BY <1>1, <2>1 DEF Sim!Commit, Sim!Present, SlotsStay
<1>5. QED
  BY <1>1, <1>3, <1>4 DEF Calls!OneStepOn, Sim!CheckpointOf

(* What a restore accepts is a checkpoint the caller keeps.                 *)
LEMMA RestoredIsKept ==
  ASSUME State!HonestDelivery, Sim!TypeOK, NEW c \in Offers, Restorable(c)
  PROVE  \E k \in checkpoints : k.state = c.state
<1>1. c.state \in Sim!Offers
  BY DEF Offers, Restorable
<1>2. PICK k \in checkpoints : c.state \in Delivered(k.state) \cap Sim!Checkpoint
  BY <1>1 DEF Sim!Offers
<1>3. k.state \in Sim!Checkpoint
  BY <1>2 DEF Sim!TypeOK
<1>4. State!WellFormed(c.state)
  BY DEF Restorable, Sim!CanRestore, State!WellFormed, Sim!Fits, State!Fits,
         Sim!IsFinite, State!IsFinite, Sim!HistoryFits, State!HistoryFits,
         Sim!Blocks, State!Blocks
<1>5. Sim!Checkpoint = State!Checkpoint
  BY DEF Sim!Checkpoint, State!Checkpoint, Sim!Ids, State!Ids, Sim!Blocks, State!Blocks,
         Sim!Vec, State!Vec
<1>6. c.state = k.state
  BY <1>2, <1>3, <1>4, <1>5 DEF State!HonestDelivery
<1>7. QED
  BY <1>6

(* A restored state is one that was kept, under honest delivery.            *)
LEMMA RestoreGoesBack ==
  ASSUME State!HonestDelivery, Sim!TypeOK, NEW c \in Offers, Restorable(c), Sim!Restore(c.state)
  PROVE  (Sim!CheckpointOf)' \in {k.state : k \in checkpoints}
<1>1. PICK k \in checkpoints : k.state = c.state
  BY RestoredIsKept
<1>2. k.state \in Sim!Checkpoint
  BY DEF Sim!TypeOK
<1>3. c.state.ownLayout = TRUE
  BY <1>1, <1>2 DEF Sim!Checkpoint, Sim!Restore, Sim!CanRestore
<1>4. (Sim!CheckpointOf)' = k.state
  BY <1>1, <1>2, <1>3 DEF Sim!CheckpointOf, Sim!Restore, Sim!Checkpoint
<1>5. QED
  BY <1>4

LEMMA NextIsAtomic ==
  ASSUME State!HonestDelivery, Inv, SlotsStay, [Next]_vars
  PROVE  [Calls!Next]_Calls!vars
<1> USE DEF AtRest
<1>0. /\ Sim!TypeOK
      /\ pc \in {"preparing", "idle"} \cup Solving
      /\ pc \in Solving => Found = Sim!CheckpointOf
      /\ pc = "idle" => phase = "Committed"
  BY StateFacts, FoundIsThere DEF Inv, CallInv, TransactionInv
<1>1. CASE Prepare
  BY <1>1 DEF Prepare, Calls!Next, Calls!Prepare
<1>2. CASE Create
  BY <1>2 DEF Create, Steady, simVars, Sim!CheckpointOf, Calls!Next, Calls!Create
<1>3. ASSUME NEW goal \in Times \cup {NonFinite}, NEW once \in BOOLEAN,
             Solve(goal, once)
      PROVE  Calls!Next
  <2>1. /\ pc = "idle" /\ pc' = "validating" /\ before' = Snapshot /\ UNCHANGED checkpoints
    BY <1>3 DEF Solve
  <2>2. Found' = Sim!CheckpointOf
    BY <2>1, FoundIsThere DEF Found, Snapshot, Sim!CheckpointOf
  <2>3. QED
    BY <1>0, <2>1, <2>2 DEF Calls!Next, Calls!Begin
<1>4. CASE Validate \/ Sweep \/ Accelerate \/ Write
  <2>1. pc \in Solving /\ pc' \in Solving /\ UNCHANGED <<before, checkpoints>>
    BY <1>4 DEF Validate, Sweep, Accelerate, Swept, LineSearchFailed, SweepFailed, SweepRefused,
       Verdict, Write, Steady, Solving
  <2>2. QED
    BY <2>1 DEF Calls!vars, Found, Solving
<1>5. CASE CommitTrial
  <2>1. pc = "committing" /\ UNCHANGED <<before, checkpoints>>
    BY <1>5 DEF CommitTrial
  <2>2. CASE Sim!Commit(run.goal) /\ pc' = "idle" /\ result' \in Accepted
    <3>1. /\ phase' = "Committed"
          /\ Calls!OneStepOn(Sim!CheckpointOf, (Sim!CheckpointOf)')
      BY <2>2, CommitIsOneStep DEF Sim!Commit, Inv
    <3>2. QED
      BY <1>0, <2>1, <2>2, <3>1 DEF Calls!Next, Calls!Step, Calls!OneStepOn, Solving
  <2>3. CASE pc' = "rollingBack"
    BY <2>1, <2>3 DEF Calls!vars, Found
  <2>4. QED
    BY <1>5, <2>2, <2>3 DEF CommitTrial, Accepted, Verdict
<1>6. CASE RollBack
  <2>1. /\ pc = "rollingBack" /\ pc' = "idle" /\ result' \in Refusals /\ phase' = "Committed"
        /\ UNCHANGED checkpoints /\ (Sim!CheckpointOf)' = Sim!CheckpointOf
    BY <1>6, TrialKeepsCommitted, SameCheckpoint DEF RollBack, Sim!Rollback, Inv, CallInv, TransactionInv
  <2>2. QED
    BY <1>0, <2>1 DEF Calls!Next, Calls!Fail, Solving
<1>7. CASE Checkpoint
  <2>1. /\ pc = "idle" /\ pc' = "idle" /\ result' = "Ok" /\ UNCHANGED phase
        /\ checkpoints' = checkpoints \cup {[own |-> TRUE, state |-> Sim!CheckpointOf]}
        /\ (Sim!CheckpointOf)' = Sim!CheckpointOf
    BY <1>7 DEF Checkpoint, Sim!TakeCheckpoint, Sim!store, Sim!CheckpointOf
  <2>2. {c.state : c \in checkpoints'} = {c.state : c \in checkpoints} \cup {Sim!CheckpointOf}
    BY <2>1, OneMoreState
  <2>3. QED
    BY <1>0, <2>1, <2>2 DEF Calls!Next, Calls!Keep
<1>8. ASSUME NEW c \in Offers, Restore(c)
      PROVE  Calls!Next
  <2>1. pc = "idle" /\ UNCHANGED <<checkpoints, pc>>
    BY <1>8 DEF Restore
  <2>2. CASE Restorable(c) /\ Sim!Restore(c.state) /\ result' = "Ok"
    <3>1. phase' = "Committed" /\ (Sim!CheckpointOf)' \in {k.state : k \in checkpoints}
      BY <1>0, <2>2, RestoreGoesBack DEF Sim!Restore
    <3>2. QED
      BY <1>0, <2>1, <2>2, <3>1 DEF Calls!Next, Calls!Back
  <2>3. CASE result' = "Err" /\ UNCHANGED simVars
    BY <1>0, <2>1, <2>3 DEF simVars, Sim!CheckpointOf, Refusals, Calls!Next, Calls!Fail
  <2>4. QED
    BY <1>8, <2>2, <2>3 DEF Restore
<1>9. CASE UNCHANGED vars
  BY <1>9 DEF vars, simVars, Sim!CheckpointOf, Found, Calls!vars
<1>10. QED
  BY <1>1, <1>2, <1>3, <1>4, <1>5, <1>6, <1>7, <1>8, <1>9 DEF Next, Proceed

(* Seen from outside, a call has taken the committed state one step on with *)
(* one more level of history, or back to a state that was kept, or has left *)
(* it alone, and has said which.                                            *)
THEOREM CallsAlwaysAtomic ==
  ASSUME State!HonestDelivery
  PROVE  Spec => CallsAreAtomic
<1>1. Init => SlotsStay /\ Calls!Init
  BY DEF Init, Sim!Init, SlotsStay, AtRest, Calls!Init
<1>2. Inv /\ SlotsStay /\ [Next]_vars => SlotsStay'
  BY NextKeepsSlots
<1>3. Inv /\ SlotsStay /\ [Next]_vars => [Calls!Next]_Calls!vars
  BY NextIsAtomic
<1>4. QED
  BY <1>1, <1>2, <1>3, Invariance, PTL DEF Spec, CallsAreAtomic, Calls!Spec
=============================================================================
