----------------------- MODULE ExplicitExecutionProofs -----------------------
(***************************************************************************)
(* Proofs about ExplicitExecution, for every layout, policy step, attempt  *)
(* budget and history limit, whatever the integrator computes, rejects or  *)
(* suggests.                                                               *)
(***************************************************************************)
EXTENDS ExplicitExecution, SequenceTheorems, FiniteSetTheorems, TLAPS

----------------------------------------------------------------------------
(* What is proved of the state in SimulationStateProofs, said of the state  *)
(* this execution owns.  Sim and State are instances of the same module, so *)
(* their definitions are equal once they are expanded.                      *)

State == INSTANCE SimulationStateProofs WITH saved <- {c.state : c \in checkpoints}

LEMMA StateAssumed ==
  State!LayoutAssumption /\ State!ValueAssumption /\ State!BoundAssumption
BY StateAssumption
   DEF Sim!Blocks, State!Blocks, Sim!Vec, State!Vec

LEMMA StateBegins == Sim!Init => State!IInv
<1>1. Sim!Init => State!Init
  BY DEF Sim!Blocks, State!Blocks, Sim!Ids, State!Ids, Sim!NoTrial,
      State!NoTrial, Sim!New, State!New, Sim!Zeroed, State!Zeroed,
      Sim!ZeroVec, State!ZeroVec, Sim!Init, State!Init
<1>2. QED
  BY <1>1, StateAssumed, State!InitEstablishes

LEMMA StateSteps ==
  ASSUME State!IInv, [Sim!Next]_Sim!vars
  PROVE  State!IInv'
<1>1. [State!Next]_State!vars
  BY DEF Sim!Blocks, State!Blocks, Sim!Ids, State!Ids, Sim!Phases,
      State!Phases, Sim!Replies, State!Replies, Sim!Vec, State!Vec,
      Sim!FlatVec, State!FlatVec, Sim!Part, State!Part, Sim!Checkpoint,
      State!Checkpoint, Sim!store, State!store, Sim!vars, State!vars,
      Sim!IsFinite, State!IsFinite, Sim!Fits, State!Fits, Sim!Present,
      State!Present, Sim!Complete, State!Complete, Sim!NoTrial, State!NoTrial,
      Sim!Pushed, State!Pushed, Sim!CanInsertField, State!CanInsertField,
      Sim!CanInsertConstitutive, State!CanInsertConstitutive,
      Sim!CanBeginTrial, State!CanBeginTrial, Sim!CanSetTrial,
      State!CanSetTrial, Sim!CanSetTrialVector, State!CanSetTrialVector,
      Sim!CanCommit, State!CanCommit, Sim!CanRollback, State!CanRollback,
      Sim!CanCheckpoint, State!CanCheckpoint, Sim!SchemaMatches,
      State!SchemaMatches, Sim!HistoryFits, State!HistoryFits, Sim!CanRestore,
      State!CanRestore, Sim!InsertField, State!InsertField,
      Sim!InsertConstitutive, State!InsertConstitutive, Sim!BeginTrial,
      State!BeginTrial, Sim!SetTrial, State!SetTrial, Sim!SetTrialVector,
      State!SetTrialVector, Sim!HistoryAfterCommit, State!HistoryAfterCommit,
      Sim!Commit, State!Commit, Sim!Rollback, State!Rollback,
      Sim!CheckpointOf, State!CheckpointOf, Sim!TakeCheckpoint,
      State!TakeCheckpoint, Sim!Restore, State!Restore, Sim!Offers,
      State!Offers, Sim!Refuse, State!Refuse, Sim!Next, State!Next,
      Sim!Cardinality, State!Cardinality
<1>2. QED
  BY <1>1, StateAssumed, State!NextPreserves

LEMMA StateFacts ==
  State!IInv => Sim!TypeOK /\ Sim!TrialIsWhole /\ Sim!ShapesHold /\ Sim!HistoryBounded
BY DEF State!IInv, Sim!TypeOK, State!TypeOK, Sim!TrialIsWhole,
    State!TrialIsWhole, Sim!ShapesHold, State!ShapesHold, Sim!HistoryBounded,
    State!HistoryBounded, Sim!Blocks, State!Blocks, Sim!Ids, State!Ids,
    Sim!Phases, State!Phases, Sim!Replies, State!Replies, Sim!Vec, State!Vec,
    Sim!Checkpoint, State!Checkpoint, Sim!Fits, State!Fits, Sim!IsFinite,
    State!IsFinite, Sim!Present, State!Present, Sim!Complete, State!Complete,
    Sim!NoTrial, State!NoTrial

LEMMA StateWrites ==
  ASSUME State!IInv, NEW f \in Sim!FlatVec, Sim!SetTrialVector(f), NEW b \in Blocks
  PROVE  trial'[b] = Sim!Part(f, b)
<1>1. State!SetTrialVector(f) /\ f \in State!FlatVec /\ b \in State!Blocks
  BY DEF Blocks, Sim!Blocks, State!Blocks, Sim!Ids, State!Ids, Sim!FlatVec,
      State!FlatVec, Sim!Part, State!Part, Sim!IsFinite, State!IsFinite,
      Sim!Fits, State!Fits, Sim!Present, State!Present, Sim!CanSetTrial,
      State!CanSetTrial, Sim!CanSetTrialVector, State!CanSetTrialVector,
      Sim!SetTrialVector, State!SetTrialVector
<1>2. QED
  BY <1>1, StateAssumed, State!WrittenTrial DEF Sim!Part, State!Part

LEMMA StateCommits ==
  ASSUME State!IInv, NEW t, Sim!Commit(t), NEW b \in Blocks
  PROVE  /\ committed[b] \in Sim!Vec
         /\ committed'[b] = trial[b]
         /\ trial[b] \in Sim!Vec
         /\ history[b] \in Seq(Sim!Vec)
         /\ history'[b] \in Seq(Sim!Vec)
         /\ Len(history'[b]) =
              IF Len(history[b]) < historyLimit THEN Len(history[b]) + 1 ELSE historyLimit
         /\ \A k \in 1 .. Len(history'[b]) :
              history'[b][k] = IF k = 1 THEN committed[b] ELSE history[b][k - 1]
<1>1. State!Commit(t) /\ b \in State!Blocks
  BY DEF Blocks, Sim!Blocks, State!Blocks, Sim!Ids, State!Ids, Sim!Present,
      State!Present, Sim!NoTrial, State!NoTrial, Sim!Pushed, State!Pushed,
      Sim!CanCommit, State!CanCommit, Sim!HistoryAfterCommit,
      State!HistoryAfterCommit, Sim!Commit, State!Commit
<1>2. Sim!Vec = State!Vec
  BY DEF Sim!Vec, State!Vec
<1>3. QED
  BY <1>1, <1>2, StateAssumed, State!CommittedTrial, State!CommittedHistory

----------------------------------------------------------------------------
(* The invariant of the calls.                                              *)

Agreed == PairValid(committed, time, step, integrator)

(* The places of a call with its trial open, of a step, of any call.        *)
Opened   == {"attempting", "writing", "committing", "rollingBack"}
Stepping == {"opening"} \cup Opened
Busy     == {"looping", "starting", "recording"} \cup Stepping

ExplicitState   == [values : Flats, time : Times, acceptedSteps : Nat]
StepRecord      == [acceptedStep : Nat, start : Times, end : Times, attempts : Nat]
RejectionRecord ==
  [acceptedStep : Nat, time : Times, attempt : Nat, size : Nat, suggested : Nat]
CallRecord      ==
  [goal : Times, toEnd : BOOLEAN, attempt : 0 .. AttemptBudget, ceiling : Nat,
   kind : {"None", "Accepted", "Rejected", "Refused", "Failed"}, size : Nat,
   suggested : Nat, next : ExplicitState \cup {None}]

Typed ==
  /\ call \in CallRecord
  /\ steps \in Seq(StepRecord)
  /\ rejections \in Seq(RejectionRecord)
  /\ refusals \in Seq(Times)
  /\ pc # "preparing" => integrator \in ExplicitState
  /\ \A c \in checkpoints : c.integrator \in ExplicitState
  /\ pc = "preparing" => before = None /\ steps = <<>>

(* The two states agree but while a committed step waits to be adopted.     *)
PairInv ==
  /\ pc \in {"preparing", "idle"} \cup Busy
  /\ pc \notin {"preparing", "recording"} => Agreed
  /\ pc = "recording" => PairValid(committed, time, step, call.next)
  /\ pc \in Opened => phase = "Trial"
  /\ pc \notin Opened \cup {"preparing"} => phase = "Committed"

(* An attempt never passes the final time, nor the ceiling of a retry.      *)
AttemptInv ==
  /\ pc \in Busy /\ call.toEnd => integrator.time <= call.goal
  /\ pc \in {"writing", "committing", "recording"} =>
       /\ call.kind = "Accepted"
       /\ call.next \in ExplicitState
       /\ call.next.acceptedSteps = integrator.acceptedSteps + 1
       /\ call.next.time <= call.goal
  /\ pc = "committing" =>
       /\ Finite(call.next.values)
       /\ \A b \in Blocks : trial[b] = Sim!Part([fits |-> TRUE, at |-> call.next.values], b)
  /\ pc = "rollingBack" /\ call.kind = "Rejected" /\ call.ceiling # 0 =>
       call.size <= call.ceiling
  /\ pc \in Stepping \cup {"recording"} => call.attempt >= 1

(* What a call has recorded and committed since it was made.                *)
TraceInv ==
  /\ pc \in Busy =>
       /\ before.steps \in 0 .. Len(steps)
       /\ before.rejected \in 0 .. Len(rejections)
       /\ before.step \in Nat
       /\ Len(steps) - before.steps = integrator.acceptedSteps - before.step
       /\ integrator.acceptedSteps = before.step /\ pc # "recording" =>
            before = [Snapshot EXCEPT !.rejected = before.rejected, !.refused = before.refused]
       /\ IF Len(steps) = before.steps
          THEN integrator.time = before.time
          ELSE /\ steps[before.steps + 1].start = before.time
               /\ steps[Len(steps)].end = integrator.time
  /\ FailureLeavesNoTrace

(* The rejections of the first step of a call.                              *)
FirstRejected == OfSteps(CallRejections, {before.step + 1})

Numbered(rejected) ==
  /\ \A k \in 1 .. Len(rejected) : rejected[k].attempt = k
  /\ \A k \in 2 .. Len(rejected) : rejected[k].size <= rejected[k - 1].suggested

RetryInv ==
  /\ pc \in Busy =>
       /\ Numbered(FirstRejected)
       /\ integrator.acceptedSteps = before.step =>
            /\ pc \in {"looping", "starting"} => FirstRejected = <<>>
            /\ pc \in Stepping \cup {"recording"} => Len(FirstRejected) = call.attempt - 1
            /\ pc \in Stepping /\ call.attempt > 1 =>
                 /\ call.ceiling # 0
                 /\ call.ceiling = FirstRejected[call.attempt - 1].suggested
  /\ RetriesAccounted

CallInv == Typed /\ PairInv /\ AttemptInv /\ TraceInv /\ RetryInv

Inv == State!IInv /\ CallInv

(* The records number the steps from one on without a gap, and every saved  *)
(* checkpoint lies on the trajectory they describe.                         *)
Numbering ==
  /\ pc # "preparing" => Len(steps) = integrator.acceptedSteps
  /\ \A k \in 1 .. Len(steps) :
       /\ steps[k].acceptedStep = k
       /\ k > 1 => steps[k].start = steps[k - 1].end
  /\ Len(steps) > 0 => steps[Len(steps)].end = integrator.time

OnTrajectory ==
  \A c \in checkpoints :
    /\ c.state.step <= Len(steps)
    /\ c.state.step > 0 => steps[c.state.step].end = c.state.time

RecordsInv == Numbering /\ OnTrajectory

----------------------------------------------------------------------------
(* OfSteps, by induction over the records.                                  *)

(* f tells, for each k up to n, the records kept of the first k.            *)
Keeps(f, records, wanted, n) ==
  f = [k \in 0 .. n |->
         IF k = 0 THEN <<>>
         ELSE IF records[k].acceptedStep \in wanted THEN Append(f[k - 1], records[k])
         ELSE f[k - 1]]

(* What it tells of one record more.                                        *)
LEMMA KeepsStep ==
  ASSUME NEW f, NEW records, NEW wanted, NEW n \in Nat, NEW k \in Nat, k + 1 <= n,
         Keeps(f, records, wanted, n)
  PROVE  f[k + 1] = IF records[k + 1].acceptedStep \in wanted
                    THEN Append(f[k], records[k + 1]) ELSE f[k]
<1>1. k + 1 \in 0 .. n /\ k + 1 # 0 /\ (k + 1) - 1 = k
  OBVIOUS
<1>2. QED
  BY <1>1 DEF Keeps

(* There is such a function.                                                *)
LEMMA KeepsExists ==
  ASSUME NEW records, NEW wanted, NEW n \in Nat
  PROVE  \E f : Keeps(f, records, wanted, n)
<1> DEFINE T == {m \in Nat : \E f : Keeps(f, records, wanted, m)}
<1>1. 0 \in T
  <2>1. Keeps([k \in 0 .. 0 |-> <<>>], records, wanted, 0)
    BY DEF Keeps
  <2>2. QED
    BY <2>1
<1>2. ASSUME NEW m \in Nat, m \in T
      PROVE  m + 1 \in T
  <2>1. PICK f : Keeps(f, records, wanted, m)
    BY <1>2
  <2> DEFINE longer == [k \in 0 .. m + 1 |->
         IF k <= m THEN f[k]
         ELSE IF records[k].acceptedStep \in wanted THEN Append(f[k - 1], records[k])
         ELSE f[k - 1]]
  <2> DEFINE value(k) == IF k = 0 THEN <<>>
         ELSE IF records[k].acceptedStep \in wanted THEN Append(longer[k - 1], records[k])
         ELSE longer[k - 1]
  <2>2. ASSUME NEW k \in 0 .. m + 1 PROVE longer[k] = value(k)
    <3>1. CASE k = 0
      BY <2>1, <3>1 DEF Keeps
    <3>2. CASE k # 0
      <4>1. k - 1 \in 0 .. m /\ longer[k - 1] = f[k - 1]
        BY <3>2
      <4>2. CASE k <= m
        <5>1. k \in 0 .. m /\ longer[k] = f[k]
          BY <4>2
        <5>2. f[k] = IF records[k].acceptedStep \in wanted THEN Append(f[k - 1], records[k])
                     ELSE f[k - 1]
          <6> HIDE DEF longer, value
          <6>1. QED
            BY <2>1, <3>2, <5>1 DEF Keeps
        <5>3. QED
          BY <3>2, <4>1, <5>1, <5>2
      <4>3. QED
        BY <3>2, <4>1, <4>2
    <3>3. QED
      BY <3>1, <3>2
  <2>3. longer = [k \in 0 .. m + 1 |-> value(k)]
    <3>1. longer = [k \in 0 .. m + 1 |-> longer[k]]
      OBVIOUS
    <3> HIDE DEF longer, value
    <3>2. QED
      BY <2>2, <3>1
  <2>4. Keeps(longer, records, wanted, m + 1)
    <3> HIDE DEF longer
    <3>1. QED
      BY <2>3 DEF Keeps
  <2>5. QED
    <3> HIDE DEF longer
    <3>1. QED
      BY <2>4
<1>3. QED
  <2> HIDE DEF T
  <2>1. n \in T
    BY <1>1, <1>2, StateAssumed, State!SetInduction
  <2>2. QED
    BY <2>1 DEF T

LEMMA OfStepsKeeps ==
  ASSUME NEW records, NEW wanted, Len(records) \in Nat
  PROVE  \E f : Keeps(f, records, wanted, Len(records)) /\ OfSteps(records, wanted) = f[Len(records)]
<1> DEFINE f == CHOOSE f : Keeps(f, records, wanted, Len(records))
<1>1. OfSteps(records, wanted) = f[Len(records)]
  BY DEF OfSteps, Keeps
<1>2. Keeps(f, records, wanted, Len(records))
  BY KeepsExists
<1>3. QED
  BY <1>1, <1>2
(* Two such functions agree as far as they tell of the same records.        *)
LEMMA KeepsAgree ==
  ASSUME NEW f, NEW g, NEW r, NEW s, NEW wanted, NEW n \in Nat, NEW m \in Nat, n <= m,
         \A k \in 1 .. n : r[k] = s[k],
         Keeps(f, r, wanted, n), Keeps(g, s, wanted, m)
  PROVE  f[n] = g[n]
<1> DEFINE T == {k \in Nat : k <= n => f[k] = g[k]}
<1>1. 0 \in T
  BY DEF Keeps
<1>2. ASSUME NEW k \in Nat, k \in T
      PROVE  k + 1 \in T
  <2> SUFFICES ASSUME k + 1 <= n PROVE f[k + 1] = g[k + 1]
    OBVIOUS
  <2>1. f[k] = g[k] /\ r[k + 1] = s[k + 1]
    BY <1>2
  <2>2. f[k + 1] = IF r[k + 1].acceptedStep \in wanted THEN Append(f[k], r[k + 1]) ELSE f[k]
    BY KeepsStep
  <2>3. g[k + 1] = IF s[k + 1].acceptedStep \in wanted THEN Append(g[k], s[k + 1]) ELSE g[k]
    BY KeepsStep
  <2>4. QED
    BY <2>1, <2>2, <2>3
<1>3. QED
  <2> HIDE DEF T
  <2>1. n \in T
    BY <1>1, <1>2, StateAssumed, State!SetInduction
  <2>2. QED
    BY <2>1 DEF T

LEMMA OfStepsAppend ==
  ASSUME NEW S, NEW records \in Seq(S), NEW r \in S, NEW wanted
  PROVE  OfSteps(Append(records, r), wanted) =
           IF r.acceptedStep \in wanted THEN Append(OfSteps(records, wanted), r)
           ELSE OfSteps(records, wanted)
<1> DEFINE n == Len(records)
           longer == Append(records, r)
<1>1. /\ n \in Nat /\ Len(longer) = n + 1 /\ longer[n + 1] = r
      /\ \A k \in 1 .. n : records[k] = longer[k]
  BY AppendProperties
<1> HIDE DEF n, longer
<1>2. PICK f : Keeps(f, records, wanted, n) /\ OfSteps(records, wanted) = f[n]
  BY <1>1, OfStepsKeeps DEF n
<1>3. PICK g : Keeps(g, longer, wanted, n + 1) /\ OfSteps(longer, wanted) = g[n + 1]
  BY <1>1, OfStepsKeeps
<1>4. f[n] = g[n]
  <2>1. n + 1 \in Nat /\ n <= n + 1
    BY <1>1
  <2>2. QED
    BY <2>1, <1>1, <1>2, <1>3, KeepsAgree
<1>5. g[n + 1] = IF longer[n + 1].acceptedStep \in wanted
                 THEN Append(g[n], longer[n + 1]) ELSE g[n]
  BY <1>1, <1>3, KeepsStep
<1>6. QED
  BY <1>1, <1>2, <1>3, <1>4, <1>5 DEF longer

LEMMA OfStepsNothing == \A records, wanted : Len(records) = 0 => OfSteps(records, wanted) = <<>>
<1> SUFFICES ASSUME NEW records, NEW wanted, Len(records) = 0 PROVE OfSteps(records, wanted) = <<>>
  OBVIOUS
<1>1. PICK f : Keeps(f, records, wanted, 0) /\ OfSteps(records, wanted) = f[0]
  BY OfStepsKeeps
<1>2. QED
  BY <1>1 DEF Keeps

(* The records of some steps are records.                                   *)
LEMMA OfStepsTyped ==
  ASSUME NEW S, NEW records \in Seq(S), NEW wanted
  PROVE  OfSteps(records, wanted) \in Seq(S)
<1> DEFINE n == Len(records)
<1>1. n \in Nat
  OBVIOUS
<1>2. PICK f : Keeps(f, records, wanted, n) /\ OfSteps(records, wanted) = f[n]
  BY <1>1, OfStepsKeeps
<1> DEFINE T == {k \in Nat : k <= n => f[k] \in Seq(S)}
<1> HIDE DEF n
<1>3. 0 \in T
  BY <1>1, <1>2 DEF Keeps
<1>4. ASSUME NEW k \in Nat, k \in T
      PROVE  k + 1 \in T
  <2> SUFFICES ASSUME k + 1 <= n PROVE f[k + 1] \in Seq(S)
    OBVIOUS
  <2>1. k + 1 \in 0 .. n /\ k + 1 # 0 /\ (k + 1) - 1 = k /\ f[k] \in Seq(S)
    BY <1>1, <1>4
  <2>2. records[k + 1] \in S
    BY <2>1 DEF n
  <2>3. f[k + 1] = IF records[k + 1].acceptedStep \in wanted
                   THEN Append(f[k], records[k + 1]) ELSE f[k]
    BY <1>1, <1>2, KeepsStep
  <2>4. Append(f[k], records[k + 1]) \in Seq(S)
    BY <2>1, <2>2
  <2>5. QED
    BY <2>1, <2>3, <2>4
<1>5. QED
  <2> HIDE DEF T
  <2>1. n \in T
    BY <1>1, <1>3, <1>4, StateAssumed, State!SetInduction
  <2>2. QED
    BY <1>2, <2>1 DEF T

(* Records that number the steps from one on: those up to a step come first.*)
LEMMA RetainedIsPrefix ==
  ASSUME NEW S, NEW records \in Seq(S), NEW m \in 0 .. Len(records),
         \A k \in 1 .. Len(records) : records[k].acceptedStep = k
  PROVE  Retained(records, m) = SubSeq(records, 1, m)
<1> DEFINE n == Len(records)
           least(k) == IF k < m THEN k ELSE m
<1>1. n \in Nat /\ m \in Nat /\ m <= n
  OBVIOUS
<1>2. PICK f : Keeps(f, records, 0 .. m, n) /\ Retained(records, m) = f[n]
  BY <1>1, OfStepsKeeps DEF Retained
<1> DEFINE T == {k \in Nat : k <= n => f[k] = SubSeq(records, 1, least(k))}
<1> HIDE DEF n
<1>3. 0 \in T
  <2>1. f[0] = <<>>
    BY <1>1, <1>2 DEF Keeps
  <2>2. SubSeq(records, 1, 0) = <<>>
    OBVIOUS
  <2>3. least(0) = 0
    BY <1>1
  <2>4. QED
    BY <2>1, <2>2, <2>3
<1>4. ASSUME NEW k \in Nat, k \in T
      PROVE  k + 1 \in T
  <2> SUFFICES ASSUME k + 1 <= n PROVE f[k + 1] = SubSeq(records, 1, least(k + 1))
    OBVIOUS
  <2>1. k + 1 \in 1 .. n /\ k + 1 \in 0 .. n /\ (k + 1) - 1 = k
    BY <1>1
  <2>2. f[k] = SubSeq(records, 1, least(k))
    BY <1>1, <1>4
  <2>3. f[k + 1] = IF records[k + 1].acceptedStep \in 0 .. m
                   THEN Append(f[k], records[k + 1]) ELSE f[k]
    BY <1>1, <1>2, KeepsStep
  <2>4. records[k + 1].acceptedStep = k + 1
    BY <2>1 DEF n
  <2>5. CASE k + 1 <= m
    <3>1. SubSeq(records, 1, k + 1) = Append(SubSeq(records, 1, k), records[k + 1])
      BY <2>1 DEF n
    <3>2. least(k) = k /\ least(k + 1) = k + 1
      BY <1>1, <2>5
    <3>3. QED
      BY <2>2, <2>3, <2>4, <2>5, <3>1, <3>2
  <2>6. CASE ~ (k + 1 <= m)
    <3>1. least(k) = m /\ least(k + 1) = m
      BY <1>1, <2>6
    <3>2. QED
      BY <1>1, <2>2, <2>3, <2>4, <2>6, <3>1
  <2>7. QED
    BY <2>5, <2>6
<1>5. QED
  <2> HIDE DEF T
  <2>1. n \in T
    BY <1>1, <1>3, <1>4, StateAssumed, State!SetInduction
  <2>2. least(n) = m
    BY <1>1
  <2>3. QED
    BY <1>1, <1>2, <2>1, <2>2 DEF T

(* A rejection made in a call joins the rejections of that call.            *)
LEMMA CallRejectionsGrow ==
  ASSUME NEW S, NEW s \in Seq(S), NEW r \in S, NEW m \in 0 .. Len(s)
  PROVE  /\ SubSeq(s, m + 1, Len(s)) \in Seq(S)
         /\ SubSeq(Append(s, r), m + 1, Len(Append(s, r)))
              = Append(SubSeq(s, m + 1, Len(s)), r)
<1> DEFINE n     == Len(s)
           t     == Append(s, r)
           short == SubSeq(s, m + 1, n)
           long  == SubSeq(t, m + 1, n + 1)
<1>1. /\ n \in Nat /\ m \in Nat /\ m <= n /\ Len(t) = n + 1 /\ t[n + 1] = r
      /\ \A k \in 1 .. n : s[k] \in S /\ t[k] = s[k]
  OBVIOUS
<1> HIDE DEF n, t
<1>2. /\ short \in Seq(S) /\ Len(short) = n - m
      /\ \A k \in 1 .. n - m : short[k] = s[m + k]
  <2>1. \A k \in m + 1 .. n : s[k] \in S
    BY <1>1
  <2>2. /\ short \in Seq(S)
        /\ Len(short) = IF m + 1 <= n THEN n - (m + 1) + 1 ELSE 0
        /\ \A k \in 1 .. n - (m + 1) + 1 : short[k] = s[(m + 1) + k - 1]
    BY <1>1, <2>1, SubSeqProperties
  <2>3. QED
    BY <1>1, <2>2
<1>3. /\ long \in Seq(S) /\ Len(long) = (n - m) + 1
      /\ \A k \in 1 .. (n - m) + 1 : long[k] = t[m + k]
  <2>1. \A k \in m + 1 .. n + 1 : t[k] \in S
    BY <1>1
  <2>2. /\ long \in Seq(S)
        /\ Len(long) = IF m + 1 <= n + 1 THEN (n + 1) - (m + 1) + 1 ELSE 0
        /\ \A k \in 1 .. (n + 1) - (m + 1) + 1 : long[k] = t[(m + 1) + k - 1]
    BY <1>1, <2>1, SubSeqProperties
  <2> HIDE DEF long
  <2>3. Len(long) = (n - m) + 1
    BY <1>1, <2>2
  <2>4. \A k \in 1 .. (n - m) + 1 :
          k \in 1 .. (n + 1) - (m + 1) + 1 /\ (m + 1) + k - 1 = m + k
    BY <1>1
  <2>5. QED
    BY <2>2, <2>3, <2>4
<1> HIDE DEF short, long
<1>4. /\ Append(short, r) \in Seq(S) /\ Len(Append(short, r)) = (n - m) + 1
      /\ \A k \in 1 .. n - m : Append(short, r)[k] = short[k]
      /\ Append(short, r)[(n - m) + 1] = r
  BY <1>2
<1>5. ASSUME NEW k \in 1 .. (n - m) + 1
      PROVE  long[k] = Append(short, r)[k]
  <2>1. CASE k = (n - m) + 1
    <3>1. m + k = n + 1
      BY <1>1, <2>1
    <3>2. QED
      BY <1>1, <1>3, <1>4, <2>1, <3>1
  <2>2. CASE k # (n - m) + 1
    <3>1. k \in 1 .. n - m /\ m + k \in 1 .. n
      BY <1>1, <2>2
    <3>2. QED
      BY <1>1, <1>2, <1>3, <1>4, <3>1
  <2>3. QED
    BY <2>1, <2>2
<1>6. long = Append(short, r)
  BY <1>3, <1>4, <1>5, SeqEqual
<1>7. QED
  BY <1>1, <1>2, <1>6 DEF n, t, short, long

----------------------------------------------------------------------------
LEMMA NoCallTyped == NoCall \in CallRecord
<1>1. 0 \in Times /\ 0 \in 0 .. AttemptBudget
  BY StateAssumption, BudgetAssumption DEF Sim!BoundAssumption
<1>2. QED
  BY <1>1 DEF NoCall, CallRecord

LEMMA InitInv == Init => Inv
<1> SUFFICES ASSUME Init PROVE Inv
  OBVIOUS
<1>1. State!IInv
  BY StateBegins DEF Init
<1>2. /\ pc = "preparing" /\ before = None /\ checkpoints = {}
      /\ steps = <<>> /\ rejections = <<>> /\ refusals = <<>>
  BY DEF Init
<1>3. call \in CallRecord
  BY NoCallTyped DEF Init
<1>4. Typed
  BY <1>2, <1>3 DEF Typed
<1>5. PairInv /\ AttemptInv /\ TraceInv /\ RetryInv
  BY <1>2 DEF PairInv, AttemptInv, TraceInv, RetryInv, Busy, Stepping, Opened,
     FailureLeavesNoTrace, RetriesAccounted
<1>6. QED
  BY <1>1, <1>4, <1>5 DEF CallInv, Inv

(* A step that does not touch the state is no step of the state.            *)
LEMMA SteadyStutters == Steady => UNCHANGED Sim!vars
BY DEF Steady, simVars, Sim!vars, Sim!store

(* The values of an attempt, as the flat vector set_trial_vector is given.  *)
LEMMA AttemptsAreVectors ==
  ASSUME call.next \in ExplicitState
  PROVE  [fits |-> TRUE, at |-> call.next.values] \in Sim!FlatVec
BY DEF ExplicitState, Flats, Blocks, Sim!Blocks, Sim!FlatVec

(* Every step of the execution is a step of its state, made when the state  *)
(* allows it, or leaves the state alone.                                    *)
LEMMA StepsTransact ==
  ASSUME Inv, [Next]_vars
  PROVE  [Sim!Next]_Sim!vars
<1> USE DEF Inv, CallInv
<1>1. CASE Prepare
  <2>1. ASSUME NEW b \in Blocks, NEW x \in Vals,
               Sim!InsertField(b, [len |-> BlockLen[b], val |-> x])
        PROVE  Sim!Next
    <3>1. b \in Sim!Blocks /\ [len |-> BlockLen[b], val |-> x] \in Sim!Vec
      BY StateAssumption DEF Sim!LayoutAssumption, Blocks, Sim!Blocks, Sim!Vec
    <3>2. QED
      BY <2>1, <3>1 DEF Sim!Next
  <2>2. CASE Sim!BeginTrial \/ Sim!Rollback
    BY <2>2 DEF Sim!Next
  <2>3. QED
    BY <1>1, <2>1, <2>2 DEF Prepare
<1>2. CASE Create \/ Loop \/ Start \/ Attempt \/ Record
  BY <1>2, SteadyStutters DEF Create, Loop, Start, Attempt, Record
<1>3. ASSUME NEW goal \in Times \cup {NonFinite}, Advance(goal) \/ AdvanceTo(goal)
      PROVE  [Sim!Next]_Sim!vars
  BY <1>3, SteadyStutters DEF Advance, AdvanceTo
<1>4. CASE Open \/ RollBack
  BY <1>4 DEF Open, RollBack, Sim!Next
<1>5. CASE Write
  <2>1. [fits |-> TRUE, at |-> call.next.values] \in Sim!FlatVec
    BY <1>5, AttemptsAreVectors DEF Write, AttemptInv
  <2>2. QED
    BY <1>5, <2>1 DEF Write, Sim!Next
<1>6. CASE CommitTrial
  <2>1. call.next.time \in Times
    BY <1>6 DEF CommitTrial, AttemptInv, ExplicitState
  <2>2. QED
    BY <1>6, <2>1 DEF CommitTrial, Sim!Next
<1>7. CASE Checkpoint
  BY <1>7 DEF Checkpoint, Sim!Next
<1>8. ASSUME NEW c \in Offers, Restore(c)
      PROVE  [Sim!Next]_Sim!vars
  <2>1. c.state \in Sim!Offers
    BY DEF Offers
  <2>2. QED
    BY <1>8, <2>1 DEF Restore, Restorable, Sim!Next, simVars, Sim!vars, Sim!store
<1>9. CASE UNCHANGED vars
  BY <1>9 DEF vars, simVars, Sim!vars, Sim!store
<1>10. QED
  BY <1>1, <1>2, <1>3, <1>4, <1>5, <1>6, <1>7, <1>8, <1>9 DEF Next, Proceed

----------------------------------------------------------------------------
(* A state operation other than a commit or a restore leaves the committed  *)
(* state and its history as they are.                                       *)
LEMMA CommittedUntouched ==
  ASSUME \/ Sim!BeginTrial
         \/ Sim!Refuse
         \/ Sim!Rollback
         \/ Sim!TakeCheckpoint
         \/ \E f : Sim!SetTrialVector(f)
         \/ UNCHANGED simVars
  PROVE  UNCHANGED <<committed, history, historyLimit, time, step>>
BY DEF simVars, Sim!BeginTrial, Sim!Refuse, Sim!Rollback, Sim!SetTrialVector,
   Sim!TakeCheckpoint, Sim!store

(* After the commit of an attempt the committed state agrees with what the  *)
(* explicit state will be.                                                  *)
LEMMA CommitAgrees ==
  ASSUME State!IInv, Agreed, call.next \in ExplicitState,
         call.next.acceptedSteps = integrator.acceptedSteps + 1,
         Finite(call.next.values),
         \A b \in Blocks : trial[b] = Sim!Part([fits |-> TRUE, at |-> call.next.values], b),
         Sim!Commit(call.next.time)
  PROVE  PairValid(committed', time', step', call.next)
<1> DEFINE next == call.next
<1>1. next.values \in Flats
  BY DEF ExplicitState
<1>2. time' = next.time /\ step' = step + 1 /\ next.time # NonFinite
  BY DEF Sim!Commit, Sim!CanCommit
<1>3. ASSUME NEW b \in Blocks
      PROVE  /\ committed'[b] # None
             /\ committed'[b].val = next.values[b]
  <2>1. committed'[b] = trial[b] /\ trial[b] \in Sim!Vec
    BY StateCommits
  <2>2. trial[b] = [len |-> BlockLen[b], val |-> next.values[b]]
    BY DEF Sim!Part
  <2>3. QED
    BY <2>1, <2>2, StateAssumption DEF Sim!ValueAssumption
<1>4. next.values = FlatOf(committed')
  <2> HIDE DEF next
  <2>1. QED
    BY <1>1, <1>3 DEF FlatOf, Flats
<1>5. next.acceptedSteps = step'
  BY <1>2 DEF Agreed, PairValid
<1>6. QED
  BY <1>2, <1>3, <1>4, <1>5 DEF PairValid

(* A step of a call that records nothing and moves nothing committed.       *)
LEMMA QuietKeeps ==
  ASSUME TraceInv, pc \in Busy \ {"recording"}, pc' \in Busy \ {"recording"},
         UNCHANGED <<committed, history, historyLimit, time, step>>,
         UNCHANGED <<integrator, steps, rejections, refusals, before>>
  PROVE  /\ TraceInv'
         /\ Agreed' = Agreed
         /\ FirstRejected' = FirstRejected
<1>1. Agreed' = Agreed /\ Snapshot' = Snapshot
  BY DEF Agreed, Snapshot
<1>2. FirstRejected' = FirstRejected
  BY DEF FirstRejected, CallRejections
<1>3. pc' # "idle" /\ pc' # "recording"
  BY DEF Busy, Stepping, Opened
<1>4. TraceInv'
  BY <1>1, <1>3 DEF TraceInv, FailureLeavesNoTrace
<1>5. QED
  BY <1>1, <1>2, <1>4

(* A call that returns before it has anything more to commit.               *)
LEMMA ReturnLeavesNoTrace ==
  ASSUME TraceInv, Agreed, pc \in Busy \ {"recording"},
         UNCHANGED <<committed, history, historyLimit, time, step>>,
         UNCHANGED <<integrator, steps, before>>
  PROVE  FailureLeavesNoTrace'
<1>1. Len(steps) - before.steps = step - before.step
  BY DEF TraceInv, Agreed, PairValid
<1>2. ASSUME step = before.step
      PROVE  Snapshot' = [before EXCEPT !.rejected = Len(rejections'), !.refused = Len(refusals')]
  <2>1. before = [Snapshot EXCEPT !.rejected = before.rejected, !.refused = before.refused]
    BY <1>2 DEF TraceInv, Agreed, PairValid
  <2>2. before = [committed |-> committed, history |-> history, limit |-> historyLimit,
                  time |-> time, step |-> step, integrator |-> integrator,
                  steps |-> Len(steps), rejected |-> before.rejected,
                  refused |-> before.refused]
    BY <2>1 DEF Snapshot
  <2>3. Snapshot' = [committed |-> committed, history |-> history, limit |-> historyLimit,
                     time |-> time, step |-> step, integrator |-> integrator,
                     steps |-> Len(steps), rejected |-> Len(rejections'),
                     refused |-> Len(refusals')]
    BY DEF Snapshot
  <2> DEFINE half  == [before EXCEPT !.rejected = Len(rejections')]
             whole == [half EXCEPT !.refused = Len(refusals')]
  <2>4. half = [committed |-> committed, history |-> history, limit |-> historyLimit,
                time |-> time, step |-> step, integrator |-> integrator,
                steps |-> Len(steps), rejected |-> Len(rejections'),
                refused |-> before.refused]
    BY <2>2
  <2>5. whole = [before EXCEPT !.rejected = Len(rejections'), !.refused = Len(refusals')]
    OBVIOUS
  <2> HIDE DEF half
  <2>6. whole = [committed |-> committed, history |-> history, limit |-> historyLimit,
                 time |-> time, step |-> step, integrator |-> integrator,
                 steps |-> Len(steps), rejected |-> Len(rejections'),
                 refused |-> Len(refusals')]
    BY <2>4
  <2>7. QED
    BY <2>3, <2>5, <2>6
<1>3. QED
  BY <1>1, <1>2 DEF FailureLeavesNoTrace

----------------------------------------------------------------------------
(* Each step keeps the invariant of the calls.                              *)

LEMMA PreparingKeeps ==
  ASSUME Inv, Prepare \/ Create
  PROVE  CallInv'
<1> USE DEF Inv, CallInv
<1>1. CASE Prepare
  <2>1. pc = "preparing" /\ UNCHANGED <<integrator, telemetry, checkpoints, pc, call, result, before>>
    BY <1>1 DEF Prepare
  <2>2. Typed'
    BY <2>1 DEF Typed, telemetry
  <2>3. PairInv' /\ AttemptInv' /\ TraceInv' /\ RetryInv'
    BY <2>1 DEF PairInv, AttemptInv, TraceInv, RetryInv, Busy, Stepping, Opened,
       FailureLeavesNoTrace, RetriesAccounted
  <2>4. QED
    BY <2>2, <2>3
<1>2. CASE Create
  <2>1. /\ pc = "preparing" /\ pc' = "idle" /\ phase = "Committed" /\ step = 0 /\ Sim!Complete
        /\ integrator' = [values |-> FlatOf(committed), time |-> time, acceptedSteps |-> 0]
        /\ UNCHANGED <<telemetry, checkpoints, call, result, before>>
        /\ UNCHANGED <<phase, committed, history, historyLimit, time, step>>
    BY <1>2 DEF Create, Steady, simVars
  <2>2. Sim!TypeOK /\ Sim!ShapesHold
    BY StateFacts
  <2>3. ASSUME NEW b \in Blocks
        PROVE  /\ committed[b] # None
               /\ committed[b] \in Sim!Vec
               /\ committed[b].val # NonFinite
    <3>1. committed[b] # None
      BY <2>1 DEF Sim!Complete, Sim!Present, Blocks, Sim!Blocks
    <3>2. committed[b] \in Sim!Vec
      BY <2>2, <3>1 DEF Sim!TypeOK, Sim!Ids, Blocks, Sim!Blocks
    <3>3. Sim!Fits(committed[b], BlockLen[b])
      BY <2>2, <3>1 DEF Sim!ShapesHold, Sim!Present, Blocks, Sim!Blocks
    <3>4. QED
      BY <3>1, <3>2, <3>3 DEF Sim!Fits, Sim!IsFinite
  <2>4. time \in Times /\ time # NonFinite
    BY <2>2, StateAssumption DEF Sim!TypeOK, Sim!ValueAssumption
  <2>5. FlatOf(committed) \in Flats /\ Finite(FlatOf(committed))
    BY <2>3 DEF FlatOf, Flats, Finite, Sim!Vec
  <2>6. integrator' \in ExplicitState
    BY <2>1, <2>4, <2>5 DEF ExplicitState
  <2>7. Agreed'
    <3>1. PairValid(committed, time, step, integrator')
      BY <2>1, <2>3, <2>4, <2>5 DEF PairValid
    <3>2. QED
      BY <2>1, <3>1 DEF Agreed
  <2>8. Typed'
    BY <2>1, <2>6 DEF Typed, telemetry
  <2>9. before' = None
    BY <2>1 DEF Typed
  <2>10. PairInv' /\ AttemptInv' /\ TraceInv' /\ RetryInv'
    BY <2>1, <2>7, <2>9 DEF PairInv, AttemptInv, TraceInv, RetryInv, Busy, Stepping, Opened,
       FailureLeavesNoTrace, RetriesAccounted
  <2>11. QED
    BY <2>8, <2>10
<1>3. QED
  BY <1>1, <1>2

(* A call that has just been made: it has recorded nothing.                 *)
LEMMA CallBegins ==
  ASSUME Inv, pc = "idle", before' = Snapshot,
         UNCHANGED <<committed, history, historyLimit, time, step>>,
         UNCHANGED <<integrator, steps, rejections, refusals>>
  PROVE  /\ Agreed' /\ Agreed
         /\ FirstRejected' = <<>>
         /\ pc' \in Busy \ {"recording"} =>
              /\ before'.steps \in 0 .. Len(steps')
              /\ before'.rejected \in 0 .. Len(rejections')
              /\ before'.step \in Nat
              /\ Len(steps') - before'.steps = integrator'.acceptedSteps - before'.step
              /\ before' = [Snapshot' EXCEPT !.rejected = before'.rejected,
                                             !.refused = before'.refused]
              /\ Len(steps') = before'.steps
              /\ integrator'.time = before'.time
         /\ Snapshot' = [before' EXCEPT !.rejected = Len(rejections'),
                                        !.refused = Len(refusals')]
         /\ Len(steps') - before'.steps = step' - before'.step
<1> USE DEF Inv, CallInv
<1>1. Agreed /\ Agreed'
  BY DEF PairInv, Agreed
<1>2. Snapshot' = Snapshot
  BY DEF Snapshot
<1>3. /\ before'.steps = Len(steps) /\ before'.rejected = Len(rejections)
      /\ before'.step = step /\ before'.time = time
      /\ before'.refused = Len(refusals)
  BY DEF Snapshot
<1>4. /\ Len(steps) \in Nat /\ Len(rejections) \in Nat
      /\ integrator.acceptedSteps \in Nat
  BY DEF Typed, ExplicitState
<1>5. integrator.acceptedSteps = step /\ integrator.time = time
  BY <1>1 DEF Agreed, PairValid
<1>6. FirstRejected' = <<>>
  <2>1. CallRejections' = SubSeq(rejections, Len(rejections) + 1, Len(rejections))
    BY <1>3 DEF CallRejections
  <2>2. CallRejections' = <<>>
    BY <1>4, <2>1, SubSeqEmpty
  <2>3. Len(CallRejections') = 0
    BY <2>2
  <2>4. QED
    BY <2>3, OfStepsNothing DEF FirstRejected
<1>7. /\ before' = [Snapshot' EXCEPT !.rejected = before'.rejected, !.refused = before'.refused]
      /\ Snapshot' = [before' EXCEPT !.rejected = Len(rejections'), !.refused = Len(refusals')]
  <2>1. ASSUME NEW r, r = Snapshot
        PROVE  r = [r EXCEPT !.rejected = Len(rejections), !.refused = Len(refusals)]
    <3> DEFINE half == [r EXCEPT !.rejected = Len(rejections)]
    <3>1. r.rejected = Len(rejections) /\ r.refused = Len(refusals)
      BY <2>1 DEF Snapshot
    <3>2. half = r
      BY <2>1, <3>1 DEF Snapshot
    <3>3. [half EXCEPT !.refused = Len(refusals)] = r
      BY <2>1, <3>1, <3>2 DEF Snapshot
    <3>4. QED
      BY <3>3
  <2>2. QED
    BY <1>2, <1>3, <2>1
<1>8. QED
  BY <1>1, <1>3, <1>4, <1>5, <1>6, <1>7

(* The calls, made when no other is in progress.                            *)
LEMMA CallsKeep ==
  ASSUME Inv,
         \/ \E goal \in Times : Advance(goal)
         \/ \E goal \in Times \cup {NonFinite} : AdvanceTo(goal)
  PROVE  CallInv'
<1> USE DEF Inv, CallInv
<1>1. /\ pc = "idle" /\ before' = Snapshot /\ phase' = "Committed"
      /\ UNCHANGED <<committed, history, historyLimit, time, step>>
      /\ UNCHANGED <<integrator, steps, rejections, refusals, checkpoints>>
  BY DEF Advance, AdvanceTo, Steady, simVars, telemetry, PairInv, Opened
<1>2. /\ Agreed' /\ Agreed
      /\ FirstRejected' = <<>>
      /\ Numbered(FirstRejected)'
  BY <1>1, CallBegins DEF Numbered
<1>3. integrator.time \in Times /\ \A t \in Times : t \in Int
  BY <1>1, StateAssumption DEF Typed, ExplicitState, Sim!BoundAssumption
<1>4. ASSUME pc' \in {"looping", "starting"}, call' \in CallRecord,
             call'.toEnd => integrator.time <= call'.goal
      PROVE  CallInv'
  <2>1. Typed'
    BY <1>1, <1>4 DEF Typed
  <2>2. PairInv' /\ AttemptInv'
    BY <1>1, <1>2, <1>4 DEF PairInv, AttemptInv, Busy, Stepping, Opened
  <2>3. TraceInv'
    BY <1>1, <1>4, CallBegins DEF TraceInv, Busy, FailureLeavesNoTrace
  <2>4. RetryInv'
    BY <1>1, <1>2, <1>4 DEF RetryInv, Stepping, Opened, RetriesAccounted
  <2>5. QED
    BY <2>1, <2>2, <2>3, <2>4
<1>5. ASSUME NEW goal \in Times, Advance(goal)
      PROVE  CallInv'
  <2>1. call' \in CallRecord /\ call'.toEnd = FALSE
    BY <1>5, NoCallTyped DEF Advance, NoCall, CallRecord
  <2>2. pc' = "starting"
    BY <1>5 DEF Advance
  <2>3. QED
    BY <1>4, <2>1, <2>2
<1>6. ASSUME NEW goal \in Times \cup {NonFinite}, AdvanceTo(goal)
      PROVE  CallInv'
  <2>1. CASE goal # NonFinite /\ goal >= integrator.time
    <3>1. /\ pc' = "looping"
          /\ call' = [NoCall EXCEPT !.goal = goal, !.toEnd = TRUE]
      BY <1>6, <2>1 DEF AdvanceTo
    <3>2. goal \in Times
      BY <2>1
    <3>3. call' = [goal |-> goal, toEnd |-> TRUE, attempt |-> 0, ceiling |-> 0,
                   kind |-> "None", size |-> 0, suggested |-> 0, next |-> None]
      BY <3>1 DEF NoCall
    <3>4. call' \in CallRecord
      BY <3>2, <3>3, BudgetAssumption DEF CallRecord
    <3>5. call'.goal = goal /\ integrator.time <= goal
      BY <1>3, <2>1, <3>2, <3>3
    <3>6. QED
      BY <1>4, <3>1, <3>4, <3>5
  <2>2. CASE ~ (goal # NonFinite /\ goal >= integrator.time)
    <3>1. pc' = "idle" /\ result' = "Err" /\ call' = NoCall
      BY <1>6, <2>2 DEF AdvanceTo, Return
    <3>2. Typed'
      BY <1>1, <3>1, NoCallTyped DEF Typed
    <3>3. PairInv' /\ AttemptInv'
      BY <1>1, <1>2, <3>1 DEF PairInv, AttemptInv, Busy, Stepping, Opened
    <3>4. FailureLeavesNoTrace'
      BY <1>1, CallBegins DEF FailureLeavesNoTrace
    <3>5. RetriesAccounted'
      BY <1>2, <3>1 DEF RetriesAccounted, FirstRejected, Numbered
    <3>6. TraceInv' /\ RetryInv'
      BY <3>1, <3>4, <3>5 DEF TraceInv, RetryInv, Busy, Stepping, Opened
    <3>7. QED
      BY <3>2, <3>3, <3>6
  <2>3. QED
    BY <2>1, <2>2
<1>7. QED
  BY <1>5, <1>6

(* Checkpoint and restore, which call for no step.                          *)
LEMMA CheckpointsKeep ==
  ASSUME Inv, Checkpoint \/ \E c \in Offers : Restore(c)
  PROVE  CallInv'
<1> USE DEF Inv, CallInv
<1>1. pc = "idle" /\ pc' = "idle" /\ before' = None /\ UNCHANGED <<call, refusals>>
  BY DEF Checkpoint, Restore, telemetry
<1>2. AttemptInv' /\ TraceInv' /\ RetryInv'
  BY <1>1 DEF AttemptInv, TraceInv, RetryInv, Busy, Stepping, Opened,
     FailureLeavesNoTrace, RetriesAccounted
<1>3. CASE /\ UNCHANGED <<integrator, steps, rejections>>
           /\ UNCHANGED <<phase, committed, history, historyLimit, time, step>>
           /\ \A c \in checkpoints' : c.integrator \in ExplicitState
  BY <1>1, <1>2, <1>3 DEF Typed, PairInv, Agreed, Opened
<1>4. CASE Checkpoint
  <2>1. /\ UNCHANGED <<integrator, steps, rejections>>
        /\ UNCHANGED <<phase, committed, history, historyLimit, time, step>>
    BY <1>4 DEF Checkpoint, telemetry, Sim!TakeCheckpoint, Sim!store
  <2>2. checkpoints' = checkpoints \cup
          {[own |-> TRUE, state |-> Sim!CheckpointOf, integrator |-> integrator]}
    BY <1>4 DEF Checkpoint
  <2>3. \A c \in checkpoints' : c.integrator \in ExplicitState
    BY <1>1, <2>2 DEF Typed
  <2>4. QED
    BY <1>3, <2>1, <2>3
<1>5. ASSUME NEW c \in Offers, Restore(c)
      PROVE  CallInv'
  <2>0. checkpoints' = checkpoints
    BY <1>5 DEF Restore
  <2>1. CASE UNCHANGED <<simVars, integrator, steps, rejections>>
    BY <1>3, <2>0, <2>1 DEF simVars, Typed
  <2>2. CASE /\ Restorable(c)
             /\ Sim!Restore(c.state)
             /\ integrator' = c.integrator
             /\ steps' = Retained(steps, c.integrator.acceptedSteps)
             /\ rejections' = Retained(rejections, c.integrator.acceptedSteps)
    <3>1. /\ committed' = c.state.committed /\ time' = c.state.time /\ step' = c.state.step
          /\ phase' = "Committed"
      BY <2>2 DEF Sim!Restore
    <3>2. Agreed'
      BY <2>2, <3>1 DEF Agreed, Restorable
    <3>3. steps' \in Seq(StepRecord) /\ rejections' \in Seq(RejectionRecord)
      BY <2>2, OfStepsTyped DEF Retained, Typed
    <3>4. integrator' \in ExplicitState
      <4>1. PICK k \in checkpoints : c.integrator = k.integrator
        BY DEF Offers
      <4>2. QED
        BY <2>2, <4>1 DEF Typed
    <3>5. QED
      BY <1>1, <1>2, <2>0, <3>1, <3>2, <3>3, <3>4 DEF Typed, PairInv, Opened
  <2>3. QED
    BY <1>5, <2>1, <2>2 DEF Restore
<1>6. QED
  BY <1>4, <1>5

(* The size of a step toward a final time that is ahead.                    *)
LEMMA SizeFits ==
  ASSUME Typed, pc # "preparing", call.goal > integrator.time
  PROVE  /\ Size \in Nat \ {0}
         /\ integrator.time + Size \in Times
         /\ integrator.time + Size <= call.goal
         /\ call.ceiling # 0 => Size <= call.ceiling
<1>1. /\ call.goal \in Times /\ integrator.time \in Times
      /\ call.goal \in Int /\ integrator.time \in Int
      /\ call.ceiling \in Nat /\ PolicyStep \in Nat \ {0}
  BY StateAssumption, BudgetAssumption DEF Typed, CallRecord, ExplicitState, Sim!BoundAssumption
<1>2. /\ Size \in Nat \ {0} /\ Size <= call.goal - integrator.time
      /\ call.ceiling # 0 => Size <= call.ceiling
  BY <1>1 DEF Size, Smaller
<1>3. integrator.time + Size \in integrator.time .. call.goal
  BY <1>1, <1>2
<1>4. integrator.time + Size \in Times
  BY <1>1, <1>3, TimesAssumption
<1>5. QED
  BY <1>1, <1>2, <1>3, <1>4

(* The steps that neither record nor commit anything: entering the loop and *)
(* the attempt, opening the trial, attempting, writing, a refused commit.   *)
LEMMA QuietStepsKeep ==
  ASSUME Inv, Loop \/ Start \/ Open \/ Attempt \/ Write
  PROVE  CallInv'
<1> USE DEF Inv, CallInv
<1>1. /\ UNCHANGED <<committed, history, historyLimit, time, step>>
      /\ UNCHANGED <<integrator, steps, rejections, refusals, checkpoints, before>>
      /\ pc \in Busy \ {"recording"}
  BY CommittedUntouched DEF Loop, Start, Open, Attempt, Write, telemetry, Steady, Busy,
     Stepping, Opened
<1>2. /\ Agreed /\ Agreed'
      /\ FirstRejected' = FirstRejected
  BY <1>1 DEF Agreed, PairInv, FirstRejected, CallRejections, Busy, Stepping, Opened
<1>3. Numbered(FirstRejected) /\ Numbered(FirstRejected)'
  BY <1>1, <1>2 DEF RetryInv, Numbered
<1>4. ASSUME pc' \in Busy \ {"recording"} PROVE TraceInv'
  BY <1>1, <1>4, QuietKeeps
<1>5. integrator.time \in Int /\ call.goal \in Int
  BY <1>1, StateAssumption DEF Typed, ExplicitState, CallRecord, Sim!BoundAssumption, Busy,
     Stepping, Opened
<1>6. ASSUME call' \in CallRecord, pc' \in Busy PROVE Typed'
  BY <1>1, <1>6 DEF Typed, Busy, Stepping, Opened
<1>7. CASE Loop
  <2>1. pc = "looping" /\ phase' = "Committed"
    BY <1>7 DEF Loop, PairInv, Opened, Steady, simVars
  <2>2. CASE integrator.time < call.goal /\ pc' = "starting" /\ UNCHANGED <<call, result>>
    <3>1. Typed' /\ TraceInv'
      BY <1>4, <1>6, <2>2 DEF Typed, Busy
    <3>2. PairInv' /\ AttemptInv'
      BY <1>1, <1>2, <2>1, <2>2 DEF PairInv, AttemptInv, Busy, Stepping, Opened
    <3>3. RetryInv'
      BY <1>1, <1>2, <1>3, <2>1, <2>2 DEF RetryInv, Busy, Stepping, Opened, RetriesAccounted
    <3>4. QED
      BY <3>1, <3>2, <3>3
  <2>3. CASE Return("Arrived")
    <3>1. pc' = "idle" /\ result' = "Arrived" /\ call' = NoCall
      BY <2>3 DEF Return
    <3>2. Typed'
      BY <1>1, <2>1, <3>1, NoCallTyped DEF Typed
    <3>3. PairInv' /\ AttemptInv'
      BY <1>2, <2>1, <3>1 DEF PairInv, AttemptInv, Busy, Stepping, Opened
    <3>4. TraceInv'
      BY <3>1 DEF TraceInv, FailureLeavesNoTrace, Busy, Stepping, Opened
    <3>5. RetryInv'
      BY <3>1 DEF RetryInv, RetriesAccounted, Busy, Stepping, Opened
    <3>6. QED
      BY <3>2, <3>3, <3>4, <3>5
  <2>4. QED
    BY <1>7, <2>2, <2>3 DEF Loop
<1>8. CASE Start
  <2>1. pc = "starting" /\ phase = "Committed" /\ phase' = "Committed" /\ Synchronized
    BY <1>2, <1>8 DEF Start, PairInv, Opened, Steady, simVars, Synchronized, Agreed
  <2>2. pc' = "opening" /\ call' = [call EXCEPT !.attempt = 1, !.ceiling = 0]
    BY <1>8, <2>1 DEF Start
  <2>3. /\ call' \in CallRecord /\ call'.attempt = 1 /\ call'.ceiling = 0
        /\ call'.goal = call.goal /\ call'.toEnd = call.toEnd
    <3>1. 1 \in 0 .. AttemptBudget
      BY BudgetAssumption
    <3>2. QED
      BY <2>2, <3>1 DEF Typed, CallRecord
  <2>4. Typed' /\ TraceInv'
    BY <1>4, <1>6, <2>2, <2>3 DEF Busy, Stepping
  <2>5. PairInv' /\ AttemptInv'
    BY <1>1, <1>2, <2>1, <2>2, <2>3 DEF PairInv, AttemptInv, Busy, Stepping, Opened
  <2>6. RetryInv'
    BY <1>1, <1>2, <1>3, <2>1, <2>2, <2>3 DEF RetryInv, Busy, Stepping, Opened, RetriesAccounted
  <2>7. QED
    BY <2>4, <2>5, <2>6
<1>9. CASE Open
  <2>1. pc = "opening" /\ pc' = "attempting" /\ phase' = "Trial" /\ call' = call
    BY <1>9 DEF Open, Sim!BeginTrial
  <2>2. Typed' /\ TraceInv'
    BY <1>4, <1>6, <2>1 DEF Typed, Busy, Stepping, Opened
  <2>3. PairInv' /\ AttemptInv'
    BY <1>1, <1>2, <2>1 DEF PairInv, AttemptInv, Busy, Stepping, Opened
  <2>4. RetryInv'
    BY <1>1, <1>2, <1>3, <2>1 DEF RetryInv, Busy, Stepping, Opened, RetriesAccounted
  <2>5. QED
    BY <2>2, <2>3, <2>4
<1>10. CASE Attempt
  <2>1. pc = "attempting" /\ phase' = "Trial" /\ call \in CallRecord
    BY <1>10 DEF Attempt, Steady, simVars, PairInv, Opened, Typed
  <2>2. ASSUME pc' \in {"writing", "rollingBack"}, call' \in CallRecord,
               call'.goal = call.goal, call'.toEnd = call.toEnd,
               call'.attempt = call.attempt, call'.ceiling = call.ceiling,
               AttemptInv'
        PROVE  CallInv'
    <3>1. Typed' /\ TraceInv'
      BY <1>4, <1>6, <2>2 DEF Busy, Stepping, Opened
    <3>2. PairInv'
      BY <1>2, <2>1, <2>2 DEF PairInv, Busy, Stepping, Opened
    <3>3. RetryInv'
      BY <1>1, <1>2, <1>3, <2>1, <2>2 DEF RetryInv, Busy, Stepping, Opened, RetriesAccounted
    <3>4. QED
      BY <2>2, <3>1, <3>2, <3>3
  <2>3. CASE call.goal > integrator.time /\ Accepted
    <3> DEFINE next(f) == [values |-> f, time |-> integrator.time + Size,
                           acceptedSteps |-> integrator.acceptedSteps + 1]
    <3>1. PICK f \in Flats :
            /\ call' = [call EXCEPT !.kind = "Accepted", !.size = Size, !.next = next(f)]
            /\ pc' = "writing"
      BY <2>3 DEF Accepted
    <3>2. /\ next(f) \in ExplicitState /\ Size \in Nat
          /\ next(f).acceptedSteps = integrator.acceptedSteps + 1
          /\ next(f).time <= call.goal
      BY <2>1, <2>3, SizeFits DEF Typed, ExplicitState
    <3> HIDE DEF next
    <3>3. /\ call' \in CallRecord /\ call'.kind = "Accepted" /\ call'.next = next(f)
          /\ call'.goal = call.goal /\ call'.toEnd = call.toEnd
          /\ call'.attempt = call.attempt /\ call'.ceiling = call.ceiling
      BY <2>1, <3>1, <3>2 DEF CallRecord
    <3>4. AttemptInv'
      BY <1>1, <2>1, <3>1, <3>2, <3>3 DEF AttemptInv, Busy, Stepping, Opened
    <3>5. QED
      BY <2>2, <3>1, <3>3, <3>4
  <2>4. CASE call.goal > integrator.time /\ Rejected
    <3>1. PICK suggested \in 0 .. Size - 1 :
            /\ call' = [call EXCEPT !.kind = "Rejected", !.size = Size, !.suggested = suggested]
            /\ pc' = "rollingBack"
      BY <2>4 DEF Rejected
    <3>2. Size \in Nat /\ suggested \in Nat /\ (call.ceiling # 0 => Size <= call.ceiling)
      BY <2>1, <2>4, SizeFits
    <3>3. /\ call' \in CallRecord /\ call'.size = Size
          /\ call'.goal = call.goal /\ call'.toEnd = call.toEnd
          /\ call'.attempt = call.attempt /\ call'.ceiling = call.ceiling
      BY <2>1, <3>1, <3>2 DEF CallRecord
    <3>4. AttemptInv'
      BY <1>1, <2>1, <3>1, <3>2, <3>3 DEF AttemptInv, Busy, Stepping, Opened
    <3>5. QED
      BY <2>2, <3>1, <3>3, <3>4
  <2>5. CASE Errs
    <3>1. PICK kind \in {"Refused", "Failed"} :
            call' = [call EXCEPT !.kind = kind] /\ pc' = "rollingBack"
      BY <2>5 DEF Errs
    <3>2. /\ call' \in CallRecord /\ call'.kind = kind
          /\ call'.goal = call.goal /\ call'.toEnd = call.toEnd
          /\ call'.attempt = call.attempt /\ call'.ceiling = call.ceiling
      BY <2>1, <3>1 DEF CallRecord
    <3>3. AttemptInv'
      BY <1>1, <2>1, <3>1, <3>2 DEF AttemptInv, Busy, Stepping, Opened
    <3>4. QED
      BY <2>2, <3>1, <3>2, <3>3
  <2>6. QED
    BY <1>10, <2>3, <2>4, <2>5 DEF Attempt
<1>11. CASE Write
  <2> DEFINE f == [fits |-> TRUE, at |-> call.next.values]
  <2>1. pc = "writing" /\ call' = call
    BY <1>11 DEF Write
  <2>2. f \in Sim!FlatVec
    BY <2>1, AttemptsAreVectors DEF AttemptInv
  <2>3. ASSUME pc' \in {"committing", "rollingBack"}, phase' = "Trial", AttemptInv'
        PROVE  CallInv'
    <3>1. Typed' /\ TraceInv'
      BY <1>4, <1>6, <2>1, <2>3 DEF Typed, Busy, Stepping, Opened
    <3>2. PairInv'
      BY <1>2, <2>1, <2>3 DEF PairInv, Busy, Stepping, Opened
    <3>3. RetryInv'
      BY <1>1, <1>2, <1>3, <2>1, <2>3 DEF RetryInv, Busy, Stepping, Opened, RetriesAccounted
    <3>4. QED
      BY <2>3, <3>1, <3>2, <3>3
  <2>4. CASE Sim!SetTrialVector(f) /\ pc' = "committing"
    <3>1. phase' = "Trial" /\ Finite(call.next.values)
      BY <2>4 DEF Sim!SetTrialVector, Sim!CanSetTrialVector, Finite, Blocks, Sim!Blocks
    <3>2. \A b \in Blocks : trial'[b] = Sim!Part(f, b)
      BY <2>2, <2>4, StateWrites
    <3>3. AttemptInv'
      BY <1>1, <2>1, <2>4, <3>1, <3>2 DEF AttemptInv, Busy, Stepping, Opened, Sim!Part, Finite
    <3>4. QED
      BY <2>3, <2>4, <3>1, <3>3
  <2>5. CASE Sim!Refuse /\ pc' = "rollingBack"
    <3>1. phase' = "Trial"
      BY <2>1, <2>5 DEF Sim!Refuse, Sim!store, PairInv, Opened
    <3>2. AttemptInv'
      BY <1>1, <2>1, <2>5 DEF AttemptInv, Busy, Stepping, Opened
    <3>3. QED
      BY <2>3, <2>5, <3>1, <3>2
  <2>6. QED
    BY <1>11, <2>4, <2>5 DEF Write
<1>12. QED
  BY <1>7, <1>8, <1>9, <1>10, <1>11

LEMMA CommitTrialKeeps ==
  ASSUME Inv, CommitTrial
  PROVE  CallInv'
<1> USE DEF Inv, CallInv
<1>1. /\ pc = "committing" /\ phase = "Trial" /\ Agreed
      /\ UNCHANGED <<integrator, steps, rejections, refusals, checkpoints, call, before>>
  BY DEF CommitTrial, telemetry, PairInv, Busy, Stepping, Opened
<1>2. FirstRejected' = FirstRejected
  BY <1>1 DEF FirstRejected, CallRejections
<1>3. Typed'
  BY <1>1 DEF CommitTrial, Typed
<1>4. ASSUME pc' \in Busy
      PROVE  Typed' /\ RetryInv'
  <2>1. pc' # "preparing" /\ pc' # "idle"
    BY <1>4 DEF Busy, Stepping, Opened
  <2>2. pc' \in {"recording"} \cup Stepping => call.attempt >= 1
    BY <1>1 DEF AttemptInv, Stepping, Opened
  <2>3. CASE pc' \in {"recording", "rollingBack"}
    BY <1>1, <1>2, <2>1, <2>3 DEF Typed, RetryInv, Numbered, RetriesAccounted, Busy,
       Stepping, Opened
  <2>4. QED
    BY <2>3 DEF CommitTrial
<1>5. CASE Sim!Commit(call.next.time) /\ pc' = "recording"
  <2>1. PairValid(committed', time', step', call.next) /\ phase' = "Committed"
    BY <1>1, <1>5, CommitAgrees DEF AttemptInv, Sim!Commit
  <2>2. PairInv' /\ AttemptInv'
    BY <1>1, <1>5, <2>1 DEF PairInv, AttemptInv, Busy, Stepping, Opened
  <2>3. TraceInv'
    BY <1>1, <1>5 DEF TraceInv, FailureLeavesNoTrace, Busy, Stepping, Opened
  <2>4. QED
    BY <1>4, <1>5, <2>2, <2>3 DEF Busy
<1>6. CASE Sim!Refuse /\ pc' = "rollingBack"
  <2>1. /\ UNCHANGED <<committed, history, historyLimit, time, step>> /\ phase' = phase
    BY <1>6, CommittedUntouched DEF Sim!Refuse, Sim!store
  <2>2. TraceInv' /\ Agreed'
    BY <1>1, <1>6, <2>1, QuietKeeps DEF Busy, Stepping, Opened
  <2>3. PairInv' /\ AttemptInv'
    BY <1>1, <1>6, <2>1, <2>2 DEF PairInv, AttemptInv, Busy, Stepping, Opened
  <2>4. QED
    BY <1>4, <1>6, <2>2, <2>3 DEF Busy, Stepping, Opened
<1>7. QED
  BY <1>5, <1>6 DEF CommitTrial

(* A rejected attempt joins the rejections of the first step of the call    *)
(* when it is one of that step.                                             *)
LEMMA RejectionCounted ==
  ASSUME Inv, pc = "rollingBack", call.kind = "Rejected", before' = before,
         rejections' = Append(rejections,
           [acceptedStep |-> integrator.acceptedSteps + 1, time |-> integrator.time,
            attempt |-> call.attempt, size |-> call.size, suggested |-> call.suggested])
  PROVE  /\ rejections' \in Seq(RejectionRecord)
         /\ Len(rejections') = Len(rejections) + 1
         /\ Numbered(FirstRejected)'
         /\ Len(FirstRejected') \in Nat
         /\ integrator.acceptedSteps = before.step =>
              /\ Len(FirstRejected') = call.attempt
              /\ FirstRejected'[call.attempt].suggested = call.suggested
<1> DEFINE r == [acceptedStep |-> integrator.acceptedSteps + 1, time |-> integrator.time,
                 attempt |-> call.attempt, size |-> call.size, suggested |-> call.suggested]
           old == SubSeq(rejections, before.rejected + 1, Len(rejections))
           first == OfSteps(old, {before.step + 1})
<1> USE DEF Inv, CallInv
<1>1. /\ integrator \in ExplicitState /\ call \in CallRecord
      /\ rejections \in Seq(RejectionRecord)
      /\ before.rejected \in 0 .. Len(rejections) /\ before.step \in Nat
      /\ call.attempt \in Nat /\ call.attempt >= 1
      /\ call.ceiling # 0 => call.size <= call.ceiling
      /\ Numbered(FirstRejected)
  BY DEF Typed, TraceInv, AttemptInv, RetryInv, Busy, Stepping, Opened, CallRecord
<1>2. r \in RejectionRecord /\ r.acceptedStep = integrator.acceptedSteps + 1
      /\ r.attempt = call.attempt /\ r.size = call.size /\ r.suggested = call.suggested
  BY <1>1 DEF ExplicitState, CallRecord, RejectionRecord
<1>3. FirstRejected = first
  BY DEF FirstRejected, CallRejections
<1>4. rejections' = Append(rejections, r)
  OBVIOUS
<1> HIDE DEF r
<1>5. /\ rejections' \in Seq(RejectionRecord)
      /\ Len(rejections') = Len(rejections) + 1
  BY <1>1, <1>2, <1>4
<1>6. old \in Seq(RejectionRecord) /\ CallRejections' = Append(old, r)
  BY <1>1, <1>2, <1>4, CallRejectionsGrow DEF CallRejections
<1>7. first \in Seq(RejectionRecord)
  BY <1>6, OfStepsTyped
<1> HIDE DEF old
<1>8. FirstRejected' = IF r.acceptedStep \in {before.step + 1} THEN Append(first, r) ELSE first
  BY <1>2, <1>6, OfStepsAppend DEF FirstRejected
<1> HIDE DEF first
<1>9. /\ Len(first) \in Nat
      /\ \A k \in 1 .. Len(first) : first[k] \in RejectionRecord
  BY <1>7
<1>10. CASE integrator.acceptedSteps = before.step
  <2>1. FirstRejected' = Append(first, r)
    BY <1>2, <1>8, <1>10
  <2>2. /\ Len(first) = call.attempt - 1
        /\ call.attempt > 1 =>
             call.ceiling # 0 /\ call.ceiling = first[call.attempt - 1].suggested
    BY <1>3, <1>10 DEF RetryInv, Busy, Stepping, Opened
  <2>3. /\ Len(FirstRejected') = call.attempt
        /\ FirstRejected'[call.attempt] = r
        /\ \A k \in 1 .. call.attempt - 1 : FirstRejected'[k] = first[k]
    <3>1. /\ Len(Append(first, r)) = Len(first) + 1
          /\ Append(first, r)[Len(first) + 1] = r
          /\ \A k \in 1 .. Len(first) : Append(first, r)[k] = first[k]
      BY <1>2, <1>7
    <3>2. Len(first) + 1 = call.attempt
      BY <1>1, <2>2
    <3>3. QED
      BY <2>1, <2>2, <3>1, <3>2
  <2>4. ASSUME NEW k \in 1 .. call.attempt
        PROVE  FirstRejected'[k].attempt = k
    <3>1. CASE k = call.attempt
      BY <1>2, <2>3, <3>1
    <3>2. CASE k # call.attempt
      <4>1. k \in 1 .. Len(first) /\ k \in 1 .. call.attempt - 1
        BY <1>1, <2>2, <3>2
      <4>2. QED
        BY <1>1, <1>3, <2>3, <4>1 DEF Numbered
    <3>3. QED
      BY <3>1, <3>2
  <2>5. ASSUME NEW k \in 2 .. call.attempt
        PROVE  FirstRejected'[k].size <= FirstRejected'[k - 1].suggested
    <3>1. k - 1 \in 1 .. call.attempt - 1 /\ FirstRejected'[k - 1] = first[k - 1]
      <4>1. k - 1 \in 1 .. call.attempt - 1
        BY <1>1
      <4>2. QED
        BY <2>3, <4>1
    <3>2. CASE k = call.attempt
      BY <1>1, <1>2, <2>2, <2>3, <3>1, <3>2
    <3>3. CASE k # call.attempt
      <4>1. k \in 2 .. Len(first) /\ k \in 1 .. call.attempt - 1
        BY <1>1, <2>2, <3>3
      <4>2. QED
        BY <1>1, <1>3, <2>3, <3>1, <4>1 DEF Numbered
    <3>4. QED
      BY <3>2, <3>3
  <2>6. QED
    BY <1>1, <1>2, <1>5, <2>3, <2>4, <2>5 DEF Numbered
<1>11. CASE integrator.acceptedSteps # before.step
  <2>1. r.acceptedStep \notin {before.step + 1}
    BY <1>1, <1>2, <1>11 DEF ExplicitState
  <2>2. FirstRejected' = first
    BY <1>8, <2>1
  <2>3. QED
    BY <1>1, <1>3, <1>5, <1>9, <1>11, <2>2 DEF Numbered
<1>12. QED
  BY <1>10, <1>11

LEMMA RollBackKeeps ==
  ASSUME Inv, RollBack
  PROVE  CallInv'
<1> USE DEF Inv, CallInv
<1>1. /\ pc = "rollingBack" /\ Sim!Rollback /\ phase' = "Committed" /\ Agreed
      /\ UNCHANGED <<integrator, steps, checkpoints, before>>
      /\ UNCHANGED <<committed, history, historyLimit, time, step>>
  BY CommittedUntouched DEF RollBack, Sim!Rollback, PairInv, Busy, Stepping, Opened
<1>2. Agreed' /\ pc \in Busy \ {"recording"}
  BY <1>1 DEF Agreed, Busy, Stepping, Opened
<1>3. integrator.acceptedSteps = step
  BY <1>1 DEF Agreed, PairValid
<1>4. call \in CallRecord /\ call.attempt \in Nat /\ integrator.time \in Times
  BY <1>1 DEF Typed, CallRecord, ExplicitState
<1>5. ASSUME pc' = "idle", call' = NoCall,
             rejections' \in Seq(RejectionRecord), refusals' \in Seq(Times),
             RetriesAccounted'
      PROVE  CallInv'
  <2>1. Typed'
    BY <1>1, <1>5, NoCallTyped DEF Typed
  <2>2. PairInv' /\ AttemptInv'
    BY <1>1, <1>2, <1>5 DEF PairInv, AttemptInv, Busy, Stepping, Opened
  <2>3. FailureLeavesNoTrace'
    BY <1>1, <1>2, ReturnLeavesNoTrace
  <2>4. TraceInv' /\ RetryInv'
    BY <1>5, <2>3 DEF TraceInv, RetryInv, Busy, Stepping, Opened
  <2>5. QED
    BY <2>1, <2>2, <2>4
<1>6. CASE call.kind = "Rejected" /\ RejectAttempt
  <2>1. /\ rejections' \in Seq(RejectionRecord)
        /\ Len(rejections') = Len(rejections) + 1
        /\ Numbered(FirstRejected)'
        /\ Len(FirstRejected') \in Nat
        /\ integrator.acceptedSteps = before.step =>
             /\ Len(FirstRejected') = call.attempt
             /\ FirstRejected'[call.attempt].suggested = call.suggested
    BY <1>1, <1>6, RejectionCounted DEF RejectAttempt
  <2>2. refusals' = refusals /\ refusals \in Seq(Times)
    BY <1>6 DEF RejectAttempt, Typed
  <2>3. ASSUME NEW r \in {"Rejected", "Exhausted"}, Return(r), r = "Exhausted" => Spent
        PROVE  CallInv'
    <3>1. pc' = "idle" /\ call' = NoCall /\ result' = r
      BY <2>3 DEF Return
    <3>2. result' = "Exhausted" /\ step = before.step => Len(FirstRejected') = AttemptBudget
      BY <1>3, <1>4, <2>1, <2>3, <3>1, BudgetAssumption DEF Spent, CallRecord
    <3>3. RetriesAccounted'
      BY <1>1, <2>1, <3>1, <3>2 DEF RetriesAccounted, FirstRejected, Numbered
    <3>4. QED
      BY <1>5, <2>1, <2>2, <3>1, <3>3
  <2>4. CASE /\ call.suggested # 0 /\ ~Spent /\ pc' = "opening"
             /\ call' = [call EXCEPT !.attempt = @ + 1, !.ceiling = call.suggested,
                                     !.kind = "None", !.size = 0, !.suggested = 0]
    <3>1. call.attempt + 1 \in 0 .. AttemptBudget
      BY <1>4, <2>4, BudgetAssumption DEF Spent, CallRecord
    <3>2. call' = [goal |-> call.goal, toEnd |-> call.toEnd, attempt |-> call.attempt + 1,
                   ceiling |-> call.suggested, kind |-> "None", size |-> 0,
                   suggested |-> 0, next |-> call.next]
      BY <1>4, <2>4 DEF CallRecord
    <3>3. /\ call' \in CallRecord /\ call'.attempt = call.attempt + 1
          /\ call'.ceiling = call.suggested /\ call'.goal = call.goal
          /\ call'.toEnd = call.toEnd
      BY <1>4, <3>1, <3>2 DEF CallRecord
    <3>4. Typed'
      BY <1>1, <2>1, <2>2, <2>4, <3>3 DEF Typed
    <3>5. PairInv' /\ AttemptInv'
      BY <1>1, <1>2, <1>4, <2>4, <3>3 DEF PairInv, AttemptInv, Busy, Stepping, Opened
    <3>6. TraceInv'
      <4>1. before.rejected \in 0 .. Len(rejections')
        BY <1>1, <1>2, <2>1 DEF TraceInv, Typed
      <4>2. Snapshot' = [Snapshot EXCEPT !.rejected = Len(rejections')]
        BY <1>1, <2>2 DEF Snapshot
      <4>3. [Snapshot' EXCEPT !.rejected = before.rejected, !.refused = before.refused]
              = [Snapshot EXCEPT !.rejected = before.rejected, !.refused = before.refused]
        <5> DEFINE half(s) == [s EXCEPT !.rejected = before.rejected]
        <5>1. half(Snapshot') = half(Snapshot)
          BY <4>2 DEF Snapshot
        <5>2. QED
          BY <5>1
      <4>4. QED
        BY <1>1, <1>2, <2>4, <4>1, <4>3 DEF TraceInv, FailureLeavesNoTrace, Busy, Stepping, Opened
    <3>7. RetryInv'
      <4>1. integrator.acceptedSteps = before.step =>
              /\ Len(FirstRejected') = call'.attempt - 1
              /\ call'.ceiling # 0 /\ call'.ceiling = FirstRejected'[call'.attempt - 1].suggested
        <5>1. call'.attempt - 1 = call.attempt
          BY <1>4, <3>3
        <5>2. QED
          BY <2>1, <2>4, <3>3, <5>1
      <4>2. QED
        BY <1>1, <2>1, <2>4, <4>1 DEF RetryInv, RetriesAccounted, Busy, Stepping, Opened
    <3>8. QED
      BY <3>4, <3>5, <3>6, <3>7
  <2>5. QED
    BY <1>6, <2>3, <2>4 DEF RejectAttempt
<1>7. CASE ReturnError
  <2>1. /\ pc' = "idle" /\ call' = NoCall /\ rejections' = rejections
        /\ result' \in {"Refused", "Err"}
    BY <1>7 DEF ReturnError, Return
  <2>2. refusals' \in Seq(Times)
    <3>1. ASSUME NEW log \in Seq(Times), NEW t \in Times PROVE Append(log, t) \in Seq(Times)
      OBVIOUS
    <3>2. QED
      BY <1>4, <1>7, <3>1 DEF ReturnError, Typed
  <2>3. FirstRejected' = FirstRejected
    BY <1>1, <2>1 DEF FirstRejected, CallRejections
  <2>4. Numbered(FirstRejected)
    BY <1>2 DEF RetryInv
  <2>5. RetriesAccounted'
    BY <1>1, <2>1, <2>3, <2>4 DEF RetriesAccounted, FirstRejected, Numbered
  <2>6. QED
    BY <1>5, <2>1, <2>2, <2>5 DEF Typed
<1>8. QED
  BY <1>6, <1>7 DEF RollBack

LEMMA RecordKeeps ==
  ASSUME Inv, Record
  PROVE  CallInv'
<1> DEFINE n == Len(steps)
           r == NewRecord
<1> USE DEF Inv, CallInv
<1>1. /\ pc = "recording" /\ phase = "Committed" /\ PairValid(committed, time, step, call.next)
      /\ UNCHANGED <<rejections, refusals, checkpoints, before>>
      /\ UNCHANGED <<phase, committed, history, historyLimit, time, step>>
      /\ steps' = Append(steps, r) /\ integrator' = call.next
      /\ IF call.toEnd
         THEN /\ pc' = "looping"
              /\ call' = [NoCall EXCEPT !.goal = call.goal, !.toEnd = TRUE]
         ELSE Return("Accepted")
  BY DEF Record, Steady, simVars, PairInv, Busy, Opened
<1>2. /\ call.next \in ExplicitState /\ integrator \in ExplicitState /\ call \in CallRecord
      /\ call.next.acceptedSteps = integrator.acceptedSteps + 1
      /\ call.next.time <= call.goal
      /\ call.attempt \in 0 .. AttemptBudget /\ call.attempt >= 1
  BY <1>1 DEF Typed, AttemptInv, CallRecord
<1>3. Agreed' /\ step = integrator.acceptedSteps + 1 /\ integrator.acceptedSteps \in Nat
  BY <1>1, <1>2 DEF Agreed, PairValid, ExplicitState
<1>4. /\ r \in StepRecord /\ r.start = integrator.time /\ r.end = call.next.time
      /\ r.attempts = call.attempt
  BY <1>2 DEF NewRecord, StepRecord, ExplicitState
<1>5. steps \in Seq(StepRecord)
  BY DEF Typed
<1> HIDE DEF r
<1>6. /\ n \in Nat /\ steps' \in Seq(StepRecord) /\ Len(steps') = n + 1 /\ steps'[n + 1] = r
      /\ \A k \in 1 .. n : steps'[k] = steps[k]
  BY <1>1, <1>4, <1>5
<1> HIDE DEF n
<1>7. FirstRejected' = FirstRejected
  BY <1>1 DEF FirstRejected, CallRejections
<1>8. /\ before.steps \in 0 .. n
      /\ before.rejected \in 0 .. Len(rejections)
      /\ before.step \in Nat
      /\ n - before.steps = integrator.acceptedSteps - before.step
      /\ n = before.steps => integrator.time = before.time
      /\ n # before.steps => steps[before.steps + 1].start = before.time
  BY <1>1 DEF TraceInv, Busy, n
<1>9. /\ before'.steps \in 0 .. Len(steps')
      /\ before'.rejected \in 0 .. Len(rejections')
      /\ before'.step \in Nat
      /\ Len(steps') - before'.steps = integrator'.acceptedSteps - before'.step
      /\ integrator'.acceptedSteps # before'.step
      /\ Len(steps') # before'.steps
  <2>1. /\ before' = before /\ rejections' = rejections /\ Len(steps') = n + 1
        /\ integrator'.acceptedSteps = integrator.acceptedSteps + 1
    BY <1>1, <1>2, <1>6
  <2>2. before.steps \in Nat /\ before.steps <= n /\ before.step <= integrator.acceptedSteps
    BY <1>3, <1>6, <1>8
  <2>3. QED
    BY <1>3, <1>6, <1>8, <2>1, <2>2, SMTT(30)
<1>10. /\ steps'[before'.steps + 1].start = before'.time
       /\ steps'[Len(steps')].end = integrator'.time
  <2>1. CASE n = before.steps
    BY <1>1, <1>4, <1>6, <1>8, <2>1
  <2>2. CASE n # before.steps
    <3>1. before.steps + 1 \in 1 .. n
      BY <1>6, <1>8, <2>2
    <3>2. QED
      BY <1>1, <1>4, <1>6, <1>8, <2>2, <3>1
  <2>3. QED
    BY <2>1, <2>2
<1>11. Numbered(FirstRejected)
  BY <1>1 DEF RetryInv, Busy
<1>12. call' \in CallRecord
  <2>1. call.goal \in Times
    BY <1>2 DEF CallRecord
  <2>2. CASE call.toEnd
    <3>1. call' = [goal |-> call.goal, toEnd |-> TRUE, attempt |-> 0, ceiling |-> 0,
                   kind |-> "None", size |-> 0, suggested |-> 0, next |-> None]
      BY <1>1, <2>2 DEF NoCall
    <3>2. QED
      BY <2>1, <3>1, BudgetAssumption DEF CallRecord
  <2>3. CASE ~call.toEnd
    BY <1>1, <2>3, NoCallTyped DEF Return
  <2>4. QED
    BY <2>2, <2>3
<1>13. Typed'
  BY <1>1, <1>2, <1>6, <1>12 DEF Typed, Return
<1>14. CASE call.toEnd
  <2>1. pc' = "looping" /\ call'.goal = call.goal
    BY <1>1, <1>14 DEF NoCall
  <2>2. PairInv' /\ AttemptInv'
    BY <1>1, <1>2, <1>3, <2>1 DEF PairInv, AttemptInv, Busy, Stepping, Opened
  <2>3. TraceInv'
    BY <1>9, <1>10, <2>1 DEF TraceInv, FailureLeavesNoTrace
  <2>4. RetryInv'
    BY <1>7, <1>9, <1>11, <2>1 DEF RetryInv, RetriesAccounted, Numbered
  <2>5. QED
    BY <1>13, <2>2, <2>3, <2>4
<1>15. CASE ~call.toEnd
  <2>1. pc' = "idle" /\ result' = "Accepted"
    BY <1>1, <1>15 DEF Return
  <2>2. PairInv' /\ AttemptInv'
    BY <1>1, <1>3, <2>1 DEF PairInv, AttemptInv, Busy, Stepping, Opened
  <2>3. TraceInv'
    BY <2>1 DEF TraceInv, FailureLeavesNoTrace, Busy, Stepping, Opened
  <2>4. ASSUME step <= before.step + 1
        PROVE  /\ steps'[Len(steps')].attempts = Len(FirstRejected) + 1
               /\ Len(FirstRejected) < AttemptBudget
    <3>1. integrator.acceptedSteps = before.step
      BY <1>3, <1>6, <1>8, <2>4
    <3>2. Len(FirstRejected) = call.attempt - 1
      BY <1>1, <3>1 DEF RetryInv, Busy
    <3>3. QED
      BY <1>2, <1>4, <1>6, <3>2, BudgetAssumption
  <2>5. RetriesAccounted'
    BY <1>1, <1>7, <1>11, <2>1, <2>4 DEF RetriesAccounted, FirstRejected, Numbered
  <2>6. RetryInv'
    BY <2>1, <2>5 DEF RetryInv, Busy, Stepping, Opened
  <2>7. QED
    BY <1>13, <2>2, <2>3, <2>6
<1>16. QED
  BY <1>14, <1>15

LEMMA NextPreservesInv == Inv /\ [Next]_vars => Inv'
<1> SUFFICES ASSUME Inv, [Next]_vars PROVE Inv'
  OBVIOUS
<1>1. State!IInv'
  BY StepsTransact, StateSteps DEF Inv
<1>2. CASE UNCHANGED vars
  <2>1. /\ UNCHANGED <<phase, historyLimit, time, step, committed, trial, history>>
        /\ UNCHANGED <<integrator, steps, rejections, refusals, checkpoints>>
        /\ UNCHANGED <<pc, call, result, before>>
    BY <1>2 DEF vars, simVars, telemetry
  <2>2. Typed' /\ PairInv'
    BY <2>1 DEF Inv, CallInv, Typed, PairInv, Agreed
  <2>3. AttemptInv'
    BY <2>1 DEF Inv, CallInv, AttemptInv, Sim!Part
  <2>4. TraceInv' /\ RetryInv'
    BY <2>1 DEF Inv, CallInv, TraceInv, RetryInv, Snapshot, FirstRejected, CallRejections,
       FailureLeavesNoTrace, RetriesAccounted
  <2>5. QED
    BY <1>1, <2>2, <2>3, <2>4 DEF Inv, CallInv
<1>3. CASE Next
  BY <1>1, <1>3, PreparingKeeps, CallsKeep, CheckpointsKeep, QuietStepsKeep, CommitTrialKeeps,
     RollBackKeeps, RecordKeeps DEF Next, Proceed, Inv
<1>4. QED
  BY <1>2, <1>3

----------------------------------------------------------------------------
(* The inductive invariant holds in every reachable state.                  *)
THEOREM Invariance == Spec => []Inv
<1>1. QED
  BY InitInv, NextPreservesInv, PTL DEF Spec

(* The committed state and the explicit state agree whenever no call is in  *)
(* progress, whatever was rejected, refused or restored before.             *)
THEOREM SynchronizationIsKept == Spec => []SynchronizedWhenIdle
<1>1. Inv => SynchronizedWhenIdle
  BY DEF Inv, CallInv, PairInv, Opened, SynchronizedWhenIdle, Synchronized, Agreed
<1>2. QED
  BY <1>1, Invariance, PTL

(* A call that fails leaves the committed state, its history, the explicit  *)
(* state and the step records as it found them, but for the steps advance_to*)
(* had committed, which all have their record.                              *)
THEOREM FailedCallsLeaveNoTrace == Spec => []FailureLeavesNoTrace
<1>1. Inv => FailureLeavesNoTrace
  BY DEF Inv, CallInv, TraceInv
<1>2. QED
  BY <1>1, Invariance, PTL

(* The rejections of a step number its attempts from one upward under ever  *)
(* smaller ceilings; an accepted step tells how many it took, and a step is *)
(* given up after exactly the budget.                                       *)
THEOREM RetriesAreAccounted == Spec => []RetriesAccounted
<1>1. Inv => RetriesAccounted
  BY DEF Inv, CallInv, RetryInv
<1>2. QED
  BY <1>1, Invariance, PTL

----------------------------------------------------------------------------
(* Only advance_to loops.                                                   *)
OutputInv == pc = "looping" => call.toEnd

LEMMA OutputKept == Spec => []OutputInv
<1>1. Init => OutputInv
  BY DEF Init, OutputInv
<1>2. OutputInv /\ [Next]_vars => OutputInv'
  <2> SUFFICES ASSUME OutputInv, [Next]_vars, pc' = "looping" PROVE call'.toEnd
    BY DEF OutputInv
  <2>1. ASSUME NEW goal PROVE [NoCall EXCEPT !.goal = goal, !.toEnd = TRUE].toEnd
    BY DEF NoCall
  <2>2. CASE UNCHANGED vars
    BY <2>2 DEF vars, OutputInv
  <2>3. CASE Next
    BY <2>1, <2>3 DEF Next, Proceed, OutputInv, Prepare, Create, Advance, AdvanceTo, Loop, Start,
       Open, Attempt, Accepted, Rejected, Errs, Write, CommitTrial, RollBack, RejectAttempt,
       ReturnError, Record, Checkpoint, Restore, Return
  <2>4. QED
    BY <2>2, <2>3
<1>3. QED
  BY <1>1, <1>2, PTL DEF Spec

(* advance_to returns at exactly the output time it was given, with records *)
(* that lead there from the time it was called at.                          *)
THEOREM OutputsAreReached == Spec => ArrivesAtOutput
<1> DEFINE Arrival ==
      pc = "looping" /\ pc' = "idle" =>
        /\ integrator.time = call.goal
        /\ IF Len(steps) = before.steps
           THEN before.time = call.goal
           ELSE /\ steps[before.steps + 1].start = before.time
                /\ steps[Len(steps)].end = call.goal
                /\ Len(steps) - before.steps = step - before.step
<1>1. Inv /\ OutputInv /\ [Next]_vars => [Arrival]_vars
  <2> SUFFICES ASSUME Inv, OutputInv, Next, pc = "looping", pc' = "idle" PROVE Arrival
    BY DEF vars
  <2>1. integrator.time >= call.goal
    BY DEF Next, Proceed, Prepare, Create, Advance, AdvanceTo, Loop, Start,
       Open, Attempt, Write, CommitTrial, RollBack, Record, Checkpoint, Restore
  <2>2. /\ integrator.time <= call.goal
        /\ Len(steps) - before.steps = integrator.acceptedSteps - before.step
        /\ IF Len(steps) = before.steps
           THEN integrator.time = before.time
           ELSE /\ steps[before.steps + 1].start = before.time
                /\ steps[Len(steps)].end = integrator.time
    BY DEF Inv, CallInv, AttemptInv, TraceInv, OutputInv, Busy
  <2>3. integrator.time \in Int /\ call.goal \in Int
    <3>1. integrator.time \in Times /\ call.goal \in Times
      BY DEF Inv, CallInv, Typed, CallRecord, ExplicitState
    <3>2. QED
      BY <3>1, StateAssumption DEF Sim!BoundAssumption
  <2>4. integrator.acceptedSteps = step
    BY DEF Inv, CallInv, PairInv, Agreed, PairValid
  <2>5. QED
    BY <2>1, <2>2, <2>3, <2>4
<1>2. QED
  BY <1>1, Invariance, OutputKept, PTL DEF Spec, ArrivesAtOutput

----------------------------------------------------------------------------
(* The records of the trajectory, when the caller keeps one checkpoint and  *)
(* what is handed back is what was taken.                                   *)

OneCheckpoint == checkpoints = {} \/ \E c \in checkpoints : checkpoints = {c}

TrajectoryInv == RecordsInv /\ OneCheckpoint

(* What a restore accepts is a checkpoint the caller keeps, with an explicit*)
(* state at the same step and time.                                         *)
LEMMA RestoredIsKept ==
  ASSUME State!HonestDelivery, Sim!TypeOK, NEW c \in Offers, Restorable(c)
  PROVE  /\ \E k \in checkpoints : k.state = c.state
         /\ c.integrator.acceptedSteps = c.state.step
         /\ c.integrator.time = c.state.time
         /\ c.state.step \in Nat
<1>1. c.state \in Sim!Offers
  BY DEF Offers, Restorable
<1>2. PICK k \in checkpoints : c.state \in Delivered(k.state) \cap Sim!Checkpoint
  BY <1>1 DEF Sim!Offers
<1>3. k.state \in Sim!Checkpoint
  BY <1>2 DEF Sim!TypeOK
<1>4. State!WellFormed(c.state)
  BY DEF Restorable, Sim!CanRestore, State!WellFormed, Sim!Fits, State!Fits,
         Sim!IsFinite, State!IsFinite, Sim!HistoryFits, State!HistoryFits,
         Sim!Blocks, State!Blocks
<1>5. Sim!Checkpoint = State!Checkpoint
  BY DEF Sim!Checkpoint, State!Checkpoint, Sim!Ids, State!Ids, Sim!Blocks, State!Blocks,
         Sim!Vec, State!Vec
<1>6. c.state = k.state
  BY <1>2, <1>3, <1>4, <1>5 DEF State!HonestDelivery
<1>7. c.state.step \in Nat
  BY <1>2, StateAssumption DEF Sim!Checkpoint, Sim!BoundAssumption
<1>8. QED
  BY <1>6, <1>7 DEF Restorable, PairValid

(* A step that records nothing, adopts nothing and takes no checkpoint.     *)
LEMMA SteadyRecords ==
  ASSUME TrajectoryInv, UNCHANGED <<steps, integrator, checkpoints>>,
         pc = "preparing" => pc' = "preparing"
  PROVE  TrajectoryInv'
BY DEF TrajectoryInv, RecordsInv, Numbering, OnTrajectory, OneCheckpoint

LEMMA RecordedStepFollows ==
  ASSUME Inv, TrajectoryInv, Record
  PROVE  TrajectoryInv'
<1> DEFINE n == Len(steps)
           r == NewRecord
<1> USE DEF TrajectoryInv
<1>1. /\ pc = "recording" /\ checkpoints' = checkpoints
      /\ steps' = Append(steps, r) /\ integrator' = call.next
  BY DEF Record, Steady
<1>2. /\ call.next \in ExplicitState /\ integrator \in ExplicitState
      /\ call.next.acceptedSteps = integrator.acceptedSteps + 1
      /\ call.attempt \in Nat
  BY <1>1 DEF Inv, CallInv, Typed, AttemptInv, CallRecord
<1>3. /\ r \in StepRecord /\ r.start = integrator.time /\ r.end = call.next.time
      /\ r.acceptedStep = integrator.acceptedSteps + 1
  BY <1>2 DEF NewRecord, StepRecord, ExplicitState
<1>4. steps \in Seq(StepRecord)
  BY DEF Inv, CallInv, Typed
<1> HIDE DEF r
<1>5. /\ n \in Nat /\ Len(steps') = n + 1 /\ steps'[n + 1] = r
      /\ \A k \in 1 .. n : steps'[k] = steps[k]
  BY <1>1, <1>3, <1>4
<1>6. n = integrator.acceptedSteps /\ (n > 0 => steps[n].end = integrator.time)
  BY <1>1 DEF RecordsInv, Numbering, OnTrajectory
<1>7. /\ \A k \in 1 .. n : /\ steps[k].acceptedStep = k
                           /\ k > 1 => steps[k].start = steps[k - 1].end
      /\ \A c \in checkpoints : /\ c.state.step <= n
                                /\ c.state.step > 0 => steps[c.state.step].end = c.state.time
  BY DEF RecordsInv, Numbering, OnTrajectory
<1> HIDE DEF n
<1>8. ASSUME NEW k \in 1 .. n + 1
      PROVE  /\ steps'[k].acceptedStep = k
             /\ k > 1 => steps'[k].start = steps'[k - 1].end
  <2>1. CASE k = n + 1
    <3>1. k > 1 => k - 1 = n /\ n \in 1 .. n
      BY <1>5, <2>1
    <3>2. QED
      BY <1>3, <1>5, <1>6, <2>1, <3>1
  <2>2. CASE k # n + 1
    <3>1. k \in 1 .. n /\ (k > 1 => k - 1 \in 1 .. n)
      BY <1>5, <2>2
    <3>2. QED
      BY <1>5, <1>7, <3>1
  <2>3. QED
    BY <2>1, <2>2
<1>9. ASSUME NEW c \in checkpoints
      PROVE  /\ c.state.step <= n + 1
             /\ c.state.step > 0 => steps'[c.state.step].end = c.state.time
  <2>1. c.state.step \in Nat
    <3>1. Sim!TypeOK
      BY StateFacts DEF Inv
    <3>2. c.state \in Sim!Checkpoint
      BY <3>1 DEF Sim!TypeOK
    <3>3. QED
      BY <3>2, StateAssumption DEF Sim!Checkpoint, Sim!BoundAssumption
  <2>2. c.state.step > 0 => c.state.step \in 1 .. n
    BY <1>5, <1>7, <2>1
  <2>3. QED
    BY <1>5, <1>7, <2>1, <2>2
<1>10. RecordsInv'
  BY <1>1, <1>2, <1>3, <1>5, <1>6, <1>8, <1>9 DEF RecordsInv, Numbering, OnTrajectory
<1>11. QED
  BY <1>1, <1>10 DEF OneCheckpoint

LEMMA CheckpointOnTrajectory ==
  ASSUME MaxSaved = 1, Inv, TrajectoryInv, Checkpoint
  PROVE  TrajectoryInv'
<1> DEFINE new == [own |-> TRUE, state |-> Sim!CheckpointOf, integrator |-> integrator]
<1>1. /\ checkpoints' = checkpoints \cup {new} /\ pc = "idle" /\ pc' = "idle"
      /\ UNCHANGED <<steps, integrator>>
  BY DEF Checkpoint, telemetry
<1>2. checkpoints = {}
  <2>1. ASSUME NEW c, checkpoints = {c}
        PROVE  FALSE
    <3>1. {k.state : k \in checkpoints} = {c.state}
      BY <2>1
    <3>2. Sim!Cardinality({c.state}) = 1
      BY FS_Singleton DEF Sim!Cardinality, Cardinality
    <3>3. Sim!Cardinality({k.state : k \in checkpoints}) < 1
      BY DEF Checkpoint, Sim!TakeCheckpoint
    <3>4. QED
      BY <3>1, <3>2, <3>3
  <2>2. QED
    BY <2>1 DEF TrajectoryInv, OneCheckpoint
<1>3. new.state.step = step /\ new.state.time = time
  BY DEF Sim!CheckpointOf
<1>4. step = integrator.acceptedSteps /\ time = integrator.time
  BY <1>1 DEF Inv, CallInv, PairInv, Agreed, PairValid
<1>5. Len(steps) = step /\ step \in Nat /\ (step > 0 => steps[step].end = time)
  BY <1>1, <1>4 DEF TrajectoryInv, RecordsInv, Numbering, OnTrajectory, Inv, CallInv, Typed
<1> HIDE DEF new
<1>6. checkpoints' = {new}
  BY <1>1, <1>2
<1>7. \A c \in checkpoints' : /\ c.state.step <= Len(steps)
                              /\ c.state.step > 0 => steps[c.state.step].end = c.state.time
  BY <1>3, <1>5, <1>6
<1>8. Numbering'
  BY <1>1 DEF TrajectoryInv, RecordsInv, Numbering
<1>9. OnTrajectory'
  <2>1. steps' = steps
    BY <1>1
  <2>2. QED
    BY <1>7, <2>1 DEF OnTrajectory
<1>10. QED
  BY <1>6, <1>8, <1>9 DEF TrajectoryInv, RecordsInv, OneCheckpoint

LEMMA RestoreOnTrajectory ==
  ASSUME State!HonestDelivery, Inv, TrajectoryInv, NEW c \in Offers, Restore(c)
  PROVE  TrajectoryInv'
<1>1. pc = "idle" /\ pc' = "idle" /\ checkpoints' = checkpoints
  BY DEF Restore
<1>2. CASE UNCHANGED <<simVars, integrator, steps, rejections>>
  BY <1>1, <1>2, SteadyRecords
<1>3. CASE /\ Restorable(c)
           /\ integrator' = c.integrator
           /\ steps' = Retained(steps, c.integrator.acceptedSteps)
  <2> DEFINE m == c.state.step
  <2>1. Sim!TypeOK
    BY StateFacts DEF Inv
  <2>2. PICK k \in checkpoints : k.state = c.state
    BY <1>3, <2>1, RestoredIsKept
  <2>3. c.integrator.acceptedSteps = m /\ c.integrator.time = c.state.time /\ m \in Nat
    BY <1>3, <2>1, RestoredIsKept
  <2>4. m <= Len(steps) /\ (m > 0 => steps[m].end = c.state.time)
    BY <2>2 DEF TrajectoryInv, RecordsInv, Numbering, OnTrajectory
  <2>5. steps \in Seq(StepRecord) /\ Len(steps) \in Nat
    BY DEF Inv, CallInv, Typed
  <2>6. \A j \in 1 .. Len(steps) : /\ steps[j].acceptedStep = j
                                   /\ j > 1 => steps[j].start = steps[j - 1].end
    BY DEF TrajectoryInv, RecordsInv, Numbering, OnTrajectory
  <2> HIDE DEF m
  <2>7. steps' = SubSeq(steps, 1, m)
    BY <1>3, <2>3, <2>4, <2>5, <2>6, RetainedIsPrefix
  <2>8. Len(steps') = m /\ \A j \in 1 .. m : steps'[j] = steps[j]
    BY <2>3, <2>4, <2>5, <2>7
  <2>9. ASSUME NEW d \in checkpoints
        PROVE  d.state = c.state
    BY <2>2 DEF TrajectoryInv, OneCheckpoint
  <2>10. ASSUME NEW j \in 1 .. m
         PROVE  /\ steps'[j].acceptedStep = j
                /\ j > 1 => steps'[j].start = steps'[j - 1].end
    <3>1. j \in 1 .. Len(steps) /\ (j > 1 => j - 1 \in 1 .. m)
      BY <2>3, <2>4, <2>5
    <3>2. QED
      BY <2>6, <2>8, <3>1
  <2>11. m > 0 => steps'[m].end = c.state.time
    <3>1. m > 0 => m \in 1 .. m
      BY <2>3
    <3>2. QED
      BY <2>4, <2>8, <3>1
  <2>12. RecordsInv'
    <3>1. \A d \in checkpoints' : d.state.step = m /\ d.state.time = c.state.time
      BY <1>1, <2>9 DEF m
    <3>2. QED
      BY <1>3, <2>3, <2>8, <2>10, <2>11, <3>1 DEF RecordsInv, Numbering, OnTrajectory
  <2>13. QED
    BY <1>1, <2>12 DEF TrajectoryInv, OneCheckpoint
<1>4. QED
  BY <1>2, <1>3 DEF Restore

LEMMA NextKeepsTrajectory ==
  ASSUME State!HonestDelivery, MaxSaved = 1, Inv, TrajectoryInv, [Next]_vars
  PROVE  TrajectoryInv'
<1>1. CASE Create
  <2>1. steps' = <<>> /\ integrator'.acceptedSteps = 0 /\ checkpoints' = checkpoints
    BY <1>1 DEF Create, Inv, CallInv, Typed, telemetry, Steady
  <2>2. steps = <<>>
    BY <1>1 DEF Create, Inv, CallInv, Typed
  <2>3. Len(steps) = 0 /\ Len(steps') = 0
    BY <2>1, <2>2
  <2>4. OnTrajectory'
    BY <2>1, <2>2 DEF TrajectoryInv, RecordsInv, OnTrajectory
  <2>5. Numbering'
    <3>1. \A k \in 1 .. Len(steps') : FALSE
      BY <2>3
    <3>2. Len(steps') = integrator'.acceptedSteps /\ ~ (Len(steps') > 0)
      BY <2>1, <2>3
    <3>3. QED
      BY <3>1, <3>2 DEF Numbering
  <2>6. QED
    BY <2>1, <2>4, <2>5 DEF TrajectoryInv, RecordsInv, OneCheckpoint
<1>2. CASE \/ Prepare
           \/ \E goal \in Times : Advance(goal)
           \/ \E goal \in Times \cup {NonFinite} : AdvanceTo(goal)
           \/ Loop \/ Start \/ Open \/ Attempt \/ Write \/ CommitTrial \/ RollBack
           \/ UNCHANGED vars
  <2>1. UNCHANGED <<steps, integrator, checkpoints>> /\ (pc = "preparing" => pc' = "preparing")
    BY <1>2 DEF Prepare, Advance, AdvanceTo, Loop, Start, Open, Attempt, Write, CommitTrial,
       RollBack, vars, telemetry, Steady
  <2>2. QED
    BY <2>1, SteadyRecords
<1>3. QED
  BY <1>1, <1>2, RecordedStepFollows, CheckpointOnTrajectory, RestoreOnTrajectory
     DEF Next, Proceed

(* Whenever no call is in progress the step records number the steps of the *)
(* committed trajectory from one on, each starting where its predecessor    *)
(* ended, the last ending at the committed time, whatever was restored.  A  *)
(* second checkpoint may lie off the trajectory a restore of the first has  *)
(* led to, and the records would not tell.                                  *)
THEOREM RecordsFollowTrajectory ==
  ASSUME State!HonestDelivery, MaxSaved = 1
  PROVE  Spec => []RecordsDescribeTrajectory
<1>1. Init => TrajectoryInv
  BY DEF Init, TrajectoryInv, RecordsInv, Numbering, OnTrajectory, OneCheckpoint
<1>2. Inv /\ TrajectoryInv /\ [Next]_vars => TrajectoryInv'
  BY NextKeepsTrajectory
<1>3. Inv /\ TrajectoryInv => RecordsDescribeTrajectory
  <2> SUFFICES ASSUME Inv, TrajectoryInv, pc = "idle", NEW k \in 1 .. Len(steps)
               PROVE  IF k = Len(steps)
                      THEN steps[k].acceptedStep = step /\ steps[k].end = time
                      ELSE /\ steps[k + 1].acceptedStep = steps[k].acceptedStep + 1
                           /\ steps[k + 1].start = steps[k].end
    BY DEF RecordsDescribeTrajectory
  <2>1. integrator.acceptedSteps = step /\ integrator.time = time
    BY DEF Inv, CallInv, PairInv, Agreed, PairValid
  <2>2. Len(steps) \in Nat
    BY DEF Inv, CallInv, Typed
  <2>3. CASE k = Len(steps)
    BY <2>1, <2>2, <2>3 DEF TrajectoryInv, RecordsInv, Numbering, OnTrajectory
  <2>4. CASE k # Len(steps)
    <3>1. k + 1 \in 1 .. Len(steps) /\ k + 1 > 1 /\ (k + 1) - 1 = k
      BY <2>2, <2>4
    <3>2. QED
      BY <2>4, <3>1 DEF TrajectoryInv, RecordsInv, Numbering, OnTrajectory
  <2>5. QED
    BY <2>3, <2>4
<1>4. QED
  BY <1>1, <1>2, <1>3, Invariance, PTL DEF Spec
=============================================================================
