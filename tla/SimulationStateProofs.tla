------------------------ MODULE SimulationStateProofs ------------------------
(***************************************************************************)
(* Proofs about SimulationState, for every layout, every set of vectors    *)
(* and times, every history limit and every step counter width, and for    *)
(* any alteration a caller makes to the checkpoints it keeps.              *)
(***************************************************************************)
EXTENDS SimulationStateRefinement, SequenceTheorems, WellFoundedInduction, TLAPS

(* A nonempty set of numbers has a least one.                               *)
LEMMA LeastNumber ==
  ASSUME NEW T \in SUBSET Nat, T # {}
  PROVE  \E n \in T : \A m \in T : n <= m
<1>1. IsWellFoundedOn({ss \in Nat \X Nat : ss[1] < ss[2]}, Nat)
  BY NatLessThanWellFounded DEF OpToRel
<1>2. \E n \in T : \A m \in T : ~ (<<m, n>> \in {ss \in Nat \X Nat : ss[1] < ss[2]})
  BY <1>1, WFMin, Zenon
<1>3. \A m, n \in T : ~ (<<m, n>> \in {ss \in Nat \X Nat : ss[1] < ss[2]}) => n <= m
  OBVIOUS
<1>4. QED
  BY <1>2, <1>3, Zenon

(* A set that has zero and the successor of each of its numbers has them    *)
(* all.                                                                     *)
LEMMA SetInduction ==
  ASSUME NEW T, 0 \in T, \A n \in Nat : n \in T => n + 1 \in T
  PROVE  \A n \in Nat : n \in T
<1> SUFFICES ASSUME Nat \ T # {} PROVE FALSE
  OBVIOUS
<1>1. PICK n \in Nat \ T : \A m \in Nat \ T : n <= m
  BY LeastNumber
<1>2. QED
  BY <1>1, n - 1 \in Nat

(* A history cut to the limit after one push: it stays a sequence of        *)
(* vectors, grows by one until it reaches the limit, starts with the pushed *)
(* vector, and keeps the older ones in order behind it.                     *)
LEMMA PushedProperties ==
  ASSUME NEW h \in Seq(Vec), NEW v \in Vec,
         historyLimit \in Nat, Len(h) <= historyLimit
  PROVE  /\ Pushed(h, v) \in Seq(Vec)
         /\ Len(Pushed(h, v)) =
              IF Len(h) < historyLimit THEN Len(h) + 1 ELSE historyLimit
         /\ \A k \in 1 .. Len(Pushed(h, v)) :
              Pushed(h, v)[k] = IF k = 1 THEN v ELSE h[k - 1]
<1> DEFINE longer == <<v>> \o h
           n      == IF Len(h) < historyLimit THEN Len(h) + 1 ELSE historyLimit
<1>1. /\ longer \in Seq(Vec)
      /\ Len(longer) = Len(h) + 1
      /\ \A k \in 1 .. Len(longer) : longer[k] = IF k = 1 THEN v ELSE h[k - 1]
  OBVIOUS
<1>2. n \in Nat /\ n <= Len(longer)
  BY <1>1
<1>3. CASE historyLimit = 0
  BY <1>3 DEF Pushed
<1>4. CASE historyLimit # 0
  <2>1. Pushed(h, v) = SubSeq(longer, 1, n)
    BY <1>4 DEF Pushed
  <2> HIDE DEF longer, n
  <2>2. /\ SubSeq(longer, 1, n) \in Seq(Vec)
        /\ Len(SubSeq(longer, 1, n)) = n
        /\ \A k \in 1 .. n : SubSeq(longer, 1, n)[k] = longer[k]
    BY <1>1, <1>2
  <2> USE DEF n
  <2>3. QED
    BY <1>1, <1>2, <2>1, <2>2
<1>5. QED
  BY <1>3, <1>4

(* The inductive invariant.  ShapesHold speaks of trials through the        *)
(* committed vector of the same id, so it needs TrialIsWhole to know there  *)
(* is one; TrialIsWhole needs ShapesHold to know set_trial_vector reaches   *)
(* every block; the type of a pushed history needs HistoryBounded.          *)
IInv == TypeOK /\ TrialIsWhole /\ ShapesHold /\ HistoryBounded

USE LayoutAssumption, ValueAssumption, BoundAssumption

LEMMA InitEstablishes == Init => IInv
<1> SUFFICES ASSUME Init PROVE IInv
  OBVIOUS
<1>1. committed \in [Ids -> Vec \cup {None}]
  <2>1. \A b \in Blocks : ZeroVec(b) \in Vec
    BY DEF ZeroVec, Vec
  <2>2. QED
    BY <2>1 DEF Init, New, Zeroed, Ids
<1>2. TypeOK
  BY <1>1 DEF Init, TypeOK, Phases, Replies, NoTrial
<1>3. TrialIsWhole
  BY DEF Init, TrialIsWhole
<1>4. ShapesHold
  <2>1. \A b \in Blocks : b \in Ids /\ (Present(b) => Fits(committed[b], BlockLen[b]))
    BY DEF Init, New, Zeroed, ZeroVec, Fits, IsFinite, Present, Ids
  <2>2. \A s \in Slots : ~Present(s)
    BY DEF Init, New, Zeroed, Present, Ids
  <2>3. \A b \in Blocks : history[b] = <<>>
    BY DEF Init
  <2>4. \A i \in Ids : trial[i] = None
    BY DEF Init, NoTrial
  <2>5. QED
    BY <2>1, <2>2, <2>3, <2>4 DEF ShapesHold
<1>5. HistoryBounded
  BY <1>2 DEF Init, HistoryBounded, TypeOK
<1>6. QED
  BY <1>2, <1>3, <1>4, <1>5 DEF IInv

LEMMA InsertFieldPreserves ==
  ASSUME IInv, NEW b \in Blocks, NEW v \in Vec, InsertField(b, v)
  PROVE  IInv'
<1> USE DEF IInv, InsertField, CanInsertField
<1>0. b \in Ids
  BY DEF Ids
<1>1. TypeOK'
  BY <1>0 DEF TypeOK, Replies
<1>2. TrialIsWhole'
  BY <1>0 DEF TypeOK, TrialIsWhole, Phases, NoTrial
<1>3. ShapesHold'
  BY <1>0 DEF TypeOK, TrialIsWhole, ShapesHold, NoTrial, Present, Ids
<1>4. HistoryBounded'
  BY DEF TypeOK, HistoryBounded
<1>5. QED
  BY <1>1, <1>2, <1>3, <1>4

LEMMA InsertConstitutivePreserves ==
  ASSUME IInv, NEW s \in Slots, NEW v \in Vec, InsertConstitutive(s, v)
  PROVE  IInv'
<1> USE DEF IInv, InsertConstitutive, CanInsertConstitutive
<1>0. s \in Ids /\ s \notin Blocks
  BY DEF Ids
<1>1. TypeOK'
  BY <1>0 DEF TypeOK, Replies
<1>2. TrialIsWhole'
  BY <1>0 DEF TypeOK, TrialIsWhole, Phases, NoTrial
<1>3. ShapesHold'
  BY <1>0 DEF TypeOK, TrialIsWhole, ShapesHold, NoTrial, Present, Ids
<1>4. HistoryBounded'
  BY DEF TypeOK, HistoryBounded
<1>5. QED
  BY <1>1, <1>2, <1>3, <1>4

LEMMA BeginTrialPreserves ==
  ASSUME IInv, BeginTrial
  PROVE  IInv'
<1> USE DEF IInv, BeginTrial, CanBeginTrial
<1>1. TypeOK'
  BY DEF TypeOK, Replies, Phases
<1>2. TrialIsWhole'
  BY DEF TypeOK, TrialIsWhole, Complete, Present
<1>3. ShapesHold'
  BY DEF TypeOK, ShapesHold, Present, Ids, Fits, IsFinite
<1>4. HistoryBounded'
  BY DEF TypeOK, HistoryBounded
<1>5. QED
  BY <1>1, <1>2, <1>3, <1>4

LEMMA SetTrialPreserves ==
  ASSUME IInv, NEW i \in Ids, NEW v \in Vec, SetTrial(i, v)
  PROVE  IInv'
<1> USE DEF IInv, SetTrial, CanSetTrial
<1>1. TypeOK'
  BY DEF TypeOK, Replies
<1>2. TrialIsWhole'
  BY DEF TypeOK, TrialIsWhole, Complete, Present
<1>3. ShapesHold'
  BY DEF TypeOK, ShapesHold, Present
<1>4. HistoryBounded'
  BY DEF TypeOK, HistoryBounded
<1>5. QED
  BY <1>1, <1>2, <1>3, <1>4

(* Inside a trial no block refuses its part of a flat vector, so            *)
(* set_trial_vector, which passed its own checks, reaches every block.      *)
LEMMA NoBlockRefuses ==
  ASSUME IInv, NEW f \in FlatVec, CanSetTrialVector(f), NEW b \in Blocks
  PROVE  /\ Part(f, b) \in Vec
         /\ CanSetTrial(b, Part(f, b))
<1>1. b \in Ids /\ Present(b)
  BY DEF IInv, TrialIsWhole, CanSetTrialVector, Complete, Ids
<1>2. committed[b].len = BlockLen[b]
  BY <1>1 DEF IInv, ShapesHold, Fits
<1>3. QED
  BY <1>1, <1>2 DEF CanSetTrialVector, CanSetTrial, Part, Fits, IsFinite, FlatVec, Vec

(* What set_trial_vector leaves in the trial of a block.                    *)
LEMMA WrittenTrial ==
  ASSUME IInv, NEW f \in FlatVec, SetTrialVector(f), NEW b \in Blocks
  PROVE  trial'[b] = Part(f, b)
<1>1. \A r \in Blocks : CanSetTrial(r, Part(f, r))
  BY NoBlockRefuses DEF SetTrialVector
<1>2. QED
  BY <1>1 DEF SetTrialVector, Ids

LEMMA SetTrialVectorPreserves ==
  ASSUME IInv, NEW f \in FlatVec, SetTrialVector(f)
  PROVE  IInv'
<1>1. \A b \in Blocks : Part(f, b) \in Vec /\ CanSetTrial(b, Part(f, b))
  BY NoBlockRefuses DEF SetTrialVector
<1>2. trial' = [i \in Ids |-> IF i \in Blocks THEN Part(f, i) ELSE trial[i]]
  BY <1>1 DEF SetTrialVector
<1>3. /\ UNCHANGED <<phase, historyLimit, time, step, committed, history, saved>>
      /\ reply' \in Replies
  BY DEF SetTrialVector, Replies
<1>4. TypeOK'
  BY <1>1, <1>2, <1>3 DEF IInv, TypeOK
<1>5. TrialIsWhole'
  <2>1. phase = "Trial"
    BY DEF SetTrialVector, CanSetTrialVector
  <2>2. QED
    BY <1>1, <1>2, <1>3, <2>1 DEF IInv, TypeOK, TrialIsWhole, Complete, Present, CanSetTrial
<1>6. ShapesHold'
  BY <1>1, <1>2, <1>3 DEF IInv, TypeOK, ShapesHold, Present, CanSetTrial
<1>7. HistoryBounded'
  BY <1>3 DEF IInv, HistoryBounded
<1>8. QED
  BY <1>4, <1>5, <1>6, <1>7 DEF IInv

(* What a commit leaves in the history of a block: the vector that was      *)
(* committed, then the older levels as far as the limit allows.             *)
LEMMA CommittedHistory ==
  ASSUME IInv, NEW t, Commit(t), NEW b \in Blocks
  PROVE  /\ committed[b] \in Vec
         /\ history[b] \in Seq(Vec)
         /\ history'[b] \in Seq(Vec)
         /\ Len(history'[b]) =
              IF Len(history[b]) < historyLimit THEN Len(history[b]) + 1 ELSE historyLimit
         /\ \A k \in 1 .. Len(history'[b]) :
              history'[b][k] = IF k = 1 THEN committed[b] ELSE history[b][k - 1]
<1>1. b \in Ids /\ Present(b) /\ committed[b] \in Vec
  BY DEF Commit, CanCommit, IInv, TypeOK, TrialIsWhole, Complete, Present, Ids
<1>2. history'[b] = Pushed(history[b], committed[b])
  BY <1>1 DEF Commit, HistoryAfterCommit
<1>3. /\ history[b] \in Seq(Vec)
      /\ Len(history[b]) <= historyLimit
      /\ historyLimit \in Nat
  BY DEF IInv, TypeOK, HistoryBounded
<1>4. /\ Pushed(history[b], committed[b]) \in Seq(Vec)
      /\ Len(Pushed(history[b], committed[b])) =
           IF Len(history[b]) < historyLimit THEN Len(history[b]) + 1 ELSE historyLimit
      /\ \A k \in 1 .. Len(Pushed(history[b], committed[b])) :
           Pushed(history[b], committed[b])[k] =
             IF k = 1 THEN committed[b] ELSE history[b][k - 1]
  BY <1>1, <1>3, PushedProperties
<1>5. QED
  BY <1>1, <1>2, <1>3, <1>4

(* What a commit leaves in a block: its trial vector.                       *)
LEMMA CommittedTrial ==
  ASSUME IInv, NEW t, Commit(t), NEW b \in Blocks
  PROVE  committed'[b] = trial[b] /\ trial[b] \in Vec
<1>1. b \in Ids /\ Present(b)
  BY DEF Commit, CanCommit, IInv, TrialIsWhole, Complete, Ids
<1>2. QED
  BY <1>1 DEF Commit, CanCommit, IInv, TypeOK

LEMMA CommitPreserves ==
  ASSUME IInv, NEW t \in Times, Commit(t)
  PROVE  IInv'
<1> USE DEF IInv
<1>1. \A b \in Blocks : b \in Ids /\ Present(b) /\ committed[b] \in Vec
  BY DEF Commit, CanCommit, TypeOK, TrialIsWhole, Complete, Present, Ids
<1>2. \A b \in Blocks :
        /\ history'[b] \in Seq(Vec)
        /\ Len(history'[b]) <= historyLimit
        /\ \A k \in 1 .. Len(history'[b]) :
             history'[b][k] = committed[b] \/ \E j \in 1 .. Len(history[b]) :
                                                history'[b][k] = history[b][j]
  <2> SUFFICES ASSUME NEW b \in Blocks
               PROVE  /\ history'[b] \in Seq(Vec)
                      /\ Len(history'[b]) <= historyLimit
                      /\ \A k \in 1 .. Len(history'[b]) :
                           history'[b][k] = committed[b] \/ \E j \in 1 .. Len(history[b]) :
                                                history'[b][k] = history[b][j]
    OBVIOUS
  <2> DEFINE h == history[b]
             p == history'[b]
  <2>1. /\ h \in Seq(Vec) /\ p \in Seq(Vec)
        /\ Len(p) = IF Len(h) < historyLimit THEN Len(h) + 1 ELSE historyLimit
        /\ \A k \in 1 .. Len(p) : p[k] = IF k = 1 THEN committed[b] ELSE h[k - 1]
    BY CommittedHistory
  <2>2. Len(h) \in Nat /\ Len(p) \in Nat /\ Len(p) <= historyLimit /\ Len(p) <= Len(h) + 1
    BY <2>1 DEF TypeOK, HistoryBounded
  <2>3. ASSUME NEW k \in 1 .. Len(p)
        PROVE  p[k] = committed[b] \/ \E j \in 1 .. Len(h) : p[k] = h[j]
    <3>1. CASE k = 1
      BY <2>1, <3>1
    <3>2. CASE k # 1
      <4>1. k - 1 \in 1 .. Len(h)
        BY <2>2, <3>2
      <4>2. p[k] = h[k - 1]
        BY <2>1, <3>2
      <4>3. QED
        BY <4>1, <4>2
    <3>3. QED
      BY <3>1, <3>2
  <2>4. QED
    BY <2>1, <2>2, <2>3
<1>3. \A i \in Ids : Present(i) => trial[i] \in Vec
  BY DEF Commit, CanCommit, TypeOK
<1>4. TypeOK'
  <2>1. committed' \in [Ids -> Vec \cup {None}]
    BY <1>3 DEF Commit, TypeOK
  <2>2. history' \in [Blocks -> Seq(Vec)]
    BY <1>2 DEF Commit
  <2>3. step' \in 0 .. MaxStep
    BY DEF Commit, CanCommit, TypeOK
  <2>4. QED
    BY <2>1, <2>2, <2>3 DEF Commit, TypeOK, Phases, Replies, NoTrial
<1>5. TrialIsWhole'
  BY DEF Commit, TrialIsWhole, NoTrial
<1>6. ShapesHold'
  <2>1. \A b \in Blocks : Present(b)' => Fits(committed'[b], BlockLen[b])
    <3> SUFFICES ASSUME NEW b \in Blocks PROVE Fits(committed'[b], BlockLen[b])
      OBVIOUS
    <3>1. committed'[b] = trial[b] /\ trial[b] # None
      BY <1>1 DEF Commit, CanCommit
    <3>2. Fits(trial[b], committed[b].len) /\ Fits(committed[b], BlockLen[b])
      BY <1>1, <3>1 DEF ShapesHold
    <3>3. QED
      BY <3>1, <3>2 DEF Fits
  <2>2. \A b \in Blocks : \A k \in 1 .. Len(history'[b]) :
          Fits(history'[b][k], BlockLen[b])
    <3> SUFFICES ASSUME NEW b \in Blocks, NEW k \in 1 .. Len(history'[b])
                 PROVE  Fits(history'[b][k], BlockLen[b])
      OBVIOUS
    <3>1. CASE history'[b][k] = committed[b]
      BY <1>1, <3>1 DEF ShapesHold
    <3>2. ASSUME NEW j \in 1 .. Len(history[b]), history'[b][k] = history[b][j]
          PROVE  Fits(history'[b][k], BlockLen[b])
      <4>1. Fits(history[b][j], BlockLen[b])
        BY DEF ShapesHold
      <4>2. QED
        BY <3>2, <4>1
    <3>3. QED
      BY <1>2, <3>1, <3>2
  <2>3. \A s \in Slots : Present(s)' => IsFinite(committed'[s])
    BY DEF Commit, CanCommit, ShapesHold, Present, Fits, IsFinite, TypeOK, Ids
  <2>4. \A i \in Ids : trial'[i] = None
    BY DEF Commit, NoTrial
  <2>5. QED
    BY <2>1, <2>2, <2>3, <2>4 DEF ShapesHold
<1>7. HistoryBounded'
  BY <1>2 DEF HistoryBounded, Commit
<1>8. QED
  BY <1>4, <1>5, <1>6, <1>7

LEMMA RollbackPreserves ==
  ASSUME IInv, Rollback
  PROVE  IInv'
<1> USE DEF IInv, Rollback, CanRollback
<1>1. TypeOK'
  BY DEF TypeOK, Replies, Phases, NoTrial
<1>2. TrialIsWhole'
  BY DEF TrialIsWhole, NoTrial
<1>3. ShapesHold'
  BY DEF ShapesHold, Present, NoTrial
<1>4. HistoryBounded'
  BY DEF HistoryBounded
<1>5. QED
  BY <1>1, <1>2, <1>3, <1>4

LEMMA TakeCheckpointPreserves ==
  ASSUME IInv, TakeCheckpoint
  PROVE  IInv'
<1> USE DEF IInv, TakeCheckpoint, store
<1>0. CheckpointOf \in Checkpoint
  BY DEF TypeOK, CheckpointOf, Checkpoint
<1>1. TypeOK'
  <2>1. saved' \subseteq Checkpoint
    BY <1>0 DEF TypeOK
  <2>2. QED
    BY <2>1 DEF TypeOK, Replies
<1>2. TrialIsWhole' /\ ShapesHold' /\ HistoryBounded'
  BY DEF TrialIsWhole, ShapesHold, HistoryBounded, Complete, Present, NoTrial
<1>3. QED
  BY <1>1, <1>2

LEMMA RestorePreserves ==
  ASSUME IInv, NEW c \in Checkpoint, Restore(c)
  PROVE  IInv'
<1> USE DEF IInv, Restore, CanRestore, SchemaMatches, HistoryFits
<1>1. TypeOK'
  BY DEF TypeOK, Replies, Phases, NoTrial, Checkpoint
<1>2. TrialIsWhole'
  BY DEF TrialIsWhole, NoTrial
<1>3. ShapesHold'
  <2>1. \A b \in Blocks : Fits(committed'[b], BlockLen[b])
    OBVIOUS
  <2>2. \A b \in Blocks : \A k \in 1 .. Len(history'[b]) :
          Fits(history'[b][k], BlockLen[b])
    OBVIOUS
  <2>3. \A s \in Slots : Present(s)' => IsFinite(committed'[s])
    BY DEF Present, Fits
  <2>4. \A i \in Ids : trial'[i] = None
    BY DEF NoTrial
  <2>5. QED
    BY <2>1, <2>2, <2>3, <2>4 DEF ShapesHold
<1>4. HistoryBounded'
  BY DEF HistoryBounded
<1>5. QED
  BY <1>1, <1>2, <1>3, <1>4

LEMMA StutterPreserves ==
  ASSUME IInv, UNCHANGED <<store, saved>>, reply' \in Replies
  PROVE  IInv'
BY DEF IInv, store, TypeOK, TrialIsWhole, ShapesHold, HistoryBounded, Complete, Present, NoTrial

LEMMA NextPreserves == IInv /\ [Next]_vars => IInv'
<1> SUFFICES ASSUME IInv, [Next]_vars PROVE IInv'
  OBVIOUS
<1>1. ASSUME NEW b \in Blocks, NEW v \in Vec, InsertField(b, v) PROVE IInv'
  BY <1>1, InsertFieldPreserves
<1>2. ASSUME NEW s \in Slots, NEW v \in Vec, InsertConstitutive(s, v) PROVE IInv'
  BY <1>2, InsertConstitutivePreserves
<1>3. CASE BeginTrial
  BY <1>3, BeginTrialPreserves
<1>4. ASSUME NEW i \in Ids, NEW v \in Vec, SetTrial(i, v) PROVE IInv'
  BY <1>4, SetTrialPreserves
<1>5. ASSUME NEW f \in FlatVec, SetTrialVector(f) PROVE IInv'
  BY <1>5, SetTrialVectorPreserves
<1>6. ASSUME NEW t \in Times, Commit(t) PROVE IInv'
  BY <1>6, CommitPreserves
<1>7. CASE Rollback
  BY <1>7, RollbackPreserves
<1>8. CASE TakeCheckpoint
  BY <1>8, TakeCheckpointPreserves
<1>9. ASSUME NEW c \in Offers, Restore(c) PROVE IInv'
  BY <1>9, RestorePreserves DEF Offers
<1>10. CASE Refuse
  BY <1>10, StutterPreserves DEF Refuse, Replies
<1>11. CASE UNCHANGED vars
  BY <1>11, StutterPreserves DEF vars, IInv, TypeOK
<1>12. QED
  BY <1>1, <1>2, <1>3, <1>4, <1>5, <1>6, <1>7, <1>8, <1>9, <1>10, <1>11 DEF Next

(* The inductive invariant holds of every behaviour, so of every order in   *)
(* which a caller can make its calls.                                       *)
THEOREM Invariance == Spec => []IInv
BY InitEstablishes, NextPreserves, PTL DEF Spec

(* No call leaves the types, the counter within its width among them,       *)
(* whatever a caller hands back to restore.                                 *)
THEOREM TypesAlwaysHold == Spec => []TypeOK
BY Invariance, PTL DEF IInv

(* commit and rollback close, and begin_trial opens, the trials of all      *)
(* fields and slots together, on any layout and any constitutive schema.    *)
THEOREM TrialsAreWhole == Spec => []TrialIsWhole
BY Invariance, PTL DEF IInv

(* No sequence of calls and no checkpoint brings a vector of a wrong width  *)
(* or a non-finite vector into the state, on any layout.                    *)
THEOREM ShapesAlwaysHold == Spec => []ShapesHold
BY Invariance, PTL DEF IInv

(* commit and restore keep every history within the limit in force.         *)
THEOREM HistoryStaysBounded == Spec => []HistoryBounded
BY Invariance, PTL DEF IInv

(* An open trial can be committed at the current time unless the counter is *)
(* exhausted.                                                               *)
THEOREM TrialsCanCommit == Spec => []TrialCommittable
<1>1. IInv => TrialCommittable
  BY DEF IInv, TypeOK, TrialIsWhole, TrialCommittable, CanCommit
<1>2. QED
  BY <1>1, Invariance, PTL

(* A refused call, set_trial_vector included, has changed nothing.          *)
THEOREM RefusalsChangeNothing == Spec => ErrChangesNothing
<1>1. ASSUME IInv, [Next]_vars
      PROVE  [reply' = "Err" => UNCHANGED <<store, saved>>]_vars
  <2> SUFFICES ASSUME Next, reply' = "Err" PROVE UNCHANGED <<store, saved>>
    BY <1>1
  <2>1. ~ \E f \in FlatVec : SetTrialVector(f)
    <3> SUFFICES ASSUME NEW f \in FlatVec, SetTrialVector(f) PROVE FALSE
      OBVIOUS
    <3>1. \A b \in Blocks : CanSetTrial(b, Part(f, b))
      BY <1>1, NoBlockRefuses DEF SetTrialVector
    <3>2. reply' = "Ok"
      BY <3>1 DEF SetTrialVector
    <3>3. QED
      BY <3>2
  <2>2. Refuse
    BY <2>1 DEF Next, InsertField, InsertConstitutive, BeginTrial, SetTrial, Commit,
                Rollback, TakeCheckpoint, Restore
  <2>3. QED
    BY <2>2 DEF Refuse
<1>2. QED
  BY <1>1, Invariance, PTL DEF Spec, ErrChangesNothing

(* Commits, rollbacks and restored checkpoints leave the constitutive       *)
(* schema, the names and widths of the slots, as the caller inserted it.    *)
THEOREM SchemaIsFrozen == Spec => SchemaFrozen
<1>1. ASSUME IInv, Next, NEW s \in Slots, Present(s)
      PROVE  /\ committed'[s] # None
             /\ committed'[s].len = committed[s].len
  <2> DEFINE Kept == committed'[s] # None /\ committed'[s].len = committed[s].len
  <2>0. s \in Ids
    BY DEF Ids
  <2>1. ASSUME NEW b \in Blocks, NEW v \in Vec, InsertField(b, v) PROVE Kept
    BY <1>1, <2>0, <2>1 DEF InsertField, IInv, TypeOK, Present
  <2>2. ASSUME NEW r \in Slots, NEW v \in Vec, InsertConstitutive(r, v) PROVE Kept
    BY <1>1, <2>0, <2>2 DEF InsertConstitutive, CanInsertConstitutive, IInv, TypeOK, Present
  <2>3. ASSUME NEW t \in Times, Commit(t) PROVE Kept
    BY <1>1, <2>0, <2>3
       DEF Commit, CanCommit, IInv, TypeOK, ShapesHold, Present, Fits
  <2>4. ASSUME NEW c \in Offers, Restore(c) PROVE Kept
    BY <1>1, <2>0, <2>4 DEF Restore, CanRestore, SchemaMatches, Present, Fits
  <2>5. CASE UNCHANGED committed
    BY <1>1, <2>5 DEF Present
  <2>6. QED
    BY <1>1, <2>1, <2>2, <2>3, <2>4, <2>5
       DEF Next, BeginTrial, SetTrial, SetTrialVector, Rollback, TakeCheckpoint, Refuse, store
<1>2. ASSUME IInv, [Next]_vars
      PROVE  [SlotsKept]_vars
  BY <1>1, <1>2 DEF SlotsKept
<1>3. QED
  BY <1>2, Invariance, PTL DEF Spec, SchemaFrozen

----------------------------------------------------------------------------
(* The refinement: SimulationState implements CommittedTrajectory whenever  *)
(* callers hand back the checkpoints they were given, on every layout.      *)

(* A family of histories of one depth.                                      *)
Aligned(h) == \A a, b \in Blocks : Len(h[a]) = Len(h[b])

(* The inductive invariant of the refinement.  Until every field is there   *)
(* no history has begun (so inserting a field forgets nothing), and the     *)
(* checkpoints kept are aligned as the state was.                           *)
RInv ==
  /\ IInv
  /\ Aligned(history)
  /\ Complete \/ \A b \in Blocks : history[b] = <<>>
  /\ \A c \in saved : Aligned(c.history) /\ \A b \in Blocks : c.committed[b] # None

LEMMA OneIsABlock == 1 \in Blocks
BY DEF Blocks

(* What restore accepts, when delivery is honest, is a kept checkpoint.     *)
LEMMA RestoredIsSaved ==
  ASSUME HonestDelivery, TypeOK, NEW c \in Offers, CanRestore(c)
  PROVE  c \in saved
<1>1. PICK k \in saved : c \in Delivered(k) \cap Checkpoint
  BY DEF Offers
<1>2. WellFormed(c)
  BY DEF CanRestore, WellFormed
<1>3. k \in Checkpoint
  BY DEF TypeOK
<1>4. QED
  BY <1>1, <1>2, <1>3 DEF HonestDelivery

(* The depth and the levels of the histories after a commit.                *)
LEMMA CommitLevels ==
  ASSUME RInv, NEW t \in Times, Commit(t), NEW b \in Blocks
  PROVE  /\ history[b] \in Seq(Vec)
         /\ history'[b] \in Seq(Vec)
         /\ Len(history[b]) = Len(history[1])
         /\ Len(history'[b]) =
              IF Len(history[1]) < historyLimit THEN Len(history[1]) + 1 ELSE historyLimit
         /\ \A k \in 1 .. Len(history'[b]) :
              history'[b][k] = IF k = 1 THEN committed[b] ELSE history[b][k - 1]
<1>1. Len(history[b]) = Len(history[1])
  BY OneIsABlock DEF RInv, Aligned
<1>2. QED
  BY <1>1, CommittedHistory DEF RInv

LEMMA RInvInit == Init => RInv
<1> SUFFICES ASSUME Init PROVE RInv
  OBVIOUS
<1>1. IInv
  BY InitEstablishes
<1>2. \A b \in Blocks : history[b] = <<>>
  BY DEF Init
<1>3. saved = {}
  BY DEF Init
<1>4. QED
  BY <1>1, <1>2, <1>3 DEF RInv, Aligned

LEMMA RInvNext ==
  ASSUME HonestDelivery, RInv, [Next]_vars
  PROVE  RInv'
<1>1. IInv'
  BY NextPreserves DEF RInv
<1> DEFINE Rest == /\ Aligned(history')
                   /\ Complete' \/ \A b \in Blocks : history'[b] = <<>>
                   /\ \A c \in saved' : /\ Aligned(c.history)
                                        /\ \A b \in Blocks : c.committed[b] # None
<1>2. ASSUME NEW b \in Blocks, NEW v \in Vec, InsertField(b, v) PROVE Rest
  <2>1. \A a \in Blocks : history[a] = <<>>
    BY <1>2 DEF InsertField, CanInsertField, RInv, Complete
  <2>2. \A a \in Blocks : history'[a] = <<>>
    BY <1>2, <2>1 DEF InsertField, RInv, IInv, TypeOK
  <2>3. QED
    BY <1>2, <2>2 DEF InsertField, RInv, Aligned
<1>3. ASSUME NEW s \in Slots, NEW v \in Vec, InsertConstitutive(s, v) PROVE Rest
  <2>1. \A b \in Blocks : committed'[b] = committed[b]
    BY <1>3 DEF InsertConstitutive, RInv, IInv, TypeOK, Ids
  <2>2. QED
    BY <1>3, <2>1 DEF InsertConstitutive, RInv, Aligned, Complete, Present
<1>4. ASSUME NEW t \in Times, Commit(t) PROVE Rest
  <2>1. Aligned(history')
    BY <1>4, CommitLevels DEF Aligned
  <2>2. \A b \in Blocks : committed'[b] # None
    BY <1>4 DEF Commit, CanCommit, RInv, IInv, TrialIsWhole, Complete, Present, Ids
  <2>3. saved' = saved
    BY <1>4 DEF Commit
  <2>4. QED
    BY <2>1, <2>2, <2>3 DEF RInv, Complete, Present
<1>5. ASSUME NEW c \in Offers, Restore(c) PROVE Rest
  <2>1. c \in saved
    BY <1>5, RestoredIsSaved DEF Restore, RInv, IInv
  <2>2. QED
    BY <1>5, <2>1 DEF Restore, RInv, Complete, Present
<1>6. ASSUME TakeCheckpoint PROVE Rest
  <2>1. Aligned(CheckpointOf.history) /\ \A b \in Blocks : CheckpointOf.committed[b] # None
    BY <1>6 DEF TakeCheckpoint, CanCheckpoint, CheckpointOf, RInv, Complete, Present
  <2>2. QED
    BY <1>6, <2>1 DEF TakeCheckpoint, store, RInv, Aligned, Complete, Present
<1>7. ASSUME UNCHANGED <<committed, history, saved>> PROVE Rest
  BY <1>7 DEF RInv, Aligned, Complete, Present
<1>8. Rest
  <2> HIDE DEF Rest
  <2>1. CASE BeginTrial \/ Rollback \/ Refuse \/ UNCHANGED vars
    BY <1>7, <2>1 DEF vars, store, BeginTrial, Rollback, Refuse
  <2>2. CASE \/ \E i \in Ids, v \in Vec : SetTrial(i, v)
             \/ \E f \in FlatVec : SetTrialVector(f)
    BY <1>7, <2>2 DEF SetTrial, SetTrialVector
  <2>3. QED
    BY <1>2, <1>3, <1>4, <1>5, <1>6, <2>1, <2>2 DEF Next
<1>9. QED
  BY <1>1, <1>8 DEF RInv

----------------------------------------------------------------------------
(* Steps of the state, as steps of the trajectory.                          *)

LEMMA InitRefines == Init => Trajectory!Init
<1> SUFFICES ASSUME Init PROVE Trajectory!Init
  OBVIOUS
<1>1. Levels(history) = <<>>
  BY OneIsABlock DEF Init, Levels
<1>2. \A b \in Blocks : ZeroVec(b) # None
  <2>1. \A b \in Blocks : ZeroVec(b) \in Vec
    BY DEF ZeroVec, Vec
  <2>2. QED
    BY <2>1
<1>3. QED
  BY <1>1, <1>2
     DEF Init, New, Zeroed, Ids, Trajectory!Init, Trajectory!Absent, Trajectory!Whole

LEMMA InsertRefines ==
  ASSUME RInv, NEW i \in Ids, NEW v \in Vec,
         ~Present(i), committed' = [committed EXCEPT ![i] = v],
         UNCHANGED <<history, historyLimit, time, step, saved>>
  PROVE  Trajectory!Populate(i)
<1> DEFINE snap == [values |-> committed, time |-> time, step |-> step]
<1>1. /\ committed'[i] = v
      /\ [snap EXCEPT !.values[i] = v] = [values |-> committed', time |-> time', step |-> step']
  <2>1. committed'[i] = v
    BY DEF RInv, IInv, TypeOK
  <2>2. [snap EXCEPT !.values[i] = v] = [snap EXCEPT !.values = [snap.values EXCEPT ![i] = v]]
    OBVIOUS
  <2>3. snap.values = committed
    OBVIOUS
  <2>4. [snap EXCEPT !.values = committed'] =
          [values |-> committed', time |-> time', step |-> step']
    OBVIOUS
  <2>5. QED
    BY <2>1, <2>2, <2>3, <2>4
<1>2. Levels(history)' = Levels(history)
  BY DEF Levels
<1>3. {Moment(c) : c \in saved}' = {Moment(c) : c \in saved}
  BY DEF Moment, Levels
<1>4. QED
  BY <1>1, <1>2, <1>3 DEF Present, Trajectory!Populate, Trajectory!Absent

LEMMA PublishRefines ==
  ASSUME RInv, NEW t \in Times, Commit(t)
  PROVE  Trajectory!Publish
<1>1. Complete /\ phase = "Trial"
  BY DEF Commit, CanCommit, RInv, IInv, TrialIsWhole
<1>2. Trajectory!Whole
  BY <1>1 DEF Complete, Present, Trajectory!Whole, Trajectory!Absent
<1>3. \A i \in Ids : committed'[i] \in (IF committed[i] = None THEN {None} ELSE Vec)
  BY DEF Commit, CanCommit, RInv, IInv, TypeOK, Present
<1> DEFINE past   == Levels(history)
           old    == [b \in Blocks |-> committed[b]]
           longer == <<old>> \o past
           n      == IF Len(past) < historyLimit THEN Len(longer) ELSE historyLimit
           Snap   == [Blocks -> Vec]
<1>4. /\ past \in Seq(Snap)
      /\ Len(past) = Len(history[1])
      /\ \A k \in 1 .. Len(past) : past[k] = [b \in Blocks |-> history[b][k]]
  <2>1. Len(history[1]) \in Nat
    BY OneIsABlock DEF RInv, IInv, TypeOK
  <2>2. \A k \in 1 .. Len(history[1]) : [b \in Blocks |-> history[b][k]] \in Snap
    <3> SUFFICES ASSUME NEW k \in 1 .. Len(history[1]), NEW b \in Blocks
                 PROVE  history[b][k] \in Vec
      OBVIOUS
    <3>1. history[b] \in Seq(Vec) /\ Len(history[b]) = Len(history[1])
      BY CommitLevels
    <3>2. QED
      BY <3>1
  <2>3. QED
    BY <2>1, <2>2 DEF Levels
<1>5. old \in Snap
  BY <1>1 DEF RInv, IInv, TypeOK, Complete, Present, Ids
<1>6. /\ longer \in Seq(Snap)
      /\ Len(longer) = Len(past) + 1
      /\ \A k \in 1 .. Len(longer) : longer[k] = IF k = 1 THEN old ELSE past[k - 1]
  <2> HIDE DEF past, old, Snap
  <2>1. QED
    BY <1>4, <1>5
<1>7. historyLimit \in Nat /\ Len(history[1]) <= historyLimit /\ Len(history[1]) \in Nat
  BY OneIsABlock DEF RInv, IInv, TypeOK, HistoryBounded
<1>8. Levels(history)' = SubSeq(longer, 1, n)
  <2>1. n \in 0 .. Len(longer)
    BY <1>4, <1>6, <1>7
  <2>2. Len(history'[1]) = n
    BY <1>4, <1>6, <1>7, OneIsABlock, CommitLevels
  <2>3. /\ SubSeq(longer, 1, n) \in Seq(Snap)
        /\ Len(SubSeq(longer, 1, n)) = n
        /\ \A k \in 1 .. n : SubSeq(longer, 1, n)[k] = longer[k]
    <3> HIDE DEF longer, n, Snap
    <3>1. QED
      BY <1>6, <2>1
  <2>4. ASSUME NEW k \in 1 .. n
        PROVE  [b \in Blocks |-> history'[b][k]] = longer[k]
    <3>1. CASE k = 1
      <4>1. \A b \in Blocks : history'[b][k] = committed[b]
        BY <2>1, <2>2, <3>1, OneIsABlock, CommitLevels
      <4>2. longer[k] = old
        BY <1>6, <2>1, <3>1
      <4>3. QED
        BY <4>1, <4>2
    <3>2. CASE k # 1
      <4>1. \A b \in Blocks : history'[b][k] = history[b][k - 1]
        BY <2>1, <2>2, <3>2, OneIsABlock, CommitLevels
      <4>2. longer[k] = past[k - 1] /\ k - 1 \in 1 .. Len(past)
        BY <1>4, <1>6, <1>7, <2>1, <3>2
      <4>3. past[k - 1] = [b \in Blocks |-> history[b][k - 1]]
        BY <1>4, <4>2
      <4>4. QED
        BY <4>1, <4>2, <4>3
    <3>3. QED
      BY <3>1, <3>2
  <2>5. Levels(history)' = [k \in 1 .. n |-> [b \in Blocks |-> history'[b][k]]]
    BY <2>2 DEF Levels
  <2>6. QED
    <3> HIDE DEF longer, n, Snap
    <3>1. QED
      BY <2>1, <2>3, <2>4, <2>5, SeqDef
<1>9. historyLimit = 0 => Levels(history)' = past
  <2> SUFFICES ASSUME historyLimit = 0 PROVE Levels(history)' = past
    OBVIOUS
  <2>1. history' = history
    BY DEF Commit, HistoryAfterCommit, Pushed, RInv, IInv, TypeOK
  <2>2. QED
    BY <2>1 DEF Levels
<1>10. QED
  BY <1>2, <1>3, <1>8, <1>9
     DEF Trajectory!Publish, Trajectory!FieldsOf, Trajectory!Absent, Trajectory!Ids, Ids,
         Commit, CanCommit

LEMMA KeepRefines ==
  ASSUME RInv, TakeCheckpoint
  PROVE  Trajectory!Keep
<1>1. Trajectory!Whole
  BY DEF TakeCheckpoint, CanCheckpoint, Complete, Present, Trajectory!Whole, Trajectory!Absent
<1>2. Moment(CheckpointOf) =
        <<[values |-> committed, time |-> time, step |-> step], Levels(history), historyLimit>>
  BY DEF Moment, CheckpointOf
<1>3. {Moment(c) : c \in saved'} = {Moment(c) : c \in saved} \cup {Moment(CheckpointOf)}
  BY DEF TakeCheckpoint
<1>4. UNCHANGED store
  BY DEF TakeCheckpoint
<1>5. QED
  BY <1>1, <1>2, <1>3, <1>4 DEF Trajectory!Keep, store, Levels

LEMMA ResumeRefines ==
  ASSUME RInv, NEW c \in saved, Restore(c)
  PROVE  Trajectory!Resume
<1>1. Moment(c) = << [values |-> committed', time |-> time', step |-> step'],
                     Levels(history)', historyLimit' >>
  BY DEF Restore, Moment, Levels
<1>2. Moment(c) \in {Moment(d) : d \in saved}
  OBVIOUS
<1>3. saved' = saved
  BY DEF Restore
<1>4. \A s \in Slots : committed[s] = None <=> committed'[s] = None
  BY DEF Restore, CanRestore, SchemaMatches, Present
<1>5. QED
  BY <1>1, <1>2, <1>3, <1>4 DEF Trajectory!Resume, Trajectory!Absent

LEMMA StutterRefines ==
  ASSUME UNCHANGED <<committed, history, historyLimit, time, step, saved>>
  PROVE  UNCHANGED Trajectory!vars
BY DEF Trajectory!vars, Levels, Moment

LEMMA NextRefines ==
  ASSUME HonestDelivery, RInv, [Next]_vars
  PROVE  [Trajectory!Next]_(Trajectory!vars)
<1> DEFINE Goal == Trajectory!Next \/ UNCHANGED Trajectory!vars
<1>1. ASSUME NEW b \in Blocks, NEW v \in Vec, InsertField(b, v) PROVE Goal
  <2>1. \A a \in Blocks : history[a] = <<>>
    BY <1>1 DEF InsertField, CanInsertField, RInv, Complete
  <2>2. history' = history
    BY <1>1, <2>1 DEF InsertField, RInv, IInv, TypeOK
  <2>3. b \in Ids
    BY DEF Ids
  <2>4. Trajectory!Populate(b)
    BY <1>1, <2>2, <2>3, InsertRefines DEF InsertField, CanInsertField
  <2>5. QED
    BY <2>3, <2>4 DEF Trajectory!Next, Trajectory!Ids, Ids
<1>2. ASSUME NEW s \in Slots, NEW v \in Vec, InsertConstitutive(s, v) PROVE Goal
  <2>1. s \in Ids
    BY DEF Ids
  <2>2. Trajectory!Populate(s)
    BY <1>2, <2>1, InsertRefines DEF InsertConstitutive, CanInsertConstitutive
  <2>3. QED
    BY <2>1, <2>2 DEF Trajectory!Next, Trajectory!Ids, Ids
<1>3. ASSUME NEW t \in Times, Commit(t) PROVE Goal
  BY <1>3, PublishRefines DEF Trajectory!Next
<1>4. CASE TakeCheckpoint
  BY <1>4, KeepRefines DEF Trajectory!Next
<1>5. ASSUME NEW c \in Offers, Restore(c) PROVE Goal
  <2>1. c \in saved
    BY <1>5, RestoredIsSaved DEF Restore, RInv, IInv
  <2>2. QED
    BY <1>5, <2>1, ResumeRefines DEF Trajectory!Next
<1>6. CASE UNCHANGED <<committed, history, historyLimit, time, step, saved>>
  BY <1>6, StutterRefines
<1>7. Goal
  BY <1>1, <1>2, <1>3, <1>4, <1>5, <1>6
     DEF Next, vars, store, BeginTrial, SetTrial, SetTrialVector, Rollback, Refuse
<1>8. QED
  BY <1>7

(* While checkpoints come back as they were taken, the histories of all     *)
(* fields keep one depth, whatever the limits and layouts.                  *)
THEOREM HistoriesStayAligned ==
  ASSUME HonestDelivery
  PROVE  Spec => []HistoryAligned
<1>1. RInv => HistoryAligned
  BY DEF RInv, Aligned, HistoryAligned
<1>2. RInv /\ [Next]_vars => RInv'
  BY RInvNext
<1>3. QED
  BY <1>1, <1>2, RInvInit, PTL DEF Spec

(* SimulationState implements CommittedTrajectory: commit and restore are   *)
(* atomic on whole snapshots with their past, and everything else a caller  *)
(* does is invisible.                                                       *)
THEOREM StateImplementsTrajectory ==
  ASSUME HonestDelivery
  PROVE  Spec => ImplementsTrajectory
<1>1. RInv /\ [Next]_vars => RInv'
  BY RInvNext
<1>2. RInv /\ [Next]_vars => [Trajectory!Next]_(Trajectory!vars)
  BY NextRefines
<1>3. QED
  BY <1>1, <1>2, RInvInit, InitRefines, PTL DEF Spec, ImplementsTrajectory, Trajectory!Spec
=============================================================================
