--------------------------- MODULE SimulationState ---------------------------
(***************************************************************************)
(* The transactional state every Krasis execution owns: the committed      *)
(* fields of a layout, the constitutive slots, the bounded committed       *)
(* history, and at most one open trial that is committed or rolled back.   *)
(*                                                                         *)
(* A SimulationState is owned by one caller (every operation takes         *)
(* &mut self), so an operation is one step.  What can go wrong is the      *)
(* order in which a caller makes its calls, the arguments it passes, and   *)
(* the checkpoints it hands back: a Checkpoint is plain serializable data  *)
(* that the caller keeps, stores and may alter before restore sees it.     *)
(***************************************************************************)
EXTENDS Integers, Sequences, FiniteSets

CONSTANTS
  NBlocks,       (* Blocks 1 .. NBlocks of the layout, in layout order.      *)
  BlockLen,      (* The width of each block.                                 *)
  Slots,         (* Names constitutive slots may be inserted under.          *)
  Lens,          (* Lengths of the vectors callers pass.                     *)
  Vals,          (* Contents of finite vectors.                              *)
  Zero,          (* The content of an all-zero vector.                       *)
  Times,         (* The finite times callers pass.                           *)
  NonFinite,     (* A NaN or an infinity, as a time or inside a vector.      *)
  None,          (* No vector: no such field, or no trial.                   *)
  MaxStep,       (* Stands for u64::MAX, the last value of the step counter. *)
  HistoryLimits, (* The history limits a state may be built with.            *)
  MaxSaved,      (* Bound: how many checkpoints the caller keeps.            *)
  Delivered(_)   (* What the caller may hand to restore for a checkpoint it  *)
                 (* keeps: the checkpoint itself, or an altered copy.        *)

Blocks == 1 .. NBlocks
Ids    == Blocks \cup Slots
Phases == {"Committed", "Trial"}
Replies == {"Ok", "Err"}

(* A vector of f64: its length, and its content when every entry is finite. *)
Vec == [len : Lens, val : Vals \cup {NonFinite}]

(* A flat vector over the whole layout: whether its length is the layout's  *)
(* width, and the part of it that falls in each block.                      *)
FlatVec == [fits : BOOLEAN, at : [Blocks -> Vals \cup {NonFinite}]]
Part(f, b) == [len |-> BlockLen[b], val |-> f.at[b]]

(* The Checkpoint struct: keys absent from its maps are None, and layout    *)
(* says whether layout_identity is that of this state's layout.             *)
Checkpoint ==
  [ownLayout : BOOLEAN, historyLimit : Nat, time : Times \cup {NonFinite},
   step : 0 .. MaxStep, committed : [Ids -> Vec \cup {None}],
   history : [Blocks -> Seq(Vec)]]

ASSUME LayoutAssumption ==
  /\ NBlocks \in Nat \ {0}
  /\ BlockLen \in [Blocks -> Lens \ {0}]
  /\ Lens \subseteq Nat
  /\ Slots \cap Blocks = {}

ASSUME ValueAssumption ==
  /\ Zero \in Vals
  /\ NonFinite \notin Vals \cup Times
  /\ None \notin Vec

ASSUME BoundAssumption ==
  /\ Times \subseteq Int
  /\ 0 \in Times
  /\ MaxStep \in Nat
  /\ HistoryLimits \subseteq Nat
  /\ MaxSaved \in Nat

VARIABLES
  phase,         (* TransactionPhase                                          *)
  historyLimit,  (* history_limit; restore replaces it                        *)
  time,          (* the committed time                                        *)
  step,          (* the number of commits, a u64                              *)
  committed,     (* committed vector of each field and slot, None if absent   *)
  trial,         (* trial vector of each field and slot, None if there is none*)
  history,       (* past committed vectors of each field, newest first        *)
  saved,         (* the checkpoints the caller keeps                          *)
  reply          (* whether the last call returned Ok or Err                  *)

store == <<phase, historyLimit, time, step, committed, trial, history>>
vars  == <<store, saved, reply>>

----------------------------------------------------------------------------
(* Conditions the operations test.                                          *)

IsFinite(v)   == v.val # NonFinite
Fits(v, n)    == v.len = n /\ IsFinite(v)
Present(i)    == committed[i] # None
Complete      == \A b \in Blocks : Present(b)
NoTrial       == [i \in Ids |-> None]

(* The history of a field after its committed vector v has been pushed in   *)
(* front and the deque cut to the limit; a zero limit keeps no history.     *)
Pushed(h, v) ==
  IF historyLimit = 0
  THEN h
  ELSE SubSeq(<<v>> \o h, 1,
              IF Len(h) < historyLimit THEN Len(h) + 1 ELSE historyLimit)

CanInsertField(b, v) ==
  /\ phase = "Committed"
  /\ ~Present(b)
  /\ Fits(v, BlockLen[b])

CanInsertConstitutive(s, v) ==
  /\ phase = "Committed"
  /\ ~Present(s)
  /\ IsFinite(v)

(* Mutant: a trial may be opened before every field is there. *)
CanBeginTrialEarly == phase = "Committed"

CanBeginTrial == phase = "Committed" /\ Complete

CanSetTrial(i, v) ==
  /\ phase = "Trial"
  /\ Present(i)
  /\ Fits(v, committed[i].len)

CanSetTrialVector(f) ==
  /\ phase = "Trial"
  /\ f.fits
  /\ \A b \in Blocks : f.at[b] # NonFinite

(* Mutant: the step counter is incremented unchecked. *)
CanCommitUncounted(t) ==
  /\ phase = "Trial"
  /\ t # NonFinite
  /\ t >= time
  /\ \A i \in Ids : Present(i) => trial[i] # None

CanCommit(t) ==
  /\ phase = "Trial"
  /\ t # NonFinite
  /\ t >= time
  /\ \A i \in Ids : Present(i) => trial[i] # None
  /\ step < MaxStep

CanRollback == phase = "Trial"

CanCheckpoint == phase = "Committed" /\ Complete

(* Mutant: slots are compared by name only. *)
SchemaMatchesByName(c) ==
  \A s \in Slots : /\ c.committed[s] # None <=> Present(s)
                   /\ Present(s) => IsFinite(c.committed[s])

(* The schema of constitutive slots is the one this state has.              *)
SchemaMatches(c) ==
  \A s \in Slots : /\ c.committed[s] # None <=> Present(s)
                   /\ Present(s) => Fits(c.committed[s], committed[s].len)

(* Mutants: the depth, or the content, of a history is not validated. *)
HistoryFitsAnyDepth(c, b) ==
  \A k \in 1 .. Len(c.history[b]) : Fits(c.history[b][k], BlockLen[b])
HistoryFitsAnyContent(c, b) == Len(c.history[b]) <= c.historyLimit

(* The history of a field is within the limit it comes with, and each level *)
(* is a finite vector of the width of its block.                            *)
HistoryFits(c, b) ==
  /\ Len(c.history[b]) <= c.historyLimit
  /\ \A k \in 1 .. Len(c.history[b]) : Fits(c.history[b][k], BlockLen[b])

CanRestore(c) ==
  /\ phase = "Committed"
  /\ c.ownLayout
  /\ c.time # NonFinite
  /\ SchemaMatches(c)
  /\ \A b \in Blocks : /\ c.committed[b] # None
                       /\ Fits(c.committed[b], BlockLen[b])
                       /\ HistoryFits(c, b)

----------------------------------------------------------------------------
(* The operations.  A call whose conditions fail returns Err: see Refuse.   *)

InsertField(b, v) ==
  /\ CanInsertField(b, v)
  /\ committed' = [committed EXCEPT ![b] = v]
  /\ trial' = [trial EXCEPT ![b] = None]
  /\ history' = [history EXCEPT ![b] = <<>>]
  /\ reply' = "Ok"
  /\ UNCHANGED <<phase, historyLimit, time, step, saved>>

InsertConstitutive(s, v) ==
  /\ CanInsertConstitutive(s, v)
  /\ committed' = [committed EXCEPT ![s] = v]
  /\ trial' = [trial EXCEPT ![s] = None]
  /\ reply' = "Ok"
  /\ UNCHANGED <<phase, historyLimit, time, step, history, saved>>

BeginTrial ==
  /\ CanBeginTrial
  /\ phase' = "Trial"
  /\ trial' = committed
  /\ reply' = "Ok"
  /\ UNCHANGED <<historyLimit, time, step, committed, history, saved>>

(* set_trial for a field, set_constitutive_trial for a slot.                *)
SetTrial(i, v) ==
  /\ CanSetTrial(i, v)
  /\ trial' = [trial EXCEPT ![i] = v]
  /\ reply' = "Ok"
  /\ UNCHANGED <<phase, historyLimit, time, step, committed, history, saved>>

(* set_trial is called block after block and the first refusal ends the     *)
(* call: the blocks before it would keep their new trial.                   *)
SetTrialVector(f) ==
  /\ CanSetTrialVector(f)
  /\ LET refused == {b \in Blocks : ~CanSetTrial(b, Part(f, b))}
     IN  /\ trial' = [i \in Ids |->
                        IF i \in Blocks /\ \A r \in refused : i < r
                        THEN Part(f, i)
                        ELSE trial[i]]
         /\ reply' = IF refused = {} THEN "Ok" ELSE "Err"
  /\ UNCHANGED <<phase, historyLimit, time, step, committed, history, saved>>

(* Mutants: only changed fields are pushed, or the new vector is pushed. *)
HistoryOfChanges(b) ==
  IF Present(b) /\ trial[b] # committed[b] THEN Pushed(history[b], committed[b]) ELSE history[b]
HistoryOfTrials(b) ==
  IF Present(b) THEN Pushed(history[b], trial[b]) ELSE history[b]

(* What commit leaves in the history of a field.                            *)
HistoryAfterCommit(b) ==
  IF Present(b) THEN Pushed(history[b], committed[b]) ELSE history[b]

Commit(t) ==
  /\ CanCommit(t)
  /\ history' = [b \in Blocks |-> HistoryAfterCommit(b)]
  /\ committed' = [i \in Ids |-> IF Present(i) THEN trial[i] ELSE None]
  /\ trial' = NoTrial
  /\ time' = t
  /\ step' = step + 1
  /\ phase' = "Committed"
  /\ reply' = "Ok"
  /\ UNCHANGED <<historyLimit, saved>>

(* Mutant: the slots keep their trial vectors. *)
RollbackOfFields ==
  /\ CanRollback
  /\ trial' = [i \in Ids |-> IF i \in Blocks THEN None ELSE trial[i]]
  /\ phase' = "Committed"
  /\ reply' = "Ok"
  /\ UNCHANGED <<historyLimit, time, step, committed, history, saved>>

Rollback ==
  /\ CanRollback
  /\ trial' = NoTrial
  /\ phase' = "Committed"
  /\ reply' = "Ok"
  /\ UNCHANGED <<historyLimit, time, step, committed, history, saved>>

CheckpointOf ==
  [ownLayout |-> TRUE, historyLimit |-> historyLimit, time |-> time,
   step |-> step, committed |-> committed, history |-> history]

(* checkpoint, whose result the caller keeps.                               *)
TakeCheckpoint ==
  /\ CanCheckpoint
  /\ Cardinality(saved) < MaxSaved
  /\ saved' = saved \cup {CheckpointOf}
  /\ reply' = "Ok"
  /\ UNCHANGED store

Restore(c) ==
  /\ CanRestore(c)
  /\ committed' = c.committed
  /\ trial' = NoTrial
  /\ history' = c.history
  /\ historyLimit' = c.historyLimit
  /\ time' = c.time
  /\ step' = c.step
  /\ phase' = "Committed"
  /\ reply' = "Ok"
  /\ UNCHANGED saved

(* What restore may be given.                                               *)
Offers == {d \in UNION {Delivered(c) : c \in saved} : d \in Checkpoint}

(* A call whose conditions fail returns before it assigns anything, as does *)
(* a call on an id the layout or the schema does not know.  Some call is    *)
(* refused in every state (begin_trial inside a trial, rollback outside).   *)
Refuse ==
  /\ reply' = "Err"
  /\ UNCHANGED <<store, saved>>

----------------------------------------------------------------------------
(* SimulationState::new leaves every field out; SimulationState::zeroed     *)
(* inserts a zero vector for every block.                                   *)

ZeroVec(b) == [len |-> BlockLen[b], val |-> Zero]

New    == committed = [i \in Ids |-> None]
Zeroed == committed = [i \in Ids |-> IF i \in Blocks THEN ZeroVec(i) ELSE None]

Init ==
  /\ New \/ Zeroed
  /\ phase = "Committed"
  /\ historyLimit \in HistoryLimits
  /\ time = 0
  /\ step = 0
  /\ trial = NoTrial
  /\ history = [b \in Blocks |-> <<>>]
  /\ saved = {}
  /\ reply = "Ok"

Next ==
  \/ \E b \in Blocks, v \in Vec : InsertField(b, v)
  \/ \E s \in Slots, v \in Vec : InsertConstitutive(s, v)
  \/ BeginTrial
  \/ \E i \in Ids, v \in Vec : SetTrial(i, v)
  \/ \E f \in FlatVec : SetTrialVector(f)
  \/ \E t \in Times : Commit(t)
  \/ Rollback
  \/ TakeCheckpoint
  \/ \E c \in Offers : Restore(c)
  \/ Refuse

Spec == Init /\ [][Next]_vars

----------------------------------------------------------------------------
(* Correctness.                                                             *)

(* Types of the variables, with trials and committed vectors possibly       *)
(* absent and the step counter inside its width.                            *)
TypeOK ==
  /\ phase \in Phases
  /\ historyLimit \in Nat
  /\ time \in Times
  /\ step \in 0 .. MaxStep
  /\ committed \in [Ids -> Vec \cup {None}]
  /\ trial \in [Ids -> Vec \cup {None}]
  /\ history \in [Blocks -> Seq(Vec)]
  /\ saved \subseteq Checkpoint
  /\ reply \in Replies

(* A trial is open exactly when every present field and slot has a trial    *)
(* vector, and outside a trial none has: commit and rollback close the      *)
(* trial of fields and slots alike, begin_trial opens it for all of them.   *)
TrialIsWhole ==
  /\ phase = "Trial" => Complete /\ \A i \in Ids : Present(i) <=> trial[i] # None
  /\ phase = "Committed" => trial = NoTrial

(* Every vector the state holds, on whatever path it came in (insertion, a  *)
(* trial, a restored checkpoint), is finite and has the width of its block  *)
(* or slot, so flattening never tears a block boundary.                     *)
ShapesHold ==
  /\ \A b \in Blocks :
       /\ Present(b) => Fits(committed[b], BlockLen[b])
       /\ \A k \in 1 .. Len(history[b]) : Fits(history[b][k], BlockLen[b])
  /\ \A s \in Slots : Present(s) => IsFinite(committed[s])
  /\ \A i \in Ids : trial[i] # None => Fits(trial[i], committed[i].len)

(* History stays within the limit in force, also after a restore replaces   *)
(* the limit and the histories together.                                    *)
HistoryBounded == \A b \in Blocks : Len(history[b]) <= historyLimit

(* The fields agree on how many levels of history they keep, so that        *)
(* history_vector never finds a level with blocks missing.  It holds while  *)
(* callers hand back histories as checkpoint produced them: restore itself  *)
(* does not compare the depths.                                             *)
HistoryAligned == \A a, b \in Blocks : Len(history[a]) = Len(history[b])

(* A call that returns Err has changed nothing, also set_trial_vector,      *)
(* which writes block after block.                                          *)
ErrChangesNothing == [][reply' = "Err" => UNCHANGED <<store, saved>>]_vars

(* Once inserted, a slot is there for good with the width it was inserted   *)
(* with: commits, rollbacks and restored checkpoints cannot change the      *)
(* constitutive schema.                                                     *)
SlotsKept == \A s \in Slots : Present(s) => /\ committed'[s] # None
                                           /\ committed'[s].len = committed[s].len
SchemaFrozen == [][SlotsKept]_vars

(* A trial that has been opened can always be closed by a commit at the     *)
(* current time unless the step counter is exhausted: no caller reaches a   *)
(* trial that can only be thrown away.                                      *)
TrialCommittable == phase = "Trial" /\ step < MaxStep => CanCommit(time)
=============================================================================
