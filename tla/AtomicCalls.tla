----------------------------- MODULE AtomicCalls -----------------------------
(***************************************************************************)
(* What the caller of a stepping execution may rely on.  A call is a long  *)
(* sequence of fallible steps inside, but seen from outside it does one    *)
(* thing, and its reply says which: the committed state has taken one step *)
(* and remembers the one it left, or is what it was before the call, or is *)
(* one the caller kept.  No trial is left open by any of them.             *)
(***************************************************************************)
EXTENDS Integers, Sequences

CONSTANTS
  Blocks,     (* The fields; every other key of a state is a slot.      *)
  Successes,  (* The replies of a call that has taken a step,           *)
  Failures    (* and of one that has not.                               *)

VARIABLES
  made,  (* whether the execution has been constructed                  *)
  seen,  (* what a checkpoint would hold, before the call in progress   *)
  open,  (* whether the caller could find a trial open                  *)
  said,  (* the reply of the last call, Running while there is none     *)
  kept   (* the states of the checkpoints taken                         *)

vars == <<made, seen, open, said, kept>>

Init == ~made /\ ~open /\ kept = {}

(* The caller fills the state, and makes the execution of one that rests.   *)
Prepare == ~made /\ ~made' /\ UNCHANGED <<said, kept>>
Create  == ~made /\ made' /\ ~open /\ UNCHANGED <<seen, open, said, kept>>

(* The state new is one step after old: later or at the same time, with     *)
(* what old held of the fields as the newest level of a history cut to the  *)
(* limit, and the slots, which no solver writes, as they were.              *)
OneStepOn(old, new) ==
  /\ new.step = old.step + 1
  /\ new.time >= old.time
  /\ new.historyLimit = old.historyLimit
  /\ \A b \in Blocks :
       LET h == old.history[b]
       IN  new.history[b] =
             IF old.historyLimit = 0 THEN h
             ELSE SubSeq(<<old.committed[b]>> \o h, 1,
                         IF Len(h) < old.historyLimit THEN Len(h) + 1 ELSE old.historyLimit)
  /\ \A i \in DOMAIN old.committed \ Blocks : new.committed[i] = old.committed[i]

Begin == said' = "Running" /\ UNCHANGED <<seen, kept>>
Step  == said' \in Successes /\ OneStepOn(seen, seen') /\ UNCHANGED kept
Fail  == said' \in Failures /\ UNCHANGED <<seen, kept>>
Keep  == said' = "Ok" /\ kept' = kept \cup {seen} /\ UNCHANGED seen
Back  == said' = "Ok" /\ seen' \in kept /\ UNCHANGED kept

Next ==
  \/ Prepare
  \/ Create
  \/ made /\ UNCHANGED <<made, open>> /\ (Begin \/ Step \/ Fail \/ Keep \/ Back)

Spec == Init /\ [][Next]_vars
=============================================================================
