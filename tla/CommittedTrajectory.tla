------------------------- MODULE CommittedTrajectory -------------------------
(***************************************************************************)
(* What a caller of SimulationState may rely on, with trials abstracted    *)
(* away: there is one current snapshot of all fields and slots, and behind *)
(* it a bounded list of earlier snapshots of the fields.  Time passes by   *)
(* publishing a whole new snapshot in one step, or by going back to a      *)
(* snapshot that was kept, together with the past that was kept with it.   *)
(* There is no partly published snapshot, no level of the past with fields *)
(* of different instants, and no trace of a trial that was not committed.  *)
(***************************************************************************)
EXTENDS Integers, Sequences

CONSTANTS Blocks, Slots, Vec, None, MaxStep

VARIABLES
  now,    (* the current snapshot: values, time and step          *)
  past,   (* earlier field snapshots, newest first                *)
  limit,  (* how many of them are kept                            *)
  kept    (* the moments <<now, past, limit>> that can be resumed *)

vars == <<now, past, limit, kept>>

Ids       == Blocks \cup Slots
FieldsOf(values) == [b \in Blocks |-> values[b]]
Absent(i) == now.values[i] = None
Whole     == \A b \in Blocks : ~Absent(b)

Init ==
  /\ now.time = 0
  /\ now.step = 0
  /\ \A s \in Slots : Absent(s)
  /\ (\A b \in Blocks : Absent(b)) \/ Whole
  /\ past = <<>>
  /\ kept = {}

(* A field or slot that did not exist yet gets its first vector. *)
Populate(i) ==
  /\ Absent(i)
  /\ now'.values[i] \in Vec
  /\ now' = [now EXCEPT !.values[i] = now'.values[i]]
  /\ UNCHANGED <<past, limit, kept>>

(* All fields and slots move to their next vectors at once, and the fields  *)
(* left behind become the newest level of the past.                         *)
Publish ==
  /\ Whole
  /\ now.step < MaxStep
  /\ now' = [values |-> now'.values, time |-> now'.time, step |-> now.step + 1]
  /\ now'.time >= now.time
  /\ \A i \in Ids : now'.values[i] \in (IF Absent(i) THEN {None} ELSE Vec)
  /\ LET longer == <<FieldsOf(now.values)>> \o past
     IN  past' = IF limit = 0 THEN past
                 ELSE SubSeq(longer, 1, IF Len(past) < limit THEN Len(longer) ELSE limit)
  /\ UNCHANGED <<limit, kept>>

Keep ==
  /\ Whole
  /\ kept' = kept \cup {<<now, past, limit>>}
  /\ UNCHANGED <<now, past, limit>>

(* Only a kept moment with the present schema of slots can be resumed.      *)
Resume ==
  /\ <<now', past', limit'>> \in kept
  /\ \A s \in Slots : Absent(s) <=> now'.values[s] = None
  /\ UNCHANGED kept

Next == (\E i \in Ids : Populate(i)) \/ Publish \/ Keep \/ Resume

Spec == Init /\ [][Next]_vars
=============================================================================
