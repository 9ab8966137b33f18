-------------------------- MODULE MCSimulationState --------------------------
(* Small instances of SimulationState for TLC. *)
EXTENDS SimulationState

CONSTANTS s1, va, vb

MCBlockLen == [b \in Blocks |-> 1]

(* The checkpoint as it was taken, and altered copies restore must refuse.  *)
Malformed(c) ==
  {[c EXCEPT !.ownLayout = FALSE], [c EXCEPT !.time = NonFinite]}
  \cup {[c EXCEPT !.committed[b] = None] : b \in Blocks}
  \cup {[c EXCEPT !.committed[b].val = NonFinite] : b \in {x \in Blocks : c.committed[x] # None}}
  \cup {[c EXCEPT !.committed[s].len = 3 - @] : s \in {x \in Slots : c.committed[x] # None}}
  \cup {[c EXCEPT !.committed[s] = [len |-> 1, val |-> va]] : s \in {x \in Slots : c.committed[x] = None}}
  \cup {[c EXCEPT !.history[b] = Append(@, [len |-> 2, val |-> va])] : b \in Blocks}

(* Altered copies that restore accepts although no state produced them: an  *)
(* exhausted step counter, another limit, a shortened history.              *)
Edited(c) ==
  {[c EXCEPT !.step = MaxStep], [c EXCEPT !.historyLimit = @ + 1],
   [c EXCEPT !.historyLimit = 0]}
  \cup {[c EXCEPT !.history[b] = Tail(@)] : b \in {x \in Blocks : c.history[x] # <<>>}}

FaithfulDelivery(c)  == {c} \cup Malformed(c)
UntrustedDelivery(c) == FaithfulDelivery(c) \cup Edited(c)
=============================================================================
