---------------------------- MODULE CouplingGraph ----------------------------
(***************************************************************************)
(* CouplingGraph: the dependencies between the leaves of a coupled system, *)
(* and the stages computed from them by a depth-first search (Tarjan's)    *)
(* that keeps its own stack, indices and lowlinks and recurses.  Here one  *)
(* step is one turn of one of its loops, and the recursion is a stack of   *)
(* frames.                                                                 *)
(***************************************************************************)
EXTENDS Naturals, Sequences, FiniteSets, SequencesExt

CONSTANTS
  NNodes,   (* The number of leaves, numbered from 0.                        *)
  Edges,    (* The coupling edges a system may have: row, column, argument.  *)
  None      (* No index yet.                                                 *)

Nodes     == 0 .. NNodes - 1
Arguments == {0, 1}   (* State sorts before Rate. *)

(* An edge that couples a leaf to itself is refused when it is resolved.    *)
ASSUME EdgeAssumption ==
  /\ NNodes \in Nat \ {0}
  /\ Edges \subseteq [row : Nodes, column : Nodes, argument : Arguments]
  /\ \A e \in Edges : e.row # e.column
ASSUME IndexAssumption == None \notin Nat

VARIABLES
  successors,   (* the columns each row depends on, sorted, one per argument *)
  index,        (* the order in which the search has met the leaves          *)
  lowlink,
  onStack,
  stack,
  nextIndex,
  components,   (* the components found, each in ascending order             *)
  frames,       (* the visits in progress, the innermost last: the leaf, and *)
                (* which of its successors the loop is at                    *)
  root          (* where the outer loop is                                   *)

vars == <<successors, index, lowlink, onStack, stack, nextIndex, components, frames, root>>

(* The members of a set in order.                                           *)
Sorted(S, Precedes(_, _)) ==
  CHOOSE s \in [1 .. Cardinality(S) -> S] :
    \A i, j \in 1 .. Cardinality(S) : i < j => Precedes(s[i], s[j])

Ascending(S) == Sorted(S, LAMBDA a, b : a < b)

(* sort_by_key and dedup of the dependencies, and the successors of each row*)
Before(d, e) ==
  d.column < e.column \/ (d.column = e.column /\ d.argument < e.argument)
SuccessorsOf(dependencies, node) ==
  LET sorted == Sorted({d \in dependencies : d.row = node}, Before)
  IN  [k \in 1 .. Len(sorted) |-> sorted[k].column]

Lower(a, b) == IF a < b THEN a ELSE b

Top      == frames[Len(frames)]
Advanced == [frames EXCEPT ![Len(frames)].at = @ + 1]

----------------------------------------------------------------------------
Init ==
  /\ \E dependencies \in SUBSET Edges :
       successors = [n \in Nodes |-> SuccessorsOf(dependencies, n)]
  /\ index = [n \in Nodes |-> None]
  /\ lowlink = [n \in Nodes |-> 0]
  /\ onStack = [n \in Nodes |-> FALSE]
  /\ stack = <<>>
  /\ nextIndex = 0
  /\ components = <<>>
  /\ frames = <<>>
  /\ root = 0

(* visit, up to its loop.                                                   *)
Enter(node) ==
  /\ index' = [index EXCEPT ![node] = nextIndex]
  /\ lowlink' = [lowlink EXCEPT ![node] = nextIndex]
  /\ nextIndex' = nextIndex + 1
  /\ stack' = Append(stack, node)
  /\ onStack' = [onStack EXCEPT ![node] = TRUE]
  /\ frames' = Append(frames, [node |-> node, at |-> 1])
  /\ UNCHANGED <<successors, components>>

(* The outer loop, over the leaves not met yet.                             *)
Start ==
  /\ frames = <<>>
  /\ root < NNodes
  /\ root' = root + 1
  /\ \/ index[root] = None /\ Enter(root)
     \/ /\ index[root] # None
        /\ UNCHANGED <<successors, index, lowlink, onStack, stack, nextIndex, components, frames>>

(* Mutant: a successor already met counts wherever it is.                   *)
LowlinkOfAnySeen(node, successor) == Lower(lowlink[node], index[successor])

(* The lowlink after a successor that has been met before.                  *)
LowlinkOfSeen(node, successor) ==
  IF onStack[successor] THEN Lower(lowlink[node], index[successor]) ELSE lowlink[node]

(* One turn of the loop over the successors of the innermost visit.         *)
Follow ==
  /\ frames # <<>>
  /\ Top.at <= Len(successors[Top.node])
  /\ UNCHANGED root
  /\ LET successor == successors[Top.node][Top.at]
     IN  \/ index[successor] = None /\ Enter(successor)
         \/ /\ index[successor] # None
            /\ lowlink' = [lowlink EXCEPT ![Top.node] = LowlinkOfSeen(Top.node, successor)]
            /\ frames' = Advanced
            /\ UNCHANGED <<successors, index, onStack, stack, nextIndex, components>>

(* Mutant: the popped leaves stay marked.                                   *)
PoppedButMarked(node) ==
  LET at == CHOOSE k \in 1 .. Len(stack) : stack[k] = node
  IN  /\ components' = Append(components,
           Ascending({stack[k] : k \in at .. Len(stack)}))
      /\ stack' = SubSeq(stack, 1, at - 1)
      /\ UNCHANGED onStack

(* The leaves on the stack down to node become a component.                 *)
Popped(node) ==
  LET at      == CHOOSE k \in 1 .. Len(stack) : stack[k] = node
      members == {stack[k] : k \in at .. Len(stack)}
  IN  /\ components' = Append(components, Ascending(members))
      /\ stack' = SubSeq(stack, 1, at - 1)
      /\ onStack' = [n \in Nodes |-> onStack[n] /\ n \notin members]

(* Mutant: the visit that goes on does not learn the lowlink.               *)
ReturnForgetful ==
  /\ UNCHANGED lowlink
  /\ LET outer == Front(frames)
     IN  frames' = IF outer = <<>> THEN <<>> ELSE [outer EXCEPT ![Len(outer)].at = @ + 1]

(* The visit returns into the loop that made it, which takes its lowlink.   *)
Return ==
  LET outer == Front(frames)
  IN  IF outer = <<>>
      THEN frames' = <<>> /\ UNCHANGED lowlink
      ELSE LET caller == Last(outer).node
           IN  /\ lowlink' = [lowlink EXCEPT ![caller] = Lower(@, lowlink[Top.node])]
               /\ frames' = [outer EXCEPT ![Len(outer)].at = @ + 1]

(* The innermost visit is through its successors.                           *)
Finish ==
  /\ frames # <<>>
  /\ Top.at > Len(successors[Top.node])
  /\ IF lowlink[Top.node] = index[Top.node]
     THEN Popped(Top.node)
     ELSE UNCHANGED <<components, stack, onStack>>
  /\ Return
  /\ UNCHANGED <<successors, index, nextIndex, root>>

Next == Start \/ Follow \/ Finish

(* The search runs to its end: there is nothing in it to wait for.          *)
Spec == Init /\ [][Next]_vars /\ WF_vars(Next)

----------------------------------------------------------------------------
(* Correctness.                                                             *)

Arcs   == UNION {{<<n, successors[n][k]>> : k \in 1 .. Len(successors[n])} : n \in Nodes}
Stages == [k \in 1 .. Len(components) |-> Range(components[k])]

Schedule == INSTANCE StageSchedule WITH arcs <- Arcs, stages <- Stages

Done == frames = <<>> /\ root = NNodes

(* Each component is listed when it is complete and after all it depends on:*)
(* the search emits the stages the documentation of CouplingGraph promises. *)
SchedulesStages == Schedule!Spec

(* What the search maintains: a leaf is on the stack as long as its         *)
(* component is open, a closed leaf depends on closed leaves only, a leaf   *)
(* under visit depends on every leaf stacked after it, and a lowlink is the *)
(* index of a leaf on the stack that the leaf depends on.  Components are   *)
(* listed in ascending order.                                               *)
StackIsOpen ==
  /\ \A k \in 1 .. Len(components) : \A i, j \in 1 .. Len(components[k]) :
       i < j => components[k][i] < components[k][j]
  /\ Range(stack) = {n \in Nodes : onStack[n]}
  /\ \A n \in Nodes : onStack[n] <=> index[n] # None /\ n \notin Schedule!Scheduled
  /\ \A n \in Schedule!Scheduled : Schedule!Reached(n) \subseteq Schedule!Scheduled
  /\ \A i, j \in 1 .. Len(stack) : i < j => index[stack[i]] < index[stack[j]]
  /\ \A f \in 1 .. Len(frames), j \in 1 .. Len(stack) :
       index[frames[f].node] < index[stack[j]] =>
         stack[j] \in Schedule!Reached(frames[f].node)
  /\ \A n \in Range(stack) :
       \E m \in Range(stack) : index[m] = lowlink[n] /\ m \in Schedule!Reached(n)

(* Every leaf is in a stage, and the graph says of itself that it is acyclic*)
(* (every stage a single leaf) exactly when it is.                          *)
Complete ==
  /\ Schedule!Scheduled = Nodes
  /\ (\A k \in 1 .. Len(components) : Len(components[k]) = 1)
       <=> \A arc \in Arcs : arc[1] \notin Schedule!Reached(arc[2])

(* The search ends, and its stages are complete then.                       *)
EndsComplete == <>[](Done /\ Complete)
=============================================================================
