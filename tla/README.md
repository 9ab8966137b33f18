# Krasis in TLA+

A verification development for Krasis, the stateful coupling layer of the Sinbad
stack: TLA+ modules translated from `src/`, TLC configurations that model-check
them on small instances, and proofs that the TLA+ proof system checks for every
value of the constants.

## 1. The system

Krasis owns the fields of a simulation and moves them from one committed state to
the next. It is a library: single-threaded, no I/O, every mutating operation takes
`&mut self`. What is hard in it is not a race between threads but the order of
calls and the way they fail:

* an execution advances **two** states, its own `SimulationState` and the state of
  the Methodus integrator, through a sequence of fallible calls, and must leave
  them in agreement whichever call fails;
* a trial is open between `begin_trial` and `commit`/`rollback`, and every early
  return in between must close it;
* checkpoints are serializable data that callers keep, mix and may edit;
* histories, telemetry and logs are cut, replaced or kept by a restore, each by its
  own rule;
* iterations (retries, output loops, partitioned sweeps, the depth-first search of
  the coupling graph) stop by tests whose order matters.

| component | source | state | operations | interacts with |
|---|---|---|---|---|
| transactional state | `state.rs`, `checkpoint.rs` | phase, fields and constitutive slots with committed and trial vectors, bounded history, time, step counter | `new`, `zeroed`, `insert_*`, `begin_trial`, `set_*trial*`, `commit`, `rollback`, `checkpoint`, `restore` | owned by every execution |
| coupled execution | `coupled.rs` | state, `BdfState`, refusal log | `new`, `attempt_step(_with)`, `checkpoint`, `restore`; consistent initialization of an operator | state, Methodus BDF and Newton |
| explicit execution | `explicit.rs` | state, `ExplicitState`, step records, rejections, refusal log | `new`, `advance`, `advance_to`, `checkpoint`, `restore` | state, Methodus explicit stepper |
| block-linear execution | `block_solve.rs` | state | `new`, `solve`, `checkpoint`, `restore` | state, Methodus Krylov solvers |
| partitioned execution | `partitioned.rs` | state; per run: sweep records | `new`, `solve`, `checkpoint`, `restore`, `run_partitioned` | state, Methodus block Newton and accelerator |
| coupled systems | `coupled_system.rs` | none after construction | leaf and edge validation, strongly connected components, residual, derivative, diagonal, initial state | coupled and partitioned executions |
| connected composition | `connected.rs` | none after construction | elimination of tied unknowns: residual, derivative, diagonal, row kinds | coupled systems, Finitum's constraint sets |
| layout and bindings | `layout.rs`, `binding.rs`, `block_binding.rs` | none after construction | validation of ranges and bindings | everything |
| preconditioner | `block_preconditioner.rs` | diagonal solves and couplings of one point | splitting of a Jacobian by blocks | block-linear execution |
| initial states | `initial.rs` | none | projection of initial data onto fields | state, coupled systems |
| verification harness | `verification.rs` | none (drives executions) | rollback, restart, history, derivative, strategy and event checks | coupled execution |
| events, errors | `event.rs`, `error.rs`, `lib.rs` | none | data types | - |

What makes each correct:

* **state**: a trial is whole or absent; a call that fails changes nothing; every
  vector is finite and of its block's width on whatever path it came in; the history
  is bounded and its levels are of one instant; the slot schema never changes.
* **executions**: whenever no call is in progress the two states agree; a failed call
  leaves no trace but its log entry; seen from outside a call is one step, one step back
  or nothing, and its reply says which; every call returns.
* **telemetry**: the records describe the committed trajectory, also after a restore.
* **iterations**: they end, and their verdict is the one their documentation names.
* **constructions**: blocks partition the state, bindings are bijections, components
  are the strongly connected ones in dependency order; composition leaves every leaf as
  it was, at its offset.
* **operators**: the product is the derivative of the residual, the diagonal is the
  Jacobian's, a row is called differential exactly if a rate enters it, whatever is tied to
  what; an initial state is refused exactly if no rate can make it consistent.
* **checks**: a verification report passes exactly if the execution deserves it and can
  be made again; evidence that covers every realization is taken.

`PROJECT.json` lists under `hazards` the places where these go wrong without a test
noticing, each with the properties that would catch it.

## 2. The modules

| module | models | state variables and the code |
|---|---|---|
| `SimulationState` | `state.rs`, `checkpoint.rs` | `phase`, `historyLimit`, `time`, `step` are the struct's fields; `committed`, `trial`, `history` are the vectors of its field and slot maps, indexed by block or slot, `None` where the map has no entry; `saved` is what the caller keeps; `reply` tells `Ok` from `Err` |
| `CommittedTrajectory` | what a caller may rely on | `now`, `past`, `limit`, `kept`: whole snapshots published, kept and resumed, without trials |
| `AtomicCalls` | what the caller of a stepping execution may rely on | `made`, `seen`, `open`, `said`, `kept`: the state between calls, whether a trial is open, the last reply and the states kept, without anything that happens inside a call |
| `SimulationStateRefinement` | the mapping from one to the other | `past` is the histories zipped level by level, as `history_vector` does |
| `CoupledExecution` | `CoupledExecution` in `coupled.rs` | the state's variables, `integrator` (the `BdfState`), `refusals`, the caller's `checkpoints`, and `pc`/`outcome` for the call in progress |
| `ExplicitExecution` | `explicit.rs` | the same with the `ExplicitState`, `steps`, `rejections`, `refusals` |
| `BlockLinearExecution` | `BlockLinearExecution` in `block_solve.rs` | the state's variables and `call`; `solutions` is a history variable: what the solver converged to |
| `PartitionedExecution` | `partitioned.rs` | the state's variables and `run`, the `SweepRecords` of the iteration with the rounding floor |
| `StateLayout` | `layout.rs`, `binding.rs`, `block_binding.rs`, the tiling test of `partitioned.rs` | operators without state: constructors that return what they build or the first error of their loop, and what they promise (`Partitions`, `Partitioned`, `Cuts`). What a loop has seen before its k-th turn is a function of the elements before k (`SeenBlocks`, `SeenPairs`), a stable sort a bijection onto ranks (`ByStart`), the walk of `Tiles` a recursive function |
| `ConsistentInitialization` | `solve_consistent_state_rate_for`, `make_initial_state_consistent_for` of `coupled.rs` | operators: the set of replies the rate solve may give, over any residual |
| `CoupledSystem` | leaves, composition and composed operator of `coupled_system.rs`, `initial.rs` | operators over records that hold the fields of `CoupledLeaf` and `CoupledSystemOperator` |
| `ConnectedSystem` | `connected.rs`, the parts of `block_preconditioner.rs`, and the caller of all constructors | `leaves`, `last`, `edges`, `composed`, `connected`: what each constructor returned |
| `Verification` | rollback, restart and history checks of `verification.rs` | the variables of the clone being driven, `given` (the caller's execution), `job` (the locals of the check in progress), `report`, `observed`, `verdict`; `answers` and `witness` are history variables |
| `StageSchedule` | what the stages of a coupling graph are | `arcs`, `stages` |
| `CouplingGraph` | `strongly_connected_components` in `coupled_system.rs` | the fields of `struct Tarjan`; `frames` is the recursion of `visit`, `root` the outer loop |

| proofs in | about |
|---|---|
| `SimulationStateProofs` | `SimulationState` and its refinement of `CommittedTrajectory` |
| `CoupledExecutionProofs`, `ExplicitExecutionProofs`, `BlockLinearExecutionProofs`, `PartitionedExecutionProofs` | the four executions, each on top of an instance of `SimulationStateProofs` |
| `CouplingGraphProofs` | the search of the coupling graph and its refinement of `StageSchedule` |
| `VerificationProofs` | the verdicts of the rollback, restart and history checks and the validation of reports, on top of an instance of `CoupledExecutionProofs` |
| `ConnectedSystemProofs` | which declarations the constructors of layouts, bindings and leaves accept, and what they build |

Composition: the four executions instantiate `SimulationState` as `Sim` over their own
variables, and reach it only through its actions, one call of the code being one action. That
they do is how they are written down, as the fields of `SimulationState` are private to
`state.rs`; it is no property. What could be wrong is which operations an execution calls, in what
order, and what it tells its caller. `CallsAreAtomic` says it of three of them: under the
mapping `Calls` the execution implements `AtomicCalls`, in which a call that reports a step has made
exactly one, a call that fails none, a restore goes back to a kept state, and no call returns with
a trial open. A rollback forgotten on one path, a commit that is not reported, a restore that moves one
of the two states and then refuses all break it. `ExplicitExecution` is no instance of `AtomicCalls`:
`advance_to` commits several steps in one call and may fail after some of them. Its
promises are `FailureLeavesNoTrace`, `RecordsDescribeTrajectory`, `RetriesAccounted` and `ArrivesAtOutput`.

`Verification` instantiates `CoupledExecution` as `Exec` over the variables of the clone it
drives and lets it take its own steps, every failure included; a check adds the stages between
them. `ConnectedSystem` extends `CoupledSystem`, which extends `StateLayout` and
`ConsistentInitialization`; the other modules use a valid layout as a constant.

An operation of the state is one action, because nobody can see it half done. A call of
an execution is a sequence of actions, one for each call it makes into the state or the
solver, because each of them can fail and what the ones before it did then matters.
Methodus is external: its solvers choose any outcome their return types allow, any
vector (also one that is not finite), and any suggested step smaller than the one
tried. `before` is a history variable: the state as the last call found it.

Abstractions: a vector is its length and a content, all vectors with a NaN or an
infinity being one (`NonFinite`); times are small numbers; `u64::MAX` is `MaxStep`; the
identity strings are compared, so a Boolean (`ownLayout`, `own`) stands for them; operators of leaves are linear with integer coefficients, as everything the compositions do
with them is linear and never looks at a coefficient; the constraint sets of Finitum (`Expand`,
`ExpandHomogeneous`, `RestrictTranspose`, the exact diagonal of a plan) are modelled from how
`connected.rs` uses them; Newton returns any zero of the rows it is given, or fails;
the JSON decoder returns any value for a value, so that it may be exact or not; the
wording of errors is left out but for the distinction between typed refusals and other
errors, which the logs and the partitioned verdicts depend on. Definitions
introduced by a comment that begins with "Mutant" are small faults planted next to the
definition they would replace; no specification uses them.

## 3. The runs

| run | shows | bounds and why they are enough |
|---|---|---|
| `SimulationState` | every order of operations; checkpoints come back as taken, malformed (restore must refuse) or edited (restore accepts): `TypeOK`, `TrialIsWhole`, `ShapesHold`, `HistoryBounded`, `ErrChangesNothing`, `SchemaFrozen` | two fields and a slot (the loops over each are symmetric in their members, one of each suffices to tell a loop left out), vectors of right and wrong length, history limits 0 and 1 plus the edited limits, three commits: enough to overflow the deque and the counter |
| `SimulationStateRefinement` | with checkpoints as taken, `HistoryAligned` and the refinement of `CommittedTrajectory` | limits 0 and 2, so that levels are pushed, kept and dropped |
| `CoupledExecution` | state and integrator agree whenever no call is in progress, a failed call leaves no trace, `CallsAreAtomic`, `Returns` | limit 1, one slot; two kept checkpoints, so that a state can be offered with the integrator of another; times 0..2 with steps of 1 and 2 reach the last finite time and pass it |
| `CoupledZeroHistory` | a finding, see below | limit 0 |
| `ExplicitExecution` | the same for the explicit execution, with `RecordsDescribeTrajectory`, `RetriesAccounted`, `ArrivesAtOutput`, `Returns` | a policy step of 3 allows a rejection, a retry and a second rejection under the budget of 2; one kept checkpoint: restores go back to an ancestor |
| `ExplicitForwardRestore` | a finding, see below | two kept checkpoints |
| `BlockLinearExecution` | only converged vectors are ever committed, kept or restored; a failed solve leaves no trace; `CallsAreAtomic` | a foreign checkpoint may hold any solution |
| `PartitionedExecution` | verdicts, `CallsAreAtomic` and end of the partitioned iteration | changes of 1, 2, 5 or no bound against floors 1 and 2, a tolerance of 1 and a growth of 2: convergence, a stall, growth judged and growth not judged all happen within two sweeps |
| `ConnectedSystem` | what the constructors accept and what they build (`LayoutsPartition`, `CompositionPlacesLeaves`), and of every composed or connected operator `LinearizationExact`, `SplittingExact`, `RowsMatchRates`, `InitializationDecides` | every first leaf with up to two blocks (right or wrong) on up to two unknowns and two pairs; realizations and reduced systems with each thing wrong once, also a given block twice, and leaves bound again over blocks of other sizes or with a gap; at most three leaves (`MaxLeaves`); second and third leaves that clash with the first in name, block or semantic id, that have no mask or no diagonal or store nothing; edges in both directions, on both arguments, chained and doubled; one or two ties with one master or two weighted ones, with offsets, plans through their ports in either order and turned around. Four or five unknowns in two or three leaves: a loop over leaves, blocks, edges or ties that forgets or shifts one shows on two. One generic point and rates 0 and 1: the operators are affine, and the coefficients have no pattern |
| `Verification` | each verdict is the one the execution deserves (`RollbackVerdict`, `RestartVerdict`, `HistoryVerdict`), reports validate against their source only (`ReportsReproduce`) | a caller with up to one step or refusal of its own, history limits 1 and 2, a restart of 1 + 2 steps, histories of one and two steps, all refusals of requests, evidence that binds, fails or does not bind; pure operators and others, exact and inexact decoders, a negative zero among the values; one block, as the checks treat all alike; realizations with canonical values only (with others every check is refused at once; the theorems cover both) |
| `EvidenceTwins` | a finding, see below | two instances of one realization |
| `CouplingGraph` | the stages are the strongly connected components, dependencies first; the search ends | all graphs on four leaves: chords, nested and touching cycles, cross edges into closed components; one doubled arc for the two arguments of an edge |

Bounds are constants of the modules (`MaxStep`, `MaxSaved`, `MaxRefusals`,
`MaxRejections`, `MaxSweeps`, `MaxPrior`, `MaxLeaves`) and appear in guards. `MaxStep` and `MaxSweeps` are
also bounds of the code; the others only limit what callers and solvers do.
A caller of `Verification` asks for one check and validates one report; a report over an operator
with hidden state is not validated, as it need not be equal to anything. `CouplingGraph`,
`ConnectedSystem` and `Verification` may stop (the search is done, everything is built, the
report is validated), so their configurations do not check deadlock; all others never stop.

The executions have no type invariant of their own in the runs: the state part of an execution
moves by the actions of `Sim` only, whose types are checked in the run `SimulationState`, and the
theorem `Invariance` of each execution proves them (`State!IInv`) together with those of its own variables.

Two properties take an assumption on inputs, in their own text. `RowsMatchRates` and
`InitializationDecides` are about rate edges into leaves that store state in all their rows
(`RateEdgesFit`). The code does not relate an edge to the mask of the leaf it enters
(`coupled_system.rs:559`); with a rate edge into a row marked algebraic the comment of
`coupled.rs:563` ("An algebraic row's residual never depends on `ydot`") is the caller's to keep.

Fairness: `WF_vars(Proceed)` says that a call in progress goes on. A call is a sequential
function of a single-threaded library that waits for nothing; what callers do next is
not fair at all. That a call returns is then not trivial: retries and output loops have to
run out, by the attempt budget and by the time growing. A solver that loops for ever inside one
call of Methodus is outside.

## 4. What is proved

Everything in this section holds for every value of the constants that the named assumptions
of the modules allow: any number of blocks, slots or leaves, any vectors, times, limits,
budgets and graphs. The assumptions say that constants are of their kind (`LayoutAssumption`,
`ValueAssumption`, `BoundAssumption`, which the executions repeat of their state as
`StateAssumption`; `StepAssumption`, `BudgetAssumption`, `LogAssumption`, `SweepAssumption`,
`ConfigAssumption`, `RealizationAssumption`, `RequestAssumption`), that the marker `None` is not a value
(`FlatAssumption`, `IndexAssumption`, `MarkerAssumption`), that the decoder makes a value of a value
(`DecoderAssumption`: JSON has no NaN and no infinity), that `Verification` gives its executions what they assume
(`ExecutionAssumption`), that a step may land anywhere between two times (`TimesAssumption`), what `validate_edges` checks: an edge joins
two different leaves (`EdgeAssumption`), and what types and Finitum make sure of in a declaration
(`DeclarationAssumption`, see below). TLC evaluates all of them in the runs.

### The state

* `Invariance`: `Spec => []IInv`. None of the safety invariants is inductive alone: a restore
  brings in whatever a checkpoint holds, and what checkpoints hold depends on the
  state they were taken in. `IInv` joins types, whole trials, shapes and bounded
  histories; a commit needs the shape of the trial to keep the shape of the
  committed vector and of the level it pushes, a restore needs exactly the tests of
  `CanRestore`. Nothing is assumed about `Delivered`: the caller may hand back anything.
* `TypesAlwaysHold`, `TrialsAreWhole`, `ShapesAlwaysHold`, `HistoryStaysBounded`, `TrialsCanCommit`: from
  `IInv`, the invariants of the run `SimulationState` and that an open trial can be committed unless
  the counter is exhausted.
* `RefusalsChangeNothing`: in particular `set_trial_vector`, which writes block after
  block, cannot be refused in the middle: its own tests and `IInv` imply those of `set_trial`.
* `SchemaIsFrozen`: no step removes or reshapes a slot.
* `HistoriesStayAligned` and `StateImplementsTrajectory`, under `HonestDelivery`: whoever
  hands back checkpoints as taken sees an atomic trajectory of whole snapshots. The
  inductive invariant `RInv` adds to `IInv` that the histories of the state and of every kept
  checkpoint have one depth; without it the zipped history does not move level by
  level under a commit.

### The executions

Each proof module takes `State == INSTANCE SimulationStateProofs` with the state part of the
execution's checkpoints for `saved`, and begins with bridge lemmas that say what is proved of the
state of the state this execution owns (`StateSteps`: a step of `Sim!Next` keeps `State!IInv`;
`StateWrites`, `StateCommits`: what a flat vector written and committed leaves behind). The
inductive invariant `Inv` joins `State!IInv` with `CallInv`, which says for each place `pc` of
a call what it has done so far and what it still has to undo. `StepsTransact` shows every action to
be an operation of the state, made when its conditions hold, or to leave the state alone.

* `CallsAlwaysAtomic` (all but the explicit execution): `Spec => CallsAreAtomic`, under `HonestDelivery`
  and, for the coupled execution, when no history limit is 0. The work is in three kinds of steps. Where a call
  commits and where it is reported may be steps apart: there the invariant says that the state is one step
  on from what the call found (`OneMoreState`, `SteppedOn`). Where a call fails it has rolled back, and the state
  is the one it found (`FoundIsThere`). Where it restores, the state becomes that of the checkpoint
  (`RestoreGoesBack`), which is a kept one as checkpoints come back as taken.
* `SynchronizationIsKept` and `FailedStepsLeaveNoTrace` / `FailedCallsLeaveNoTrace`. What makes them
  inductive is what happens between the commit of the state and the adoption of the
  integrator (`adopting`, `recording`): there the committed state agrees with the attempt about to
  be adopted and with nothing else, and no call can fail there. For the explicit execution they hold at every history
  limit. For the coupled one they are proved under `historyLimit # 0`, because without it
  they are false: that is the finding `CoupledZeroHistory`. The theorem shows that a limit of zero is the
  only way to it.
* `RetriesAreAccounted`, `OutputsAreReached`: the invariant relates the log of rejections, cut to
  the step in progress, with the counter and the ceiling of the loop over attempts
  (`RetryInv`), and the records since the call with the number of steps it has made
  (`TraceInv`), also when a call to `advance_to` fails in the middle.
* `RecordsFollowTrajectory`: under `HonestDelivery` and `MaxSaved = 1`. With one checkpoint
  a restore goes back to an ancestor; with two it may go sideways, and then the property is
  false: that is the finding `ExplicitForwardRestore`. The invariant says that the kept checkpoint is a point
  of the recorded trajectory (`OnTrajectory`) and that records number the steps from one without a
  gap (`Numbering`), so that cutting by number is cutting by position.
* `OnlySolutionsCommitted` (block-linear), under `HonestDelivery`: the invariant follows a
  converged vector from the solver into the trial, the commit, the history and the checkpoints.
* `AcceptedHasConverged`, `RefusalsWereEarned` (partitioned): no verdict of an iteration is
  given without the sweeps that show it, and no growth beyond the factor goes unseen unless a norm
  was at the rounding floor, for every combination of tolerances, floors and sweep budgets. The invariant
  keeps of every recorded sweep what the growth test saw of it and its predecessor (`GrowthWatched`), not only of
  the last.

### The search of the coupling graph

`CouplingGraphProofs` proves Tarjan's algorithm, as the code runs it, for every graph. `Inv` has
seven parts besides the types:

* `StackInv`: a leaf is stacked exactly if it is met and in no stage, in the order of the indices;
* `FrameInv`: the visits in progress are a path of stacked leaves, and a visit reaches every leaf
  stacked after it;
* `LowInv`: a lowlink is the index of a stacked leaf that can be reached, and is *strictly* smaller than
  the leaf's own index once its visit is over; that is why a leaf whose lowlink equals its index closes a
  component;
* `PastInv`: what a visit is past (its arcs before the position of its loop) is met, and not deeper
  in the stack than the lowlink tells;
* `TakenInv`: the lowlink of a visit in progress is not above those of the visits it has made that
  are over. This is what the `min` after the recursive call is for;
* `StageInv`: the stages so far are components in ascending order, and nothing in them depends on a leaf
  outside them;
* `RootInv`: the outermost visit is at the bottom of the stack, and all leaves before it are met.

The step that matters is the one that closes a component, whose leaves must be exactly those that
are mutually reachable with its root. The root reaches each of them by `FrameInv`. Each of them reaches the
root: if not, take the one of least index (`LeastNumber`); by `LowInv` its lowlink is the index of a
leaf below it which it reaches, and which reaches the root. Nothing else belongs to the component:
together with the stages so far its leaves are closed under arcs, since by `PastInv` an arc that left
them would have lowered a lowlink below the root's index. `StageSchedule` defines what a leaf reaches as
the intersection of the closed sets it is in, so no induction over paths is needed.

* `StackStaysOpen`: the invariant `StackIsOpen` of the run.
* `StagesAreScheduled`: the search implements `StageSchedule`: initial states map to initial
  states, each step to the publication of one whole component or to a stutter.
* `DoneIsComplete`: whenever the search is done all leaves are scheduled, and the stages are single leaves
  exactly if the graph has no cycle, which is what decides between a directed and an iterated
  composition. Only here it matters that no edge joins a leaf to itself (`EdgeAssumption`): such a leaf
  would be a stage of its own and a cycle. It is the safety half of `EndsComplete`; that the search ends
  is left to TLC.

### The checks of the verification harness

`VerificationProofs` proves the four properties of the run for every layout, history limit, operator,
decoder, evidence and request, and for checks of any number of attempts. `Clone == INSTANCE
CoupledExecutionProofs` says of the clone at hand what is proved of every coupled execution; it is used where a
clone takes a step of its own, and its invariant is kept where a clone is dropped and another one loaded.

* *Executions as values.* `After(e, o)` is what a call that ends with the outcome `o` makes of the
  execution `e`, `Result(e, o)` what it returns, `Calling` that the execution is somewhere within such a call. That
  a call in progress can only end there is proved once, along `pc` (`CallBegins`, `CallProceeds`).
* *Chains.* `Chain(tr, n, size)` says that `tr[0] .. tr[n]` are executions, each made from
  the one before by an accepted attempt whose outcome is the answer the operator has given to that very question. A
  pure operator has one answer to a question, and it keeps it (`AnswersKept`), so two chains that begin with executions
  that agree up to their refusal logs agree all along (`ChainsAgree`).
* *The inductive invariant* `VInv` joins `Settled` (the clone is sound, and nothing is presented or
  decided before there is a report), `JobInv` (the job in progress) and the verdicts. `JobInv` says for each stage
  which chain the clone is at the end of: the accepted steps of a history check, or for a restart the chain that ran on, the
  one up to the checkpoint and the one from the decoded checkpoint. None of the three verdicts is inductive alone, because a report is made
  of locals of the check (`primed`, `depths`, `states`, `restarted`, `saved`) which only the chains explain.
* `RollbackTells`, `HistoryTells`, `RestartTells`: from `VInv`. The first two need no purity: what they say of an attempt
  holds whatever the solver does. `RestartTells` has two halves. Any decoder that makes vectors of vectors
  gives a checkpoint that `restore` accepts (`DecodedFits`), as everything `restore` tests is a shape, a time or a counter, or the agreement of the
  state with the integrator, which were encoded from the same values. With an exact decoder the resumed execution *is* the one that was encoded, but for
  its log; so by `ChainsAgree` it makes the steps of the execution that ran on, and no restarted step can be refused.
* `ReportsAreMadeAgain`: `Vouched(e, r)` says that the report `r` is what the check makes of the execution `e` and
  the answers given so far. A report that is returned is vouched for; answers are never forgotten, so it stays so; and a report made again
  from the same execution is vouched for by the same answers, so that both are equal. That it is made from
  the same execution is the other half: every way a check can end loads the caller's own.

### Layouts, bindings and leaves

`ConnectedSystemProofs` proves `LayoutsAlwaysPartition`: whatever a caller declares, in any order and with any number of
blocks, pairs and fields, a leaf is built exactly if the declaration is `Buildable`, and the layout of a
leaf that is built cuts its unknowns as `LayoutsPartition` says. `DeclarationAssumption` says that blocks are records with
numbers in them and pairs are pairs, and nothing about whether they fit; for a reduced system,
that the fields of a product space follow one another (Finitum's) and that the names `format!` makes of
different variables differ.

* *Sorting.* Ranks are a bijection (`RanksIncrease`, `Sorts`), so the sorted blocks are the declared ones.
* *The loops find every fault.* No turn of `StateLayout::new` finds a fault exactly if the sorted blocks have names of their
  own, are not empty and each starts where the one before ends, the first at 0 (`SortedBlocks`, `LayoutDecides`). Such blocks
  partition the unknowns (`ContiguousPartitions`); and blocks that partition them, in whatever order they came, are such when sorted
  (`PartitionsContiguous`): a gap leaves a position in no block, an overlap one in two. A binding finds no fault and
  is complete exactly if the pairs match blocks with semantic ids one to one, by counting images (`BindingAccepts`).
* *The walk of `check_blocks_tile_layout`.* `WalkTells` says of every turn that the rest of the walk succeeds exactly if the
  cuts of the solver blocks still ahead are cuts of the state blocks still ahead and both end together. The
  induction is over the number of blocks of both that are ahead. `StartsExist` and `WalksExist` show that the recursive functions behind it
  exist, as a recursive function is a `CHOOSE`.
* *Each constructor*: `ConstructsNew`, `ConstructsRealization`, `ConstructsReduced`, then `Rebinds` and `Marks` for what may be done to a
  leaf afterwards; `Builds` joins them and `Promises` draws the conclusions about the leaf.
* `LayoutsInv`, the inductive invariant, adds to the property that `leaves` is a sequence; the work is in the lemmas.

The proof corrected the property twice: the blocks given to a realization must also be as many as the declared ones (the same
set is not enough when one is doubled), and the blocks of a rebind must make a layout of their own (they need not be
as wide as the leaf's). The code has both (the comparison of layouts at `coupled_system.rs:136`, and
`StateLayout::new`, which every binding needs), and the run has declarations of both kinds now.

### What the provers need

`LeastNumber` (a non-empty set of numbers has a least member) and `SetInduction` (a set that contains 0
and every successor contains every number) are proved from the library's theorems in `SimulationStateProofs`,
`CouplingGraphProofs` and `ConnectedSystemProofs`, and the other modules cite them through their instances. An induction over
a loop is stated of the set of positions at which it holds. A recursive function of several
arguments takes one tuple (`Tiles`). Two operators are
written with this in mind and not with an operator of the community modules: `OfSteps`, which
selects records, is a recursive function over positions (`SelectSeq` takes an operator, and facts about it
would have to be proved with one as parameter), and `Sorted` is a `CHOOSE` among the ascending listings of a set
(`SetToSortSeq` takes its order as an operator too). `Verification` reads a checkpoint with two operators
(`Read`, `ReadAll`) and binds evidence by sets of positions (`ValidateFor`), where loops over entries would be folds.

### Only model-checked

* Liveness: `Returns` of the executions and the first half of `EndsComplete` rest on fairness; `ENABLED` is
  out of reach of the prover.
* Of `ConnectedSystem`: `CompositionPlacesLeaves`, `LinearizationExact`, `SplittingExact`, `RowsMatchRates`,
  `InitializationDecides`. Composition concatenates and sums over leaves, edges and ties with the operators of the
  community modules (`FlattenSeq`, `SortSeq`, folds); what these return for every input is an induction over
  data with an operator as parameter.

## 5. Findings

* **A history limit of zero breaks the first coupled step.** `SimulationState::new` takes
  any limit and a limit of zero keeps no history (`state.rs:351`). `CoupledExecution::new`
  accepts such a state. The first accepted step is committed and the integrator adopted;
  then the closing `validate_synchronized` compares the integrator's previous values with
  a history that has none and returns `Err` (`coupled.rs:921`, `:999`). The call failed
  and the state has moved, against `coupled.rs:871-874`, and every later attempt and checkpoint is refused
  until the caller restores a checkpoint taken before the step.
  `CoupledZeroHistory` shows it; the run `CoupledExecution` has a limit of one for this reason.
* **A restore may keep step records of another trajectory.** `ExplicitExecution::restore`
  drops the records past the restored step by number (`explicit.rs:483`). Going back to an
  ancestor that is right, and `RecordsDescribeTrajectory` holds. Going *sideways* it is not:
  take checkpoints at steps 0 and 1, return to the first, step to another time, and restore
  the second; the record of step 1 is that of the abandoned step, against
  `explicit.rs:449-451`. `ExplicitForwardRestore` shows it with `RecordsAreTrue`.

* **No evidence covers the second of two twins.** `validate_for` looks a report's realization up
  with `position` (`verification.rs:188`), which finds the first realization with the identity.
  Two instances of one model over one mesh have the same identity; composing them is meant
  (`coupled_system.rs:161`). The second is never marked covered and every rollback, restart or
  history check of such an operator is refused at `verification.rs:221`, against
  `verification.rs:57-60`: every realization has a report that names it. `EvidenceTwins` shows it
  with `CoveringEvidenceBinds`.

## 6. Not modelled

* What Methodus and Finitum compute: time steps, Newton, Krylov and acceleration algorithms, sweeps of
  the preconditioner, constraint sets, meshes, kernels. They are choices of a model, or operators
  with what Krasis relies on.
* The derivative, strategy and event checks of `verification.rs`: each compares numbers of one
  evaluation with those of another within a tolerance and has no protocol. Of the three checks that
  are modelled, the digests are left out: they are functions of what they digest.
* The refusal `KRASIS_VERIFY_TRAJECTORY` of a restart check (`verification.rs:648-652`): the norms refuse times
  or states that do not fit together, and the check takes both from steps that were accepted one after the other.
  Also the refusal of a basis value that Finitum omits (`KRASIS_VERIFY_REALIZATION_SOURCE`).
* Identities (blake3 over canonical JSON) are compared, never computed.
* Event values, which the composition concatenates; the tests `NodalContext::new` makes of a mesh; the
  balance arithmetic of the telemetry.
* `event.rs`, `error.rs`, `lib.rs`: data types and re-exports.
* In `ExplicitExecution::advance` the overflow of `accepted_steps + 1` (`explicit.rs:278`), which only a
  hand-written checkpoint can reach: the counter stops at `MaxStep + 1`.

## 7. Plan

Done, in this order: `SimulationState` with its refinement and proofs, `CoupledExecution`,
`ExplicitExecution`, `BlockLinearExecution`, `PartitionedExecution`, `CouplingGraph`, `StateLayout`,
`CoupledSystem`, `ConnectedSystem`, `ConsistentInitialization`, `Verification`; the proofs about the four
executions, the coupling graph, the verification checks, and the layouts and bindings.

What is left:

1. Proofs about the composition (`CompositionPlacesLeaves`), for which its concatenations and sums would have to be
   written as functions of positions, as those of `StateLayout` are; then `ConsistentInitialization`.
2. The derivative, strategy and event checks of `verification.rs`, if they should grow a protocol.
