----------------------------- MODULE Verification -----------------------------
(***************************************************************************)
(* Verification: the reusable checks that exercise an execution and make a *)
(* durable report of what they saw.  A check works on clones of the        *)
(* caller's CoupledExecution, one at a time: the variables of the          *)
(* execution are those of the clone at hand, given is the caller's own     *)
(* while a check is in progress.  Each check is a sequence of stages:      *)
(*                                                                         *)
(*   rollback:  probing                                                    *)
(*   restart:   continuous -> source -> restoring -> restarted             *)
(*   history:   accepting -> probing                                       *)
(*                                                                         *)
(* probing makes one attempt that may fail, the others make attempts that  *)
(* must be accepted.  A later call validates a report by making it again.  *)
(***************************************************************************)
EXTENDS Integers, Sequences, FiniteSets, SequencesExt

CONSTANTS
  NBlocks, BlockLen, Slots, Lens, Vals, Zero, Times, NonFinite, None,
  MaxStep, HistoryLimits, MaxSaved, Delivered(_),  (* See SimulationState.   *)
  StepSizes, MaxRefusals,                          (* See CoupledExecution.  *)
  NegZero,       (* The content -0.0: another encoding of Zero.              *)
  Parses,        (* What the JSON decoder may make of each content.          *)
  Realizations,  (* The realizations the operator is built over, in order.   *)
  Requests,      (* The checks callers ask for, and the evidence they bring. *)
  Presented(_),  (* What the caller may present for a report: it, or another.*)
  MaxPrior       (* Bound: steps and refusals of the caller before a check.  *)

ASSUME DecoderAssumption == Parses \subseteq [Vals -> Vals]

ASSUME RealizationAssumption ==
  /\ Realizations \in Seq(Range(Realizations))
  /\ \A r \in Range(Realizations) : /\ r.kind \in {"Plan", "ReducedSystem"}
                                   /\ r.canonical \in BOOLEAN

(* What a check is asked for: total attempts of one step size, for a restart*)
(* with the checkpoint after split of them; canonical says whether the size *)
(* and the configurations are finite and no negative zeros.                 *)
ASSUME RequestAssumption ==
  \A request \in Requests :
    /\ request.call.check \in {"Rollback", "Restart", "History"}
    /\ request.call.size \in StepSizes
    /\ request.call.total \in Nat
    /\ request.call.split \in Nat
    /\ request.call.canonical \in BOOLEAN
    /\ \A entry \in Range(request.evidence) :
         /\ entry.kind \in {"Agreement", "Patch"}
         /\ entry.valid \in BOOLEAN
         /\ entry.accepted \in BOOLEAN

(* None is neither an entry of the refusal log nor a verdict.               *)
ASSUME MarkerAssumption ==
  /\ None \notin [time : Times, size : StepSizes]
  /\ None \notin [validated : {FALSE}]
  /\ None \notin [validated : {TRUE}, accepted : BOOLEAN]

VARIABLES
  phase, historyLimit, time, step, committed, trial, history, reply,
  integrator, refusals, pc, outcome, result, before,  (* See CoupledExecution *)
  operator,  (* whether it answers from its arguments alone, and the decoder *)
  answers,   (* the answers such an operator has given, by its arguments     *)
  given,     (* the caller's execution while a check is in progress          *)
  job,       (* the check in progress                                        *)
  report,    (* what the check returned                                      *)
  observed,  (* the report the caller presents for validation                *)
  verdict,   (* what validation returned                                     *)
  witness    (* how the check ended (history variable)                       *)

(* The execution whose calls these are; the harness keeps no checkpoint but *)
(* the one it encodes.                                                      *)
Exec == INSTANCE CoupledExecution WITH checkpoints <- {}

(* What CoupledExecution assumes of the constants they share.               *)
ASSUME ExecutionAssumption ==
  Exec!StepAssumption /\ Exec!LogAssumption /\ Exec!StateAssumption /\ Exec!FlatAssumption

clone    == <<phase, historyLimit, time, step, committed, trial, history, reply,
              integrator, refusals, pc, outcome, result, before>>
harness  == <<given, job, report, observed, verdict, witness>>
vars     == <<clone, operator, answers, harness>>

Blocks == 1 .. NBlocks

----------------------------------------------------------------------------
(* Executions as values: clone, drop, and the bytes of a checkpoint.        *)

Execution ==
  [phase |-> phase, historyLimit |-> historyLimit, time |-> time, step |-> step,
   committed |-> committed, trial |-> trial, history |-> history,
   integrator |-> integrator, refusals |-> refusals]

(* A clone of an execution with no call in progress.                        *)
Load(e) ==
  /\ phase' = e.phase
  /\ historyLimit' = e.historyLimit
  /\ time' = e.time
  /\ step' = e.step
  /\ committed' = e.committed
  /\ trial' = e.trial
  /\ history' = e.history
  /\ reply' = "Ok"
  /\ integrator' = e.integrator
  /\ refusals' = e.refusals
  /\ pc' = "idle"
  /\ outcome' = Exec!NoOutcome
  /\ result' = "None"
  /\ before' = None

(* What a CoupledCheckpoint of an execution holds.                          *)
Bytes(e) ==
  [ownOperator |-> TRUE,
   state |-> [ownLayout |-> TRUE, historyLimit |-> e.historyLimit, time |-> e.time,
              step |-> e.step, committed |-> e.committed, history |-> e.history],
   integrator |-> e.integrator]

CanonicalFlat(f) == \A b \in Blocks : f[b] # NegZero

(* Mesh, quadrature, basis, constraints and stored inputs of every          *)
(* realization are finite and no negative zeros.                            *)
CanonicalRealizations == \A r \in Range(Realizations) : r.canonical

(* checkpoint_bytes: the checkpoint can be taken, and no value in it or in  *)
(* a realization is a negative zero (values of a checkpoint are finite).    *)
Encodable(e) ==
  /\ e.phase = "Committed"
  /\ Exec!PairValid(e.committed, e.history, e.time, e.step, e.integrator)
  /\ \A i \in DOMAIN e.committed : e.committed[i] # None => e.committed[i].val # NegZero
  /\ \A b \in Blocks : \A k \in DOMAIN e.history[b] : e.history[b][k].val # NegZero
  /\ CanonicalFlat(e.integrator.values)
  /\ e.integrator.previous # None => CanonicalFlat(e.integrator.previous)
  /\ CanonicalRealizations

(* Mutant: the checkpoint comes back without its histories.                 *)
DecodedForgetful(e) ==
  [Bytes(e) EXCEPT !.state.history = [b \in Blocks |-> <<>>]]

(* What the decoder makes of a vector, and of a flat vector.                *)
Read(v)    == IF v = None THEN None ELSE [v EXCEPT !.val = operator.parse[@]]
ReadAll(f) == IF f = None THEN None ELSE [b \in Blocks |-> operator.parse[f[b]]]

(* The checkpoint, encoded and decoded.                                     *)
Decoded(e) ==
  [ownOperator |-> TRUE,
   state |->
     [ownLayout |-> TRUE, historyLimit |-> e.historyLimit, time |-> e.time, step |-> e.step,
      committed |-> [i \in DOMAIN e.committed |-> Read(e.committed[i])],
      history |-> [b \in Blocks |-> [k \in DOMAIN e.history[b] |-> Read(e.history[b][k])]]],
   integrator |->
     [values |-> ReadAll(e.integrator.values), time |-> e.integrator.time,
      acceptedSteps |-> e.integrator.acceptedSteps,
      previous |-> ReadAll(e.integrator.previous),
      previousStep |-> e.integrator.previousStep]]

(* Equality of numbers: the two zeros are equal.                            *)
Number(v)         == IF v = NegZero THEN Zero ELSE v
SameNumbers(f, g) == \A b \in Blocks : Number(f[b]) = Number(g[b])

----------------------------------------------------------------------------
(* FinitumVerificationSource::validate_for.  An entry of the evidence is a  *)
(* report of Finitum with the identity of a realization, whether it is an   *)
(* assembly-based agreement or a nodal patch, whether it validates against  *)
(* the realization and whether it was accepted.                             *)

(* The first realization with the identity, 0 if there is none.             *)
Position(identity) == SelectInSeq(Realizations, LAMBDA r : r.identity = identity)

Misfit(entry) ==
  \/ Position(entry.identity) = 0
  \/ /\ entry.kind = "Agreement"
     /\ Realizations[Position(entry.identity)].kind = "ReducedSystem"
  \/ ~entry.valid

(* Every entry is recomputed, the first misfit ends it.                     *)
ValidateFor(evidence) ==
  [bound    |-> /\ Realizations # <<>>
                /\ \A e \in Range(evidence) : ~Misfit(e)
                /\ {Position(e.identity) : e \in Range(evidence)} = DOMAIN Realizations,
   accepted |-> \A e \in Range(evidence) : e.accepted]

----------------------------------------------------------------------------
(* Attempts.                                                                *)

NoJob == [stage |-> "none"]

(* The caller, the steps to accept and the probes have configurations of    *)
(* their own.                                                               *)
Config == IF job = NoJob THEN "caller" ELSE IF job.stage = "probing" THEN "probe" ELSE "accept"

(* A pure operator gives the same answer to the same question.              *)
Remember ==
  IF pc = "attempting" /\ operator.pure
  THEN LET question == [integrator |-> integrator, size |-> outcome.size, config |-> Config]
       IN  IF question \in DOMAIN answers
           THEN outcome' = answers[question] /\ UNCHANGED answers
           ELSE answers' = [q \in DOMAIN answers \cup {question} |->
                              IF q = question THEN outcome' ELSE answers[q]]
  ELSE UNCHANGED answers

Run ==
  /\ Exec!Proceed
  /\ Remember
  /\ UNCHANGED <<operator, harness>>

----------------------------------------------------------------------------
(* The caller and its own execution.                                        *)

Prepare ==
  /\ Exec!Prepare \/ Exec!Create
  /\ UNCHANGED <<operator, answers, harness>>

Step ==
  /\ job = NoJob
  /\ report = None
  /\ step < MaxPrior
  /\ Len(refusals) < MaxPrior
  /\ \E h \in StepSizes : Exec!AttemptStep(h)
  /\ UNCHANGED <<operator, answers, harness>>

----------------------------------------------------------------------------
(* What a check returns goes to the caller, or to require_report when the   *)
(* check is made to validate the report o.                                  *)

(* Mutant: only the verdicts are compared.                                  *)
RequireVerdict(o, r) ==
  IF o.passed = r.passed
  THEN [validated |-> TRUE, accepted |-> o.passed]
  ELSE [validated |-> FALSE]

RequireReport(o, r) ==
  IF o = r
  THEN [validated |-> TRUE, accepted |-> o.passed]
  ELSE [validated |-> FALSE]

Answer(o, r) ==
  IF o = None
  THEN report' = r /\ UNCHANGED verdict
  ELSE verdict' = RequireReport(o, r) /\ UNCHANGED report

----------------------------------------------------------------------------
(* The start of a check.                                                    *)

FirstStage(call) ==
  CASE call.check = "Rollback" -> "probing"
    [] call.check = "Restart"  -> "continuous"
    [] call.check = "History"  -> "accepting"

Attempts(call, stage) ==
  CASE stage \in {"continuous", "accepting"} -> call.total
    [] stage = "source"    -> call.split
    [] stage = "restarted" -> call.total - call.split
    [] OTHER -> 1

(* The refusals before any work, in their order.                            *)
RefusalOf(request) ==
  LET call == request.call
  IN  IF ~call.canonical THEN "Input"
      ELSE IF call.check = "Restart" /\ ~(0 < call.split /\ call.split < call.total) THEN "Sequence"
      ELSE IF call.check = "History" /\ call.total = 0 THEN "Sequence"
      ELSE IF ~Encodable(Execution) THEN "Source"
      ELSE IF ~ValidateFor(request.evidence).bound THEN "Evidence"
      ELSE "None"

Refusal(request, code) ==
  [check |-> "Refused", request |-> request, code |-> code]

NewJob(request) ==
  [request |-> request, accepted |-> ValidateFor(request.evidence).accepted,
   stage |-> FirstStage(request.call),
   left |-> Attempts(request.call, FirstStage(request.call)),
   calling |-> FALSE, previous |-> None, synchronized |-> TRUE, depths |-> None,
   continuous |-> None, saved |-> None, primed |-> Execution,
   states |-> <<integrator.values>>, restarted |-> <<integrator.values>>]

Open(request, o) ==
  /\ pc = "idle"
  /\ job = NoJob
  /\ observed' = o
  /\ IF RefusalOf(request) = "None"
     THEN /\ job' = NewJob(request)
          /\ given' = Execution
          /\ UNCHANGED <<report, verdict>>
     ELSE /\ Answer(o, Refusal(request, RefusalOf(request)))
          /\ UNCHANGED <<job, given>>
  /\ UNCHANGED <<clone, operator, answers, witness>>

(* Bound: a caller asks for one check.                                      *)
Begin(request) ==
  /\ report = None
  /\ Open(request, None)

(* validate, a method of the report that is presented, makes the check      *)
(* again from the same source and inputs.  Bound: reports over an operator  *)
(* that is not pure are not validated.                                      *)
Validate(presented) ==
  /\ report # None
  /\ report.check # "Refused"
  /\ observed = None
  /\ presented # None
  /\ presented.check = report.check
  /\ operator.pure
  /\ Open(report.request, presented)

----------------------------------------------------------------------------
(* The end of a check: the clone is dropped.                                *)

Conclude(r) ==
  /\ job' = NoJob
  /\ witness' = [end |-> Execution, stage |-> job.stage, continuous |-> job.continuous]
  /\ Load(given)
  /\ given' = None
  /\ Answer(observed, r)
  /\ UNCHANGED <<operator, answers, observed>>

Refused(code) == Conclude(Refusal(job.request, code))

----------------------------------------------------------------------------
(* The stages.                                                              *)

Working(stages) == job.stage \in stages /\ pc = "idle"
Stepping        == {"continuous", "source", "restarted", "accepting"}

Attempt ==
  /\ Working(Stepping \cup {"probing"})
  /\ ~job.calling
  /\ job.left > 0
  /\ Exec!AttemptStep(job.request.call.size)
  /\ job' = [job EXCEPT !.calling = TRUE, !.previous = integrator.values]
  /\ UNCHANGED <<operator, answers, given, report, observed, verdict, witness>>

(* accept_step returned: the trajectories and the newest level of history   *)
(* are compared with what the check has seen.                               *)
Stepped ==
  /\ Working(Stepping)
  /\ job.calling
  /\ \/ /\ result = "Accepted"
        /\ job' =
             [job EXCEPT
                !.calling = FALSE,
                !.left = @ - 1,
                !.states = IF job.stage = "continuous" THEN Append(@, integrator.values) ELSE @,
                !.restarted = IF job.stage \in {"source", "restarted"}
                              THEN Append(@, integrator.values) ELSE @,
                !.synchronized = @ /\ (job.stage = "accepting" =>
                    /\ \A b \in Blocks : history[b] # <<>>
                    /\ SameNumbers(Exec!HistoryVector(history), job.previous))]
        /\ UNCHANGED <<clone, operator, answers, given, report, observed, verdict, witness>>
     \/ /\ result # "Accepted"
        /\ Refused("Attempt")

Finished(stage) == Working({stage}) /\ ~job.calling /\ job.left = 0

Enter(stage) == [job EXCEPT !.stage = stage, !.left = Attempts(job.request.call, stage)]

(* The clone that ran on is kept, and the caller's execution cloned anew.   *)
KeepContinuous ==
  /\ Finished("continuous")
  /\ job' = [Enter("source") EXCEPT !.continuous = Execution]
  /\ Load(given)
  /\ UNCHANGED <<operator, answers, given, report, observed, verdict, witness>>

Encode ==
  /\ Finished("source")
  /\ \/ /\ Encodable(Execution)
        /\ job' = [Enter("restoring") EXCEPT !.saved = Decoded(Execution)]
        /\ Load(given)
        /\ UNCHANGED <<operator, answers, given, report, observed, verdict, witness>>
     \/ /\ ~Encodable(Execution)
        /\ Refused("Source")

Resume ==
  /\ Working({"restoring"})
  /\ \/ /\ Exec!Restorable(job.saved)
        /\ Exec!Restore(job.saved)
        /\ job' = Enter("restarted")
        /\ UNCHANGED <<operator, answers, given, report, observed, verdict, witness>>
     \/ /\ ~Exec!Restorable(job.saved)
        /\ Refused("Restore")

(* Mutant: the depth is expected to be the number of steps.                 *)
ExpectedDepthUncapped(accepted) == accepted

ExpectedDepth(accepted) == IF accepted < historyLimit THEN accepted ELSE historyLimit

(* The depths of the histories, before the attempt meant to be rejected.    *)
Prime ==
  /\ Finished("accepting")
  /\ \/ /\ Encodable(Execution)
        /\ job' = [Enter("probing") EXCEPT
                     !.primed = Execution,
                     !.depths = [b \in Blocks |-> Len(history[b])],
                     !.synchronized = @ /\ \A b \in Blocks :
                         Len(history[b]) = ExpectedDepth(job.request.call.total)]
        /\ UNCHANGED <<clone, operator, answers, given, report, observed, verdict, witness>>
     \/ /\ ~Encodable(Execution)
        /\ Refused("Source")

----------------------------------------------------------------------------
(* The reports.  Digests are left out: they are functions of what they      *)
(* digest, and every value here can be digested.                            *)

Binding == [sources |-> job.request.evidence, accepted |-> job.accepted]

Disposition ==
  CASE result = "Accepted" -> "UnexpectedAccepted"
    [] result = "Rejected" -> "Rejected"
    [] OTHER -> "SolverError"

(* Mutant: the last entry of the log is taken whatever the error was.       *)
LastLogged == IF refusals = <<>> THEN None ELSE Last(refusals)

(* attempt_refusal: the record the execution logged for the attempt.        *)
AttemptRefusal == IF result = "Refused" THEN Last(refusals) ELSE None

RollbackReport ==
  [check |-> "Rollback", request |-> job.request, binding |-> Binding,
   disposition |-> Disposition, refusal |-> AttemptRefusal,
   before |-> Bytes(given), after |-> Bytes(Execution),
   identical |-> Bytes(given) = Bytes(Execution),
   passed |-> /\ job.accepted
              /\ Disposition # "UnexpectedAccepted"
              /\ Bytes(given) = Bytes(Execution)]

HistoryReport ==
  [check |-> "History", request |-> job.request, binding |-> Binding,
   depths |-> job.depths, synchronized |-> job.synchronized,
   disposition |-> Disposition, refusal |-> AttemptRefusal,
   before |-> Bytes(job.primed), after |-> Bytes(Execution),
   identical |-> Bytes(job.primed) = Bytes(Execution),
   passed |-> /\ job.accepted
              /\ job.synchronized
              /\ Disposition # "UnexpectedAccepted"
              /\ Bytes(job.primed) = Bytes(Execution)]

(* The error norms of the two trajectories vanish where they agree.         *)
Agree == \A k \in DOMAIN job.states : SameNumbers(job.states[k], job.restarted[k])

RestartReport ==
  [check |-> "Restart", request |-> job.request, binding |-> Binding,
   initial |-> Bytes(given), agree |-> Agree,
   continuous |-> Bytes(job.continuous), restarted |-> Bytes(Execution),
   identical |-> Bytes(job.continuous) = Bytes(Execution),
   passed |-> job.accepted /\ Agree /\ Bytes(job.continuous) = Bytes(Execution)]

Probed ==
  /\ Working({"probing"})
  /\ job.calling
  /\ IF ~Encodable(Execution) THEN Refused("Source")
     ELSE IF job.request.call.check = "Rollback" THEN Conclude(RollbackReport)
     ELSE Conclude(HistoryReport)

Restarted ==
  /\ Finished("restarted")
  /\ IF Encodable(job.continuous) /\ Encodable(Execution)
     THEN Conclude(RestartReport)
     ELSE Refused("Source")

----------------------------------------------------------------------------
Init ==
  /\ Exec!Init
  /\ operator \in [pure : BOOLEAN, parse : Parses]
  /\ answers = <<>>
  /\ given = None
  /\ job = NoJob
  /\ report = None
  /\ observed = None
  /\ verdict = None
  /\ witness = None

Next ==
  \/ Prepare
  \/ Step
  \/ Run
  \/ \E request \in Requests : Begin(request)
  \/ \E presented \in Presented(report) : Validate(presented)
  \/ Attempt
  \/ Stepped
  \/ KeepContinuous
  \/ Encode
  \/ Resume
  \/ Prime
  \/ Probed
  \/ Restarted

Spec == Init /\ [][Next]_vars

----------------------------------------------------------------------------
(* Correctness.  A check has returned when there is a report and no job; the*)
(* execution at hand is the caller's again, as the check found it.          *)

Reported(check) == report # None /\ job = NoJob /\ report.check = check

(* Evidence that binds, as the doc of FinitumVerificationSource states it:  *)
(* every report names a realization the operator is built over, and is one  *)
(* of a kind that realization can have, and every realization is covered.   *)
Covering(evidence) ==
  /\ Realizations # <<>>
  /\ \A e \in Range(evidence) :
       /\ e.valid
       /\ \E k \in DOMAIN Realizations :
            /\ Realizations[k].identity = e.identity
            /\ e.kind = "Agreement" => Realizations[k].kind = "Plan"
  /\ \A k \in DOMAIN Realizations : \E e \in Range(evidence) : e.identity = Realizations[k].identity

Supported(evidence) ==
  Covering(evidence) /\ \A e \in Range(evidence) : e.accepted

RoundTrips == \A v \in Vals : operator.parse[v] = v

(* check_rollback_identity: an attempt that is not accepted never shows in  *)
(* the bytes of the checkpoint, the report passes exactly if the attempt    *)
(* moved no step and all the evidence was accepted, and the refusal it      *)
(* tells of is one this attempt has logged, not one that was in the log.    *)
RollbackVerdict ==
  Reported("Rollback") /\ verdict = None =>
    LET end == witness.end
    IN  /\ end.step = step => report.identical
        /\ report.passed <=> end.step = step /\ Supported(report.request.evidence)
        /\ report.refusal # None <=> Len(end.refusals) > Len(refusals)
        /\ report.refusal # None => report.refusal = Last(end.refusals)

(* check_restart_trajectory: a checkpoint that has been encoded and decoded *)
(* can always be restored.  Over an operator without hidden state and a     *)
(* decoder that is exact the restarted execution makes every step the other *)
(* one made and ends with the same bytes, so that the report passes exactly *)
(* if the evidence was accepted.                                            *)
RestartVerdict ==
  /\ report # None => report.check # "Refused" \/ report.code # "Restore"
  /\ operator.pure /\ RoundTrips /\ verdict = None =>
       /\ report # None /\ report.check = "Refused" /\ report.code = "Attempt" =>
            witness.stage \in {"continuous", "accepting"}
       /\ Reported("Restart") =>
            report.passed <=> Supported(report.request.evidence)

(* check_history_and_rejection: the report passes exactly if the evidence   *)
(* was accepted, the probe was not, and the depth of the history after the  *)
(* steps is the one a fresh execution would have.                           *)
HistoryVerdict ==
  Reported("History") /\ verdict = None =>
    LET n           == report.request.call.total
        depth(k)    == IF k < historyLimit THEN k ELSE historyLimit
    IN  report.passed <=>
          /\ Supported(report.request.evidence)
          /\ witness.end.step = step + n
          /\ \A b \in Blocks : depth(Len(history[b]) + n) = depth(n)

(* A report over an operator without hidden state validates against the same*)
(* source and inputs, and no other report does: the digest and every number *)
(* are recomputed.  A check leaves nothing behind that could change it.     *)
ReportsReproduce ==
  verdict # None =>
    /\ verdict.validated <=> observed = report
    /\ verdict.validated => verdict.accepted = report.passed

(* Evidence with a report for every realization, each naming one of them, is*)
(* never refused: "every realization its operator is built over to be       *)
(* covered by at least one report, and every report to name one of them".   *)
CoveringEvidenceBinds ==
  report # None /\ report.check = "Refused" /\ report.code = "Evidence" =>
    ~Covering(report.request.evidence)
=============================================================================
