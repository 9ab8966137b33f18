---------------------- MODULE ConsistentInitialization ----------------------
(***************************************************************************)
(* ConsistentInitialization: rows of a DAE are differential or algebraic.  *)
(* An initial state is consistent if there is a state rate under which     *)
(* every row vanishes; the rate is solved for on the differential rows and *)
(* the algebraic rows are tested.  residual[rate] is the residual of an    *)
(* operator at the initial state; rows count from 0.                       *)
(***************************************************************************)
EXTENDS Integers, Sequences, SequencesExt

CONSTANT RateValues   (* The components a rate may have.                     *)

Differential == "Differential"
Algebraic    == "Algebraic"

Rows(mask, kind) == {i \in 0 .. Len(mask) - 1 : mask[i + 1] = kind}

(* What Newton (Methodus) may converge to, its unknown being the rate of    *)
(* the differential rows, padded with zeros, and its residual these rows.   *)
ReducedZeros(residual, mask) ==
  LET differential == Rows(mask, Differential)
      padded(reduced) ==
        [i \in 0 .. Len(mask) - 1 |-> IF i \in differential THEN reduced[i] ELSE 0]
  IN  {rate \in {padded(reduced) : reduced \in [differential -> RateValues]} :
         \A i \in differential : residual[rate][i] = 0}

(* Mutant: the test ends with the first algebraic row.                      *)
FirstAlgebraicVanishes(values, mask) ==
  \A i \in Rows(mask, Algebraic) :
    (\A j \in Rows(mask, Algebraic) : i <= j) => values[i] = 0

AlgebraicVanish(values, mask) == \A i \in Rows(mask, Algebraic) : values[i] = 0

(* solve_consistent_state_rate_for: everything it may return.  Newton may   *)
(* also fail: it need not converge, and the mass may be singular.           *)
StateRates(residual, mask) ==
  {[reply |-> "Solve"]}
  \cup {IF AlgebraicVanish(residual[rate], mask)
        THEN [reply |-> "Ok", rate |-> rate]
        ELSE [reply |-> "InvalidCoupling"] : rate \in ReducedZeros(residual, mask)}

(* make_initial_state_consistent_for with a mask recorded: the replies it   *)
(* may give.  It never adjusts the state.                                   *)
Initializations(residual, mask, policy) ==
  IF policy = "Always" \/ Algebraic \in Range(mask)
  THEN {answer.reply : answer \in StateRates(residual, mask)}
  ELSE {"Ok"}
=============================================================================
