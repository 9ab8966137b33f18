--------------------------- MODULE MCVerification ---------------------------
(* Small instances of Verification for TLC. *)
EXTENDS Verification

CONSTANTS va, vb, vz

MCBlockLen == [b \in Blocks |-> 1]
MCDelivered(c) == {}

(* An exact decoder, and one that is off in the last place of vb.            *)
Exact    == [v \in Vals |-> v]
Inexact  == [Exact EXCEPT ![vb] = va]
MCParses == {Exact, Inexact}

Entry(identity, kind, valid, accepted) ==
  [identity |-> identity, kind |-> kind, valid |-> valid, accepted |-> accepted]

Realization(identity, kind) == [identity |-> identity, kind |-> kind, canonical |-> TRUE]

TwoRealizations == <<Realization("a", "Plan"), Realization("b", "ReducedSystem")>>
Twins == <<Realization("b", "ReducedSystem"), Realization("b", "ReducedSystem")>>

(* Evidence that is accepted, that is not, and that does not bind.           *)
Good   == <<Entry("a", "Agreement", TRUE, TRUE), Entry("b", "Patch", TRUE, TRUE)>>
Failed == <<Entry("b", "Patch", TRUE, FALSE), Entry("b", "Patch", TRUE, TRUE),
            Entry("a", "Patch", TRUE, TRUE)>>
Unbound ==
  {<<>>,
   <<Entry("a", "Agreement", TRUE, TRUE)>>,
   <<Entry("a", "Agreement", TRUE, TRUE), Entry("b", "Agreement", TRUE, TRUE)>>,
   <<Entry("a", "Patch", FALSE, TRUE), Entry("b", "Patch", TRUE, TRUE)>>,
   Good \o <<Entry("c", "Patch", TRUE, TRUE)>>}

Call(check, total, split, canonical) ==
  [check |-> check, size |-> 1, total |-> total, split |-> split, canonical |-> canonical]
Request(call, evidence) == [call |-> call, evidence |-> evidence]

Rollback == Call("Rollback", 1, 0, TRUE)
MCRequests ==
  {Request(Rollback, e) : e \in {Good, Failed} \cup Unbound}
  \cup {Request(Call("Restart", 3, 1, TRUE), e) : e \in {Good, Failed}}
  \cup {Request(Call("History", n, 0, TRUE), Good) : n \in {1, 2}}
  \cup {Request(Call("History", 1, 0, TRUE), Failed)}
  \cup {Request(c, Good) : c \in {Call("Rollback", 1, 0, FALSE), Call("Restart", 2, 2, TRUE),
                                  Call("Restart", 2, 0, TRUE), Call("History", 0, 0, TRUE)}}

TwinRequests == {Request(Rollback, <<Entry("b", "Patch", TRUE, TRUE)>>)}

MCPresented(r) ==
  IF r = None \/ r.check = "Refused" THEN {}
  ELSE {r, [r EXCEPT !.passed = ~@], [r EXCEPT !.identical = ~@]}
=============================================================================
