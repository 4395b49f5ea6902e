--------------------------- MODULE GateRefinement ---------------------------
(***************************************************************************)
(* Gate implements Release: an approval is given or refused when the line  *)
(* of its decision is in the chain, and a run is one call of the executor. *)
(***************************************************************************)
EXTENDS Gate

EffectsProposed ==
    [n \in Submissions |-> [id |-> IdOf(n), auto |-> ClassOf(n) = "auto"]]

DecidedAs(d) ==
    {a \in Submissions : \E i \in Lines("approval.decided", a) :
                            ledger[i].body.decision = d}

ApprovalsGiven   == DecidedAs("approve")
ApprovalsRefused == DecidedAs("reject")

RunsMade == [k \in DOMAIN ran |-> <<ran[k].n, ran[k].a>>]

Promise == INSTANCE Release WITH
    proposed <- EffectsProposed, approved <- ApprovalsGiven,
    rejected <- ApprovalsRefused, runs <- RunsMade

\* Every step of the gate, faulty or not, is a step of the promise or none
\* (gate.py, "the only path from queued to executed").
KeepsPromise == Promise!Spec
=============================================================================
