------------------------------- MODULE MCGate -------------------------------
(***************************************************************************)
(* Instances of Gate for TLC.                                              *)
(***************************************************************************)
EXTENDS GateRefinement

CONSTANTS e1, e2, s1, shed, notify, review, grant, text

P(id, type, claim, sig) ==
    [id |-> id, effect_type |-> type, claim |-> claim, payload_role |-> "none",
     signal_id |-> sig, description |-> text]

D(dec, role, sub, att) ==
    [decision |-> dec, caller_role |-> role, subject |-> sub, attestation |-> att]

\* breaker's registry row, one held by rule, two that execute at once.
MCRegistry == [t \in {shed, notify, review, grant} |->
                 IF t = shed THEN "irreversible"
                 ELSE IF t = review THEN "held" ELSE "auto"]

Signal1 == {[id |-> s1, role |-> "plain"]}

\* Two irreversible effects with the same type and description, and docket's
\* untyped, auto-executing route under the id of one of them; each may be posted
\* twice.
TwinProposals  == {P(e, shed, "irreversible", s1) : e \in {e1, e2}}
MixedProposals == TwinProposals \cup {P(e2, None, "reversible", None)}

\* One effect id under two classes: which of them runs is the last posted.
ReusedProposals == {P(e1, shed, "irreversible", s1), P(e1, review, "none", s1)}

\* One held by its rule, and a grant that executes at once unless its signal
\* confers an escalating role.
GrantProposals == {P(e1, review, "none", s1), P(e2, grant, "none", s1)}
SignalOfRole   == {[id |-> s1, role |-> r] : r \in {"plain", "escalating"}}

Attested  == D("approve", "human", "person", "full")
Rejection == D("reject", "human", "person", "none")
ByAgent   == D("approve", "agent", "agent", "full")
NoIssuer  == D("approve", "human", "person", "no-issuer")

HumanDecisions  == {Attested, Rejection}
SignedDecisions == {Attested, Rejection, NoIssuer}
MCDecisions     == SignedDecisions \cup {ByAgent}
=============================================================================
