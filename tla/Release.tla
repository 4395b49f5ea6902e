------------------------------ MODULE Release ------------------------------
(***************************************************************************)
(* What the gate promises its callers: an effect that does not execute on  *)
(* its own runs only by an approval for its id, every approval and every   *)
(* auto-executing effect is good for one run, and an approval is decided   *)
(* once, for good: what was rejected is never approved afterwards.  The    *)
(* chain, the queue, its cache, Relay, crashes and failed writes are all   *)
(* invisible here.                                                         *)
(***************************************************************************)
EXTENDS Naturals, Sequences

CONSTANT Ids          \* effect ids

VARIABLES
    proposed,         \* the effects, in the order proposed
    approved,         \* the effects whose approval was given
    rejected,         \* the effects whose approval was refused
    runs              \* the runs, in order, as <<effect run, approval or 0>>

vars == <<proposed, approved, rejected, runs>>

Effects  == DOMAIN proposed
Open     == Effects \ (approved \cup rejected)
Runs     == {runs[k] : k \in DOMAIN runs}
Spent(a) == \E n \in Effects : <<n, a>> \in Runs

Propose(id, auto) ==
    /\ proposed' = Append(proposed, [id |-> id, auto |-> auto])
    /\ UNCHANGED <<approved, rejected, runs>>

Approve(a) ==
    /\ a \in Open
    /\ approved' = approved \cup {a}
    /\ UNCHANGED <<proposed, rejected, runs>>

Reject(a) ==
    /\ a \in Open
    /\ rejected' = rejected \cup {a}
    /\ UNCHANGED <<proposed, approved, runs>>

RunAuto(n) ==
    /\ proposed[n].auto
    /\ <<n, 0>> \notin Runs
    /\ runs' = Append(runs, <<n, 0>>)
    /\ UNCHANGED <<proposed, approved, rejected>>

RunReleased(n, a) ==
    /\ a \in approved
    /\ proposed[a].id = proposed[n].id
    /\ ~Spent(a)
    /\ runs' = Append(runs, <<n, a>>)
    /\ UNCHANGED <<proposed, approved, rejected>>

Init == proposed = <<>> /\ approved = {} /\ rejected = {} /\ runs = <<>>

Next ==
    \/ \E id \in Ids, auto \in BOOLEAN : Propose(id, auto)
    \/ \E n \in Effects : RunAuto(n)
    \/ \E a \in Effects : Approve(a) \/ Reject(a)
    \/ \E n, a \in Effects : RunReleased(n, a)

Spec == Init /\ [][Next]_vars
=============================================================================
