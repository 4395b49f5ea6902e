----------------------------- MODULE GridWatch -----------------------------
(***************************************************************************)
(* breaker's GridWatch and the gate it hands its dispatches to: intake of  *)
(* readings in any order, one proposal per divergence, withdrawal, the     *)
(* relay of a decision, refresh, and a dispatch once the gate released it. *)
(*                                                                         *)
(* breaker's handlers block its only event loop, so within breaker each is *)
(* one step.  What can go wrong lies between it and the gate: requests and *)
(* answers are lost, people decide at the gate's own console, and breaker  *)
(* restarts with empty memory.  A reading's window is reduced to the       *)
(* verdict the active substrate gives it.                                  *)
(***************************************************************************)
EXTENDS Naturals, Sequences, FiniteSets

CONSTANTS
    Units,        \* battery units
    Ticks,        \* ticks readings may carry, in any order
    Verdicts,     \* what a window may be judged: diverged, clear, abstained
    Classes,      \* what the gate's registry may say of dispatch.load_shed
    MaxPending,   \* Gate.max_pending_duplicates
    Refreshes,    \* somebody calls GridWatch.refresh; the service never does
    MaxPosts,     \* bound: approvals at the gate
    MaxFaults,    \* bound: requests and answers lost, executors that fail
    MaxRestarts   \* bound: breaker restarts

ASSUME GridAssumption ==
    /\ Ticks \subseteq Nat \ {0}
    /\ Verdicts \subseteq {"diverged", "clear", "abstained"}
    /\ Classes \subseteq {"auto", "held", "irreversible"}
    /\ MaxPending \in Nat \ {0}
    /\ Refreshes \in BOOLEAN
    /\ MaxPosts \in Nat /\ MaxFaults \in Nat /\ MaxRestarts \in Nat

VARIABLES
    recovered,    \* unit -> the latest tick at which its window did not diverge
    proposals,    \* GridWatch.proposals in the order they were made
    shed,         \* effect -> dispatches made of it, in all of breaker's lives
    effects,      \* the gate's record: effect -> status
    approvals,    \* the gate's queue
    faults, restarts

gate == <<effects, approvals>>
vars == <<recovered, proposals, shed, gate, faults, restarts>>

\* A proposal, its effect and its signal share one key, unit:tick:kind.
Effects  == Units \X Ticks
Statuses == {"proposed", "waiting_at_gate", "approved", "rejected", "withdrawn"}

IsOpen(p) == p.status \in {"proposed", "waiting_at_gate"}

OpenFor(u) == {i \in DOMAIN proposals : proposals[i].effect[1] = u /\ IsOpen(proposals[i])}

\* Mutant: a window of any tick counts as a recovery.
ClearedByAny(u, t) ==
    {i \in OpenFor(u) : \A j \in OpenFor(u) : i <= j}

\* The proposal a window at tick t may withdraw: the unit's first open one, if
\* it is of an earlier tick.
Cleared(u, t) ==
    {i \in OpenFor(u) : t > proposals[i].effect[2] /\ \A j \in OpenFor(u) : i <= j}

\* Mutant: only an open proposal counts as having been made.
KnownOpen(e) == \E i \in DOMAIN proposals : proposals[i].effect = e /\ IsOpen(proposals[i])

Known(e) == \E i \in DOMAIN proposals : proposals[i].effect = e

\* Mutant: another tick's open proposal does not hold a new one back.
NewAlways(e) == ~Known(e)

IsNew(e) == ~Known(e) /\ OpenFor(e[1]) = {}

-----------------------------------------------------------------------------
(* The gate                                                                *)

Pending(e) == {a \in DOMAIN approvals : approvals[a] = [effect |-> e, state |-> "pending"]}

Enqueued(e) ==
    /\ effects' = [effects EXCEPT ![e] = "queued"]
    /\ approvals' = Append(approvals, [effect |-> e, state |-> "pending"])

CanPost(e) == Cardinality(Pending(e)) < MaxPending /\ Len(approvals) < MaxPosts

\* Gate.decide on a pending approval; an executor that fails, or that the
\* guardrail stops, leaves the effect queued with its approval spent.
Decided(a, d) ==
    LET e == approvals[a].effect IN
    /\ approvals[a].state = "pending"
    /\ approvals' = [approvals EXCEPT ![a].state = IF d = "approve" THEN "approved" ELSE "rejected"]
    /\ effects' = [effects EXCEPT ![e] = IF d = "approve" THEN "executed" ELSE "rejected"]

Blocked(a) ==
    /\ approvals[a].state = "pending"
    /\ approvals' = [approvals EXCEPT ![a].state = "approved"]
    /\ effects' = [effects EXCEPT ![approvals[a].effect] = "queued"]

Decisions == {"approve", "reject"}

\* Somebody decides at the gate's own surface.
DecideAtGate(a) ==
    /\ \E d \in Decisions : Decided(a, d)
    /\ UNCHANGED <<recovered, proposals, shed, faults, restarts>>

-----------------------------------------------------------------------------
(* Intake                                                                  *)

Judged(u, t, v) ==
    recovered' = IF v # "diverged" /\ t > recovered[u]
                 THEN [recovered EXCEPT ![u] = t] ELSE recovered

\* ingest of a window that does not diverge, with nothing to withdraw.
Quiet(u, t, v) ==
    /\ v # "diverged"
    /\ Cleared(u, t) = {}
    /\ Judged(u, t, v)
    /\ UNCHANGED <<proposals, shed, gate, faults, restarts>>

\* _maybe_resolve: the gate is not told, its approval stays pending.
Withdraw(u, t, v) ==
    /\ v # "diverged"
    /\ Judged(u, t, v)
    /\ \E i \in Cleared(u, t) : proposals' = [proposals EXCEPT ![i].status = "withdrawn"]
    /\ UNCHANGED <<shed, gate, faults, restarts>>

\* _observe_divergence of a window already proposed or held back.
Reobserve(e) ==
    /\ ~IsNew(e)
    /\ Judged(e[1], e[2], "diverged")
    /\ UNCHANGED <<proposals, shed, gate, faults, restarts>>

\* Mutant: a new proposal counts as dispatched.
NewProposalCounted(e, s, a) ==
    [effect |-> e, status |-> s, approval |-> a, dispatched |-> TRUE]

NewProposal(e, s, a) == [effect |-> e, status |-> s, approval |-> a, dispatched |-> FALSE]

\* _propose: signal, judgment and effect are posted, and the gate held it.
Propose(e) ==
    /\ IsNew(e)
    /\ "irreversible" \in Classes
    /\ CanPost(e)
    /\ Judged(e[1], e[2], "diverged")
    /\ Enqueued(e)
    /\ proposals' = Append(proposals, NewProposal(e, "waiting_at_gate", Len(approvals) + 1))
    /\ UNCHANGED <<shed, faults, restarts>>

\* The gate ran the effect, or held it as a reversible one.
ProposeUnheld(e) ==
    /\ IsNew(e)
    /\ Judged(e[1], e[2], "diverged")
    /\ \/ /\ "auto" \in Classes
          /\ effects' = [effects EXCEPT ![e] = "executed"]
          /\ UNCHANGED approvals
       \/ /\ "held" \in Classes
          /\ CanPost(e)
          /\ Enqueued(e)
    /\ proposals' = Append(proposals, NewProposal(e, "proposed", 0))
    /\ UNCHANGED <<shed, faults, restarts>>

\* The gate refuses one more near-duplicate and says 429.
ProposeCapped(e) ==
    /\ IsNew(e)
    /\ Cardinality(Pending(e)) >= MaxPending
    /\ Judged(e[1], e[2], "diverged")
    /\ effects' = [effects EXCEPT ![e] = "rejected"]
    /\ UNCHANGED <<proposals, shed, approvals, faults, restarts>>

\* Mutant: a proposal is kept before the gate answered for its approval.
ProposeUnheard(e) ==
    /\ IsNew(e)
    /\ faults < MaxFaults
    /\ faults' = faults + 1
    /\ Judged(e[1], e[2], "diverged")
    /\ proposals' = Append(proposals, NewProposal(e, "waiting_at_gate", Len(approvals) + 1))
    /\ UNCHANGED <<gate, shed, restarts>>

\* No answer: breaker holds and answers 503, whether or not the effect was
\* created before the answer was lost.
ProposeUnanswered(e) ==
    /\ IsNew(e)
    /\ faults < MaxFaults
    /\ faults' = faults + 1
    /\ Judged(e[1], e[2], "diverged")
    /\ \/ UNCHANGED gate
       \/ "irreversible" \in Classes /\ CanPost(e) /\ Enqueued(e)
    /\ UNCHANGED <<proposals, shed, restarts>>

-----------------------------------------------------------------------------
(* Release                                                                 *)

\* Mutant: _dispatch_once forgets to ask whether it already did.
DispatchAgain(i) ==
    shed' = [shed EXCEPT ![proposals[i].effect] = @ + 1]

DispatchOnce(i) ==
    IF proposals[i].dispatched THEN UNCHANGED shed
    ELSE shed' = [shed EXCEPT ![proposals[i].effect] = @ + 1]

\* _apply_effect_state
Apply(i, s) ==
    \/ /\ s = "executed"
       /\ proposals' = [proposals EXCEPT ![i].status = "approved", ![i].dispatched = TRUE]
       /\ DispatchOnce(i)
    \/ /\ s # "executed"
       /\ proposals' = [proposals EXCEPT
             ![i].status = IF s = "rejected" THEN "rejected" ELSE "waiting_at_gate"]
       /\ UNCHANGED shed

\* GridWatch.decide, relayed and answered.
Decide(i) ==
    /\ proposals[i].approval # 0
    /\ \/ \E d \in Decisions : Decided(proposals[i].approval, d) /\ UNCHANGED faults
       \/ faults < MaxFaults /\ faults' = faults + 1 /\ Blocked(proposals[i].approval)
    /\ Apply(i, effects'[proposals[i].effect])
    /\ UNCHANGED <<recovered, restarts>>

\* The gate decided and its answer was lost.
DecideUnanswered(i) ==
    /\ proposals[i].approval # 0
    /\ faults < MaxFaults
    /\ faults' = faults + 1
    /\ \E d \in Decisions : Decided(proposals[i].approval, d)
    /\ UNCHANGED <<recovered, proposals, shed, restarts>>

Refresh(i) ==
    /\ Refreshes
    /\ Apply(i, effects[proposals[i].effect])
    /\ UNCHANGED <<recovered, gate, faults, restarts>>

Restart ==
    /\ restarts < MaxRestarts
    /\ restarts' = restarts + 1
    /\ proposals' = <<>>
    /\ UNCHANGED <<recovered, shed, gate, faults>>

Init ==
    /\ recovered = [u \in Units |-> 0]
    /\ proposals = <<>>
    /\ shed = [e \in Effects |-> 0]
    /\ effects = [e \in Effects |-> "none"]
    /\ approvals = <<>>
    /\ faults = 0
    /\ restarts = 0

Diverge(e) ==
    /\ "diverged" \in Verdicts
    /\ \/ Reobserve(e) \/ Propose(e) \/ ProposeUnheld(e)
       \/ ProposeCapped(e) \/ ProposeUnanswered(e)

Next ==
    \/ \E u \in Units, t \in Ticks, v \in Verdicts : Quiet(u, t, v) \/ Withdraw(u, t, v)
    \/ \E e \in Effects : Diverge(e)
    \/ \E i \in DOMAIN proposals : Decide(i) \/ DecideUnanswered(i) \/ Refresh(i)
    \/ \E a \in DOMAIN approvals : DecideAtGate(a)
    \/ Restart

Spec == Init /\ [][Next]_vars

\* The most breaker's callers could do: whoever relays a decision that went
\* unanswered relays it again, and whoever refreshes, if anybody does, refreshes
\* each proposal again and again.  Nobody has to decide at the gate, and nothing
\* has to fail.
Relayed(i)   == i \in DOMAIN proposals /\ Decide(i)
Refreshed(i) == i \in DOMAIN proposals /\ Refresh(i)
FairSpec ==
    Spec /\ \A i \in 1..(Cardinality(Effects) + 1) :
                WF_vars(Refreshed(i)) /\ WF_vars(Relayed(i))

-----------------------------------------------------------------------------
(* Properties                                                              *)

\* The values the variables take.
TypeOK ==
    /\ recovered \in [Units -> Ticks \cup {0}]
    /\ proposals \in Seq([effect : Effects, status : Statuses, approval : Nat, dispatched : BOOLEAN])
    /\ \A i \in DOMAIN proposals : proposals[i].approval \in 0..Len(approvals)
    /\ shed \in [Effects -> Nat]
    /\ effects \in [Effects -> {"none", "queued", "executed", "rejected"}]
    /\ approvals \in Seq([effect : Effects, state : {"pending", "approved", "rejected"}])
    /\ faults \in 0..MaxFaults /\ restarts \in 0..MaxRestarts

ApprovedFor(e) == {a \in DOMAIN approvals : approvals[a] = [effect |-> e, state |-> "approved"]}

\* Every dispatch has an approval of its own, given at the gate, whatever was
\* lost, refreshed or restarted (engine.py, "nothing dispatches until a
\* decision carrying a human subject comes back, and then it dispatches
\* exactly once").
DispatchesAreApproved == \A e \in Effects : shed[e] <= Cardinality(ApprovedFor(e))

\* A battery that diverges is one event (_open_proposal_for).
OneOpenPerUnit == \A u \in Units : Cardinality(OpenFor(u)) <= 1

\* A divergence seen again, in whatever order readings come, asks the gate
\* for no second approval (_idempotency_key).
OneApprovalPerEffect ==
    \A a, b \in DOMAIN approvals : approvals[a].effect = approvals[b].effect => a = b

\* While an approval waits for a battery, a second one is asked for only if a
\* window judged at a later tick said the first divergence was over: a late
\* reading is not a recovery (_maybe_resolve, "the same flood this fix exists
\* to stop, from the other direction").
NextEventAfterRecovery ==
    \A a, b \in DOMAIN approvals :
        LET first == approvals[a].effect IN
        (a < b /\ approvals[a].state = "pending" /\ approvals[b].effect[1] = first[1])
        => recovered[first[1]] > first[2]

\* However often and through whomever breaker learns of a release, a relayed
\* decision, a refresh or a second approval of the same effect, a proposal it
\* calls approved was dispatched, and without a restart exactly once
\* (breaker/README.md:64, "the dispatch executes exactly once however many times
\* the release is observed"; _dispatch_once).
ObservedOnce ==
    /\ \A i \in DOMAIN proposals :
          proposals[i].status = "approved" => shed[proposals[i].effect] > 0
    /\ restarts = 0 => \A e \in Effects : shed[e] <= 1

\* What the gate released for a proposal breaker has, and does not take back
\* through a second approval of the same effect, gets dispatched (engine.py:9,
\* "nothing dispatches until a decision carrying a human subject comes back, and
\* then it dispatches exactly once").  It does not: only refresh learns of a
\* release whose answer was lost or that was given at the gate, and the service
\* never calls it.
ReleasesAreDispatched ==
    \A e \in Effects :
        (Known(e) /\ effects[e] = "executed")
        ~> (shed[e] > 0 \/ effects[e] # "executed" \/ restarts > 0)

\* The variables have their types, and no load is shed more often than a human
\* approved it (GridWatch._dispatch).
DispatchesAreSound == TypeOK /\ DispatchesAreApproved

\* A divergence is one event for a human: one open proposal for its battery, one
\* approval, and a next one only once it was over, in whatever order readings
\* come (_open_proposal_for, _idempotency_key, _maybe_resolve).
OneEvent == OneOpenPerUnit /\ OneApprovalPerEffect /\ NextEventAfterRecovery

=============================================================================
