------------------------------ MODULE GridProofs ------------------------------
(***************************************************************************)
(* For any batteries, ticks and windows, and whatever is lost, refreshed   *)
(* or restarted: no load is shed more often than a human approved it, as   *)
(* long as the gate's registry does not run the effect by itself, and what *)
(* breaker learns of a release it acts on once.  And, where every answer   *)
(* is heard, a divergence is one event.                                    *)
(***************************************************************************)
EXTENDS GridWatch, FiniteSetTheorems, SequenceTheorems, TLAPS

NoAuto == "auto" \notin Classes

Proposal == [effect : Effects, status : Statuses, approval : Nat, dispatched : BOOLEAN]
Approval == [effect : Effects, state : {"pending", "approved", "rejected"}]
States   == {"none", "queued", "executed", "rejected"}

Given(e) == Cardinality(ApprovedFor(e))

\* An effect has one proposal in the life of breaker that made it.
OneProposal ==
    \A i, j \in DOMAIN proposals : proposals[i].effect = proposals[j].effect => i = j

\* A proposal that was not dispatched has an approval left when its effect is
\* executed.
OneLeft ==
    \A i \in DOMAIN proposals :
        LET e == proposals[i].effect IN
        ~proposals[i].dispatched /\ effects[e] = "executed" => shed[e] < Given(e)

Invariant == TypeOK /\ DispatchesAreApproved /\ OneProposal /\ OneLeft

LEMMA TypesInFull ==
  TypeOK <=>
    /\ recovered \in [Units -> Ticks \cup {0}]
    /\ proposals \in Seq(Proposal)
    /\ \A i \in DOMAIN proposals : proposals[i].approval \in 0..Len(approvals)
    /\ shed \in [Effects -> Nat]
    /\ effects \in [Effects -> States]
    /\ approvals \in Seq(Approval)
    /\ faults \in 0..MaxFaults /\ restarts \in 0..MaxRestarts
BY DEF TypeOK, Proposal, Approval, States

-----------------------------------------------------------------------------
(* The gate's side of a step                                               *)

LEMMA GivenIsCounted ==
  ASSUME approvals \in Seq(Approval), NEW e
  PROVE  IsFiniteSet(ApprovedFor(e)) /\ Given(e) \in Nat
<1>1. IsFiniteSet(1..Len(approvals))
  BY FS_Interval
<1>2. ApprovedFor(e) \subseteq 1..Len(approvals)
  BY DEF ApprovedFor
<1>3. IsFiniteSet(ApprovedFor(e))
  BY <1>1, <1>2, FS_Subset
<1> QED
  BY <1>3, FS_CardinalityType DEF Given

\* The gate moves on: an effect is executed only as before, or on one more
\* approval.
GateMoves ==
    /\ approvals' \in Seq(Approval) /\ Len(approvals) <= Len(approvals')
    /\ effects' \in [Effects -> States]
    /\ \A e \in Effects :
          /\ Given(e) <= Given(e)' /\ Given(e)' \in Nat
          /\ effects'[e] = "executed" => effects[e] = "executed" \/ Given(e) < Given(e)'

LEMMA GateStays ==
  ASSUME TypeOK, UNCHANGED gate
  PROVE  GateMoves
<1>1. approvals \in Seq(Approval) /\ effects \in [Effects -> States]
  BY TypesInFull
<1>2. \A e : Given(e)' = Given(e)
  BY DEF gate, Given, ApprovedFor
<1>3. \A e : Given(e) \in Nat
  BY <1>1, GivenIsCounted
<1> QED
  BY <1>1, <1>2, <1>3 DEF GateMoves, gate

LEMMA EnqueuedMoves ==
  ASSUME TypeOK, NEW e \in Effects, Enqueued(e)
  PROVE  GateMoves /\ effects'[e] = "queued" /\ Len(approvals') = Len(approvals) + 1
<1>1. approvals \in Seq(Approval) /\ effects \in [Effects -> States]
  BY TypesInFull
<1> DEFINE a == [effect |-> e, state |-> "pending"]
<1>2. /\ a \in Approval /\ approvals' = Append(approvals, a)
      /\ effects' = [effects EXCEPT ![e] = "queued"]
      /\ \A f : a # [effect |-> f, state |-> "approved"]
  BY DEF Enqueued, Approval
<1> HIDE DEF a
<1>3. /\ approvals' \in Seq(Approval) /\ Len(approvals') = Len(approvals) + 1
      /\ approvals'[Len(approvals) + 1] = a
      /\ \A n \in 1..Len(approvals) : approvals'[n] = approvals[n]
  BY <1>1, <1>2
<1>4. \A f : ApprovedFor(f)' = ApprovedFor(f)
  BY <1>1, <1>2, <1>3 DEF ApprovedFor
<1>5. \A f : Given(f)' = Given(f) /\ Given(f) \in Nat
  BY <1>1, <1>4, GivenIsCounted DEF Given
<1>6. effects' \in [Effects -> States] /\ effects'[e] = "queued"
      /\ \A f \in Effects : effects'[f] = "executed" => effects[f] = "executed"
  BY <1>1, <1>2 DEF States
<1> QED
  BY <1>1, <1>3, <1>5, <1>6 DEF GateMoves

LEMMA SettledMoves ==
  ASSUME TypeOK, NEW a \in DOMAIN approvals,
         Blocked(a) \/ \E d \in Decisions : Decided(a, d)
  PROVE  GateMoves /\ Len(approvals') = Len(approvals)
<1>1. approvals \in Seq(Approval) /\ effects \in [Effects -> States]
  BY TypesInFull
<1>2. a \in 1..Len(approvals) /\ Len(approvals) \in Nat /\ approvals[a] \in Approval
      /\ approvals[a].state = "pending" /\ approvals[a].effect \in Effects
  <2>1. approvals[a] \in Approval /\ a \in 1..Len(approvals) /\ Len(approvals) \in Nat
    BY <1>1
  <2>2. approvals[a].effect \in Effects
    BY <2>1 DEF Approval
  <2>3. approvals[a].state = "pending"
    BY DEF Blocked, Decided
  <2> QED
    BY <2>1, <2>2, <2>3
<1>3. PICK s \in {"approved", "rejected"}, t \in States :
        /\ approvals' = [approvals EXCEPT ![a].state = s]
        /\ effects' = [effects EXCEPT ![approvals[a].effect] = t]
        /\ t = "executed" => s = "approved"
  <2>1. CASE Blocked(a)
    BY <2>1 DEF Blocked, States
  <2>2. CASE Decided(a, "approve")
    BY <2>2 DEF Decided, States
  <2>3. CASE Decided(a, "reject")
    BY <2>3 DEF Decided, States
  <2> QED
    BY <2>1, <2>2, <2>3 DEF Decisions
<1> DEFINE r == [approvals[a] EXCEPT !.state = s]
           e == approvals[a].effect
<1>4. r = [effect |-> e, state |-> s] /\ r \in Approval
  BY <1>2 DEF Approval
<1>5. approvals' = [approvals EXCEPT ![a] = r]
  BY <1>3
<1>6. approvals[a] = [effect |-> e, state |-> "pending"]
  BY <1>2 DEF Approval
<1> HIDE DEF r
<1>7. /\ approvals' \in Seq(Approval) /\ Len(approvals') = Len(approvals)
      /\ \A n \in 1..Len(approvals) : approvals'[n] = IF n = a THEN r ELSE approvals[n]
  BY <1>1, <1>2, <1>4, <1>5
<1>8. \A f : a \notin ApprovedFor(f)
  BY <1>6 DEF ApprovedFor
<1>9. \A f : ApprovedFor(f)' = IF s = "approved" /\ f = e THEN ApprovedFor(f) \cup {a}
                                                          ELSE ApprovedFor(f)
  BY <1>1, <1>2, <1>4, <1>7, <1>8 DEF ApprovedFor
<1>10. \A f : /\ Given(f) \in Nat
              /\ Given(f)' = IF s = "approved" /\ f = e THEN Given(f) + 1 ELSE Given(f)
  <2>1. ASSUME NEW f
        PROVE  /\ Given(f) \in Nat
               /\ Given(f)' = IF s = "approved" /\ f = e THEN Given(f) + 1 ELSE Given(f)
    <3>1. IsFiniteSet(ApprovedFor(f)) /\ Given(f) \in Nat
      BY <1>1, GivenIsCounted
    <3>2. Cardinality(ApprovedFor(f) \cup {a}) = Given(f) + 1
      BY <1>8, <3>1, FS_AddElement DEF Given
    <3> QED
      BY <1>9, <3>1, <3>2 DEF Given
  <2> QED
    BY <2>1
<1>11. effects' \in [Effects -> States]
       /\ \A f \in Effects : effects'[f] = IF f = e THEN t ELSE effects[f]
  BY <1>1, <1>2, <1>3
<1> QED
  BY <1>3, <1>7, <1>10, <1>11 DEF GateMoves


-----------------------------------------------------------------------------
(* breaker's side of a step                                                *)

\* The proposals stay the same ones, whatever becomes of them, and nothing is
\* dispatched.
ProposalsStay ==
    /\ proposals' \in Seq(Proposal) /\ Len(proposals') = Len(proposals)
    /\ \A i \in DOMAIN proposals : /\ proposals'[i].effect = proposals[i].effect
                                   /\ proposals'[i].approval = proposals[i].approval
                                   /\ proposals'[i].dispatched = proposals[i].dispatched
    /\ UNCHANGED shed

\* What is left of the types.
Bookkept ==
    /\ recovered' \in [Units -> Ticks \cup {0}]
    /\ faults' \in 0..MaxFaults /\ restarts' \in 0..MaxRestarts

LEMMA StayKeeps ==
  ASSUME Invariant, GateMoves, ProposalsStay, Bookkept
  PROVE  Invariant'
<1>1. /\ proposals \in Seq(Proposal) /\ shed \in [Effects -> Nat]
      /\ \A i \in DOMAIN proposals : proposals[i].approval \in 0..Len(approvals)
      /\ approvals \in Seq(Approval)
  BY TypesInFull DEF Invariant
<1>2. DOMAIN proposals' = DOMAIN proposals
  BY <1>1 DEF ProposalsStay
<1>3. \A i \in DOMAIN proposals : proposals'[i].approval \in 0..Len(approvals')
  BY <1>1 DEF GateMoves, ProposalsStay
<1>4. TypeOK'
  BY <1>1, <1>2, <1>3 DEF TypeOK, Bookkept, GateMoves, ProposalsStay, Proposal, Approval, States
<1>5. \A e \in Effects : Given(e) \in Nat
  BY <1>1, GivenIsCounted
<1>6. DispatchesAreApproved'
  BY <1>1, <1>5 DEF Invariant, GateMoves, ProposalsStay, DispatchesAreApproved, Given
<1>7. OneProposal'
  BY <1>2 DEF Invariant, OneProposal, ProposalsStay
<1>8. OneLeft'
  <2>1. ASSUME NEW i \in DOMAIN proposals, ~proposals[i].dispatched,
               NEW e, e = proposals[i].effect, effects'[e] = "executed"
        PROVE  shed[e] < Given(e)'
    <3>1. e \in Effects
      <4>1. proposals[i] \in Proposal
        BY <1>1
      <4> QED
        BY <2>1, <4>1 DEF Proposal
    <3>2. shed[e] <= Given(e) /\ shed[e] \in Nat /\ Given(e) \in Nat
      BY <1>1, <1>5, <3>1 DEF Invariant, DispatchesAreApproved, Given
    <3>3. Given(e) <= Given(e)' /\ Given(e)' \in Nat
      BY <3>1 DEF GateMoves
    <3>4. CASE effects[e] = "executed"
      <4>1. shed[e] < Given(e)
        BY <2>1, <3>4 DEF Invariant, OneLeft
      <4> QED
        BY <3>2, <3>3, <4>1
    <3>5. CASE Given(e) < Given(e)'
      BY <3>2, <3>3, <3>5
    <3> QED
      BY <2>1, <3>1, <3>4, <3>5 DEF GateMoves
  <2> QED
    BY <1>2, <2>1 DEF OneLeft, ProposalsStay
<1> QED
  BY <1>4, <1>6, <1>7, <1>8 DEF Invariant

LEMMA JudgedIsKept ==
  ASSUME TypeOK, NEW u \in Units, NEW t \in Ticks, NEW v, Judged(u, t, v)
  PROVE  recovered' \in [Units -> Ticks \cup {0}]
BY TypesInFull DEF Judged

LEMMA FaultCounted ==
  ASSUME TypeOK, faults < MaxFaults
  PROVE  faults + 1 \in 0..MaxFaults
<1>1. faults \in 0..MaxFaults /\ MaxFaults \in Nat
  BY TypesInFull, GridAssumption
<1> QED
  BY <1>1

LEMMA UntouchedStay ==
  ASSUME TypeOK, UNCHANGED <<proposals, shed>>
  PROVE  ProposalsStay
BY TypesInFull DEF ProposalsStay

\* Judged windows that propose nothing, and decisions breaker does not hear.
LEMMA QuietKeeps ==
  ASSUME Invariant,
         \/ \E u \in Units, t \in Ticks, v \in Verdicts : Quiet(u, t, v)
         \/ \E e \in Effects : Reobserve(e) \/ ProposeCapped(e) \/ ProposeUnanswered(e)
         \/ \E i \in DOMAIN proposals : DecideUnanswered(i)
         \/ \E a \in DOMAIN approvals : DecideAtGate(a)
  PROVE  Invariant'
<1>1. /\ TypeOK /\ recovered \in [Units -> Ticks \cup {0}]
      /\ faults \in 0..MaxFaults /\ restarts \in 0..MaxRestarts
      /\ proposals \in Seq(Proposal) /\ approvals \in Seq(Approval)
      /\ effects \in [Effects -> States]
      /\ \A i \in DOMAIN proposals : proposals[i].approval \in 0..Len(approvals)
  BY TypesInFull DEF Invariant
<1>2. ProposalsStay
  BY <1>1, UntouchedStay DEF Quiet, Reobserve, ProposeCapped, ProposeUnanswered,
                             DecideUnanswered, DecideAtGate
<1>3. \A e \in Effects : e[1] \in Units /\ e[2] \in Ticks
  BY DEF Effects
<1>4. CASE \E u \in Units, t \in Ticks, v \in Verdicts : Quiet(u, t, v)
  <2>1. Bookkept
    BY <1>1, <1>4, JudgedIsKept DEF Quiet, Bookkept
  <2>2. GateMoves
    BY <1>1, <1>4, GateStays DEF Quiet
  <2> QED
    BY <1>2, <2>1, <2>2, StayKeeps
<1>5. ASSUME NEW e \in Effects, Reobserve(e) \/ ProposeCapped(e) \/ ProposeUnanswered(e)
      PROVE  Invariant'
  <2>1. recovered' \in [Units -> Ticks \cup {0}]
    BY <1>1, <1>3, <1>5, JudgedIsKept DEF Reobserve, ProposeCapped, ProposeUnanswered
  <2>2. Bookkept
    BY <1>1, <1>5, <2>1, FaultCounted
       DEF Reobserve, ProposeCapped, ProposeUnanswered, Bookkept
  <2>3. CASE UNCHANGED gate
    BY <1>1, <1>2, <2>2, <2>3, GateStays, StayKeeps
  <2>4. CASE Enqueued(e)
    BY <1>1, <1>2, <2>2, <2>4, EnqueuedMoves, StayKeeps
  <2>5. CASE ProposeCapped(e)
    <3>1. effects' = [effects EXCEPT ![e] = "rejected"] /\ UNCHANGED approvals
      BY <2>5 DEF ProposeCapped
    <3>2. \A f : Given(f)' = Given(f) /\ Given(f) \in Nat
      BY <1>1, <3>1, GivenIsCounted DEF Given, ApprovedFor
    <3>3. GateMoves
      BY <1>1, <3>1, <3>2 DEF GateMoves, States
    <3> QED
      BY <1>2, <2>2, <3>3, StayKeeps
  <2> QED
    BY <1>5, <2>3, <2>4, <2>5 DEF Reobserve, ProposeUnanswered
<1>6. ASSUME NEW a \in DOMAIN approvals, \E d \in Decisions : Decided(a, d), Bookkept
      PROVE  Invariant'
  BY <1>1, <1>2, <1>6, SettledMoves, StayKeeps
<1>7. CASE \E i \in DOMAIN proposals : DecideUnanswered(i)
  <2>1. PICK i \in DOMAIN proposals : DecideUnanswered(i)
    BY <1>7
  <2>2. Bookkept
    BY <1>1, <2>1, FaultCounted DEF DecideUnanswered, Bookkept
  <2>3. proposals[i].approval \in DOMAIN approvals
    BY <1>1, <2>1 DEF DecideUnanswered
  <2> QED
    BY <1>6, <2>1, <2>2, <2>3 DEF DecideUnanswered
<1>8. CASE \E a \in DOMAIN approvals : DecideAtGate(a)
  <2>1. Bookkept
    BY <1>1, <1>8 DEF DecideAtGate, Bookkept
  <2> QED
    BY <1>6, <1>8, <2>1 DEF DecideAtGate
<1> QED
  BY <1>4, <1>5, <1>7, <1>8

LEMMA WithdrawKeeps ==
  ASSUME Invariant, NEW u \in Units, NEW t \in Ticks, NEW v \in Verdicts, Withdraw(u, t, v)
  PROVE  Invariant'
<1>1. TypeOK /\ proposals \in Seq(Proposal) /\ faults \in 0..MaxFaults /\ restarts \in 0..MaxRestarts
  BY TypesInFull DEF Invariant
<1>2. GateMoves /\ Bookkept
  BY <1>1, GateStays, JudgedIsKept DEF Withdraw, Bookkept
<1>3. PICK i \in Cleared(u, t) : proposals' = [proposals EXCEPT ![i].status = "withdrawn"]
  BY DEF Withdraw
<1>4. i \in DOMAIN proposals /\ proposals[i] \in Proposal
  BY <1>1 DEF Cleared, OpenFor
<1> DEFINE r == [proposals[i] EXCEPT !.status = "withdrawn"]
<1>5. /\ r \in Proposal /\ r.effect = proposals[i].effect /\ r.approval = proposals[i].approval
      /\ r.dispatched = proposals[i].dispatched
  BY <1>4 DEF Proposal, Statuses
<1>6. proposals' = [proposals EXCEPT ![i] = r]
  BY <1>3
<1> HIDE DEF r
<1>7. /\ proposals' \in Seq(Proposal) /\ Len(proposals') = Len(proposals)
      /\ \A j \in DOMAIN proposals : proposals'[j] = IF j = i THEN r ELSE proposals[j]
  BY <1>1, <1>4, <1>5, <1>6
<1>8. UNCHANGED shed
  BY DEF Withdraw
<1>9. ProposalsStay
  BY <1>5, <1>7, <1>8 DEF ProposalsStay
<1> QED
  BY <1>2, <1>9, StayKeeps

\* The gate held an effect that was not known, and breaker keeps a proposal.
LEMMA ProposeKeeps ==
  ASSUME NoAuto, Invariant, NEW e \in Effects, Propose(e) \/ ProposeUnheld(e)
  PROVE  Invariant'
<1>1. /\ TypeOK /\ proposals \in Seq(Proposal) /\ shed \in [Effects -> Nat]
      /\ faults \in 0..MaxFaults /\ restarts \in 0..MaxRestarts
      /\ \A i \in DOMAIN proposals : proposals[i].approval \in 0..Len(approvals)
      /\ approvals \in Seq(Approval)
  BY TypesInFull DEF Invariant
<1>2. Enqueued(e) /\ ~Known(e) /\ UNCHANGED <<shed, faults, restarts>>
  BY DEF Propose, ProposeUnheld, NoAuto, IsNew
<1>3. GateMoves /\ effects'[e] = "queued" /\ Len(approvals') = Len(approvals) + 1
  BY <1>1, <1>2, EnqueuedMoves
<1>4. e[1] \in Units /\ e[2] \in Ticks
  BY DEF Effects
<1>5. Bookkept
  BY <1>1, <1>2, <1>4, JudgedIsKept DEF Propose, ProposeUnheld, Bookkept
<1>6. PICK p \in Proposal : /\ proposals' = Append(proposals, p) /\ p.effect = e
                            /\ p.approval \in 0..Len(approvals')
  <2>1. Len(approvals) \in Nat
    BY <1>1
  <2>2. PICK s \in {"waiting_at_gate", "proposed"}, a \in {0, Len(approvals) + 1} :
             proposals' = Append(proposals, NewProposal(e, s, a))
    BY DEF Propose, ProposeUnheld
  <2>3. /\ NewProposal(e, s, a) \in Proposal /\ NewProposal(e, s, a).effect = e
        /\ NewProposal(e, s, a).approval = a
    BY <2>1 DEF NewProposal, Proposal, Statuses
  <2>4. a \in 0..Len(approvals')
    BY <1>3, <2>1
  <2> QED
    BY <2>2, <2>3, <2>4
<1>7. /\ proposals' \in Seq(Proposal) /\ DOMAIN proposals' = DOMAIN proposals \cup {Len(proposals) + 1}
      /\ \A i \in DOMAIN proposals : proposals'[i] = proposals[i]
      /\ proposals'[Len(proposals) + 1] = p
  BY <1>1, <1>6
<1>8. TypeOK'
  <2>1. \A i \in DOMAIN proposals' : proposals'[i].approval \in 0..Len(approvals')
    BY <1>1, <1>3, <1>6, <1>7
  <2> QED
    BY <1>1, <1>2, <1>5, <1>3, <1>7, <2>1
       DEF TypeOK, Bookkept, GateMoves, Proposal, Approval, States
<1>9. ASSUME NEW f \in Effects
      PROVE  /\ Given(f) \in Nat /\ Given(f)' \in Nat /\ shed[f] \in Nat
             /\ shed[f] <= Given(f) /\ Given(f) <= Given(f)'
             /\ effects'[f] = "executed" => effects[f] = "executed" \/ Given(f) < Given(f)'
  <2>1. Given(f) \in Nat
    BY <1>1, GivenIsCounted
  <2>2. shed[f] <= Given(f)
    BY DEF Invariant, DispatchesAreApproved, Given
  <2> QED
    BY <1>1, <1>3, <2>1, <2>2 DEF GateMoves
<1>10. DispatchesAreApproved'
  <2>1. \A f \in Effects : shed[f] <= Given(f)'
    BY <1>9
  <2> QED
    BY <1>2, <2>1 DEF DispatchesAreApproved, Given
<1>11. OneProposal'
  BY <1>2, <1>6, <1>7 DEF Invariant, OneProposal, Known
<1>12. OneLeft'
  <2>1. ASSUME NEW i \in DOMAIN proposals', ~proposals'[i].dispatched,
               NEW f, f = proposals'[i].effect, effects'[f] = "executed"
        PROVE  shed'[f] < Given(f)'
    <3>1. f # e
      BY <1>3, <2>1
    <3>2. i \in DOMAIN proposals /\ f = proposals[i].effect /\ ~proposals[i].dispatched
      BY <1>6, <1>7, <2>1, <3>1
    <3>3. f \in Effects
      <4>1. proposals[i] \in Proposal
        BY <1>1, <3>2
      <4> QED
        BY <3>2, <4>1 DEF Proposal
    <3>4. effects[f] = "executed" => shed[f] < Given(f)
      BY <3>2 DEF Invariant, OneLeft
    <3> QED
      BY <1>2, <1>9, <2>1, <3>3, <3>4
  <2> QED
    BY <2>1 DEF OneLeft
<1> QED
  BY <1>8, <1>10, <1>11, <1>12 DEF Invariant

LEMMA RestartKeeps ==
  ASSUME Invariant, Restart
  PROVE  Invariant'
<1>1. proposals' = <<>> /\ UNCHANGED <<recovered, shed, effects, approvals, faults>>
      /\ restarts' \in 0..MaxRestarts
  BY GridAssumption, TypesInFull DEF Restart, gate, Invariant
<1>2. TypeOK'
  BY <1>1 DEF Invariant, TypeOK
<1> QED
  BY <1>1, <1>2 DEF Invariant, DispatchesAreApproved, ApprovedFor, OneProposal, OneLeft


\* breaker is told what became of a proposal's effect and acts on it.
LEMMA ApplyKeeps ==
  ASSUME Invariant, GateMoves, Bookkept, NEW i \in DOMAIN proposals,
         Apply(i, effects'[proposals[i].effect])
  PROVE  Invariant'
<1> DEFINE e == proposals[i].effect
<1>1. /\ TypeOK /\ proposals \in Seq(Proposal) /\ shed \in [Effects -> Nat]
      /\ \A j \in DOMAIN proposals : proposals[j].approval \in 0..Len(approvals)
      /\ approvals \in Seq(Approval)
  BY TypesInFull DEF Invariant
<1>2. proposals[i] \in Proposal
  BY <1>1
<1>3. e \in Effects
  BY <1>2 DEF Proposal
<1>4. CASE effects'[e] # "executed"
  <2> DEFINE s == IF effects'[e] = "rejected" THEN "rejected" ELSE "waiting_at_gate"
             r == [proposals[i] EXCEPT !.status = s]
  <2>1. proposals' = [proposals EXCEPT ![i] = r] /\ UNCHANGED shed
    BY <1>4 DEF Apply
  <2>2. /\ r \in Proposal /\ r.effect = e /\ r.approval = proposals[i].approval
        /\ r.dispatched = proposals[i].dispatched
    BY <1>2 DEF Proposal, Statuses
  <2> HIDE DEF r
  <2>3. /\ proposals' \in Seq(Proposal) /\ Len(proposals') = Len(proposals)
        /\ \A j \in DOMAIN proposals : proposals'[j] = IF j = i THEN r ELSE proposals[j]
    BY <1>1, <2>1, <2>2
  <2>4. ProposalsStay
    BY <2>1, <2>2, <2>3 DEF ProposalsStay
  <2> QED
    BY <2>4, StayKeeps
<1>5. CASE effects'[e] = "executed"
  <2> DEFINE r == [proposals[i] EXCEPT !.status = "approved", !.dispatched = TRUE]
  <2>1. proposals' = [proposals EXCEPT ![i] = r]
    BY <1>5 DEF Apply
  <2>2. /\ shed' = IF proposals[i].dispatched THEN shed ELSE [shed EXCEPT ![e] = @ + 1]
    BY <1>5 DEF Apply, DispatchOnce
  <2>3. r \in Proposal /\ r.effect = e /\ r.approval = proposals[i].approval /\ r.dispatched
    <3>1. r = [effect |-> e, status |-> "approved", approval |-> proposals[i].approval,
               dispatched |-> TRUE]
      <4> DEFINE q == [proposals[i] EXCEPT !.status = "approved"]
      <4>1. q = [effect |-> e, status |-> "approved", approval |-> proposals[i].approval,
                 dispatched |-> proposals[i].dispatched]
        BY <1>2 DEF Proposal
      <4>2. r = [q EXCEPT !.dispatched = TRUE]
        OBVIOUS
      <4> HIDE DEF q, r
      <4> QED
        BY <4>1, <4>2
    <3> QED
      BY <1>2, <3>1 DEF Proposal, Statuses
  <2> HIDE DEF r
  <2>4. /\ proposals' \in Seq(Proposal) /\ Len(proposals') = Len(proposals)
        /\ DOMAIN proposals' = DOMAIN proposals
        /\ \A j \in DOMAIN proposals : proposals'[j] = IF j = i THEN r ELSE proposals[j]
    BY <1>1, <2>1, <2>3
  <2>5. shed' \in [Effects -> Nat]
    BY <1>1, <1>3, <2>2
  <2>6. TypeOK'
    <3>1. \A j \in DOMAIN proposals' : proposals'[j].approval \in 0..Len(approvals')
      <4>1. Len(approvals) \in Nat /\ Len(approvals') \in Nat /\ Len(approvals) <= Len(approvals')
        BY <1>1 DEF GateMoves
      <4>2. \A j \in DOMAIN proposals : proposals'[j].approval = proposals[j].approval
        BY <2>3, <2>4
      <4> QED
        BY <1>1, <2>4, <4>1, <4>2
    <3> QED
      BY <2>4, <2>5, <3>1 DEF TypeOK, Bookkept, GateMoves, Proposal, Approval, States
  <2>7. ASSUME NEW f \in Effects
        PROVE  /\ Given(f) \in Nat /\ Given(f)' \in Nat /\ shed[f] \in Nat
               /\ shed[f] <= Given(f) /\ Given(f) <= Given(f)'
               /\ effects'[f] = "executed" => effects[f] = "executed" \/ Given(f) < Given(f)'
    <3>1. Given(f) \in Nat
      BY <1>1, GivenIsCounted
    <3>2. shed[f] <= Given(f)
      BY DEF Invariant, DispatchesAreApproved, Given
    <3> QED
      BY <1>1, <3>1, <3>2 DEF GateMoves
  <2>8. ASSUME NEW j \in DOMAIN proposals, ~proposals[j].dispatched,
               NEW f \in Effects, f = proposals[j].effect, effects'[f] = "executed"
        PROVE  shed[f] < Given(f)'
    <3>1. effects[f] = "executed" => shed[f] < Given(f)
      BY <2>8 DEF Invariant, OneLeft
    <3> QED
      BY <2>7, <2>8, <3>1
  <2>9. DispatchesAreApproved'
    <3>1. ASSUME NEW f \in Effects
          PROVE  shed'[f] <= Given(f)'
      <4>1. CASE proposals[i].dispatched \/ f # e
        <5>1. shed'[f] = shed[f]
          BY <1>1, <2>2, <4>1
        <5> QED
          BY <2>7, <5>1
      <4>2. CASE ~proposals[i].dispatched /\ f = e
        <5>1. shed'[f] = shed[f] + 1
          BY <1>1, <1>3, <2>2, <4>2
        <5>2. shed[f] < Given(f)'
          BY <1>5, <2>8, <4>2
        <5> QED
          BY <2>7, <5>1, <5>2
      <4> QED
        BY <4>1, <4>2
    <3> QED
      BY <3>1 DEF DispatchesAreApproved, Given
  <2>10. OneProposal'
    BY <2>3, <2>4 DEF Invariant, OneProposal
  <2>11. OneLeft'
    <3>1. ASSUME NEW j \in DOMAIN proposals', ~proposals'[j].dispatched,
                 NEW f, f = proposals'[j].effect, effects'[f] = "executed"
          PROVE  shed'[f] < Given(f)'
      <4>1. j # i /\ j \in DOMAIN proposals /\ proposals'[j] = proposals[j]
        BY <2>3, <2>4, <3>1
      <4>2. f # e
        BY <3>1, <4>1 DEF Invariant, OneProposal
      <4>3. f \in Effects
        <5>1. proposals[j] \in Proposal
          BY <1>1, <4>1
        <5> QED
          BY <3>1, <4>1, <5>1 DEF Proposal
      <4>4. shed'[f] = shed[f]
        BY <1>1, <2>2, <4>2
      <4> QED
        BY <2>8, <3>1, <4>1, <4>3, <4>4
    <3> QED
      BY <3>1 DEF OneLeft
  <2> QED
    BY <2>6, <2>9, <2>10, <2>11 DEF Invariant
<1> QED
  BY <1>4, <1>5

LEMMA RelayKeeps ==
  ASSUME Invariant, NEW i \in DOMAIN proposals, Decide(i) \/ Refresh(i)
  PROVE  Invariant'
<1>1. /\ TypeOK /\ recovered \in [Units -> Ticks \cup {0}]
      /\ faults \in 0..MaxFaults /\ restarts \in 0..MaxRestarts /\ approvals \in Seq(Approval)
      /\ proposals[i].approval \in 0..Len(approvals)
  BY TypesInFull DEF Invariant
<1>2. CASE Decide(i)
  <2>1. Bookkept
    BY <1>1, <1>2, FaultCounted DEF Decide, Bookkept
  <2>2. GateMoves
    <3> DEFINE a == proposals[i].approval
    <3>1. a \in DOMAIN approvals
      BY <1>1, <1>2 DEF Decide
    <3>2. Blocked(a) \/ \E d \in Decisions : Decided(a, d)
      BY <1>2 DEF Decide
    <3> HIDE DEF a
    <3> QED
      BY <1>1, <3>1, <3>2, SettledMoves
  <2> QED
    BY <1>2, <2>1, <2>2, ApplyKeeps DEF Decide
<1>3. CASE Refresh(i)
  <2>1. Bookkept /\ UNCHANGED gate
    BY <1>1, <1>3 DEF Refresh, Bookkept
  <2>2. GateMoves
    BY <1>1, <2>1, GateStays
  <2>3. effects' = effects
    BY <2>1 DEF gate
  <2>4. Apply(i, effects'[proposals[i].effect])
    BY <1>3, <2>3 DEF Refresh
  <2> QED
    BY <2>1, <2>2, <2>4, ApplyKeeps
<1> QED
  BY <1>2, <1>3

LEMMA InitInvariant ==
  ASSUME Init
  PROVE  Invariant
<1>1. TypeOK
  <2>1. 0 \in 0..MaxFaults /\ 0 \in 0..MaxRestarts
    BY GridAssumption
  <2>2. proposals \in Seq(Proposal) /\ approvals \in Seq(Approval) /\ DOMAIN proposals = {}
    BY DEF Init
  <2> QED
    BY <2>1, <2>2, TypesInFull DEF Init, States
<1>2. DispatchesAreApproved
  <2>1. \A e : Given(e) \in Nat
    BY <1>1, TypesInFull, GivenIsCounted
  <2> QED
    BY <2>1 DEF Init, DispatchesAreApproved, Given
<1> QED
  BY <1>1, <1>2 DEF Init, Invariant, OneProposal, OneLeft

LEMMA NextInvariant ==
  ASSUME NoAuto, Invariant, [Next]_vars
  PROVE  Invariant'
<1>1. CASE UNCHANGED vars
  BY <1>1 DEF vars, gate, Invariant, TypeOK, DispatchesAreApproved, ApprovedFor, OneProposal,
              OneLeft, Given
<1> QED
  BY <1>1, QuietKeeps, WithdrawKeeps, ProposeKeeps, RelayKeeps, RestartKeeps DEF Next, Diverge

\* Where the registry leaves every dispatch to a human, no load is shed more
\* often than approvals for it were given at the gate, whatever was lost,
\* refreshed, decided elsewhere or forgotten by a restart (engine.py,
\* _dispatch_once, _apply_effect_state).
THEOREM DispatchNeedsApproval ==
  ASSUME NoAuto
  PROVE  Spec => []DispatchesAreSound
<1>1. Invariant => DispatchesAreSound
  BY DEF Invariant, DispatchesAreSound
<1>2. Invariant /\ [Next]_vars => Invariant'
  BY NextInvariant
<1> QED
  BY <1>1, <1>2, InitInvariant, PTL DEF Spec

-----------------------------------------------------------------------------
(* What breaker is told of a release it acts on once, whatever the         *)
(* registry makes of the effect.                                           *)

Told ==
    \A i \in DOMAIN proposals :
        /\ proposals[i].status = "approved" => proposals[i].dispatched
        /\ proposals[i].dispatched => shed[proposals[i].effect] > 0

\* In breaker's first life whatever was shed, one of its proposals counts.
CountedOnce ==
    restarts = 0 =>
        \A e \in Effects :
            \/ shed[e] = 0
            \/ /\ shed[e] = 1
               /\ \E i \in DOMAIN proposals : proposals[i].effect = e /\ proposals[i].dispatched

OnceInv ==
    /\ proposals \in Seq(Proposal) /\ shed \in [Effects -> Nat] /\ restarts \in Nat
    /\ OneProposal /\ Told /\ CountedOnce

\* One proposal changes its status, and nothing is dispatched by it.
LEMMA StatusStepKeepsOnce ==
  ASSUME OnceInv, NEW i \in DOMAIN proposals, NEW r \in Proposal,
         proposals' = [proposals EXCEPT ![i] = r], UNCHANGED <<shed, restarts>>,
         r.effect = proposals[i].effect, r.dispatched = proposals[i].dispatched,
         r.status = "approved" => r.dispatched
  PROVE  OnceInv'
<1>1. /\ proposals \in Seq(Proposal) /\ shed \in [Effects -> Nat] /\ restarts \in Nat
      /\ OneProposal /\ Told /\ CountedOnce
  BY DEF OnceInv
<1>2. /\ proposals' \in Seq(Proposal) /\ DOMAIN proposals' = DOMAIN proposals
      /\ \A j \in DOMAIN proposals : proposals'[j] = IF j = i THEN r ELSE proposals[j]
  BY <1>1
<1>3. \A j \in DOMAIN proposals : /\ proposals'[j].effect = proposals[j].effect
                                  /\ proposals'[j].dispatched = proposals[j].dispatched
                                  /\ proposals'[j].status = "approved" => proposals'[j].dispatched
  BY <1>1, <1>2 DEF Told
<1>4. OneProposal'
  BY <1>1, <1>2, <1>3 DEF OneProposal
<1>5. Told'
  BY <1>1, <1>2, <1>3 DEF Told
<1>6. CountedOnce'
  BY <1>1, <1>2, <1>3 DEF CountedOnce
<1> QED
  BY <1>1, <1>2, <1>4, <1>5, <1>6 DEF OnceInv

LEMMA WithdrawKeepsOnce ==
  ASSUME OnceInv, NEW u \in Units, NEW t \in Ticks, NEW v \in Verdicts, Withdraw(u, t, v)
  PROVE  OnceInv'
<1>1. PICK i \in Cleared(u, t) : proposals' = [proposals EXCEPT ![i].status = "withdrawn"]
  BY DEF Withdraw
<1>2. i \in DOMAIN proposals /\ proposals[i] \in Proposal
  BY DEF Cleared, OpenFor, OnceInv
<1> DEFINE r == [proposals[i] EXCEPT !.status = "withdrawn"]
<1>3. /\ r \in Proposal /\ r.effect = proposals[i].effect
      /\ r.dispatched = proposals[i].dispatched /\ r.status # "approved"
  BY <1>2 DEF Proposal, Statuses
<1>4. proposals' = [proposals EXCEPT ![i] = r]
  BY <1>1
<1> HIDE DEF r
<1> QED
  BY <1>2, <1>3, <1>4, StatusStepKeepsOnce DEF Withdraw

LEMMA ProposeKeepsOnce ==
  ASSUME OnceInv, approvals \in Seq(Approval), NEW e \in Effects, Propose(e) \/ ProposeUnheld(e)
  PROVE  OnceInv'
<1>1. /\ proposals \in Seq(Proposal) /\ shed \in [Effects -> Nat] /\ restarts \in Nat
      /\ OneProposal /\ Told /\ CountedOnce
  BY DEF OnceInv
<1>2. PICK p : /\ proposals' = Append(proposals, p)
               /\ p.effect = e /\ ~p.dispatched /\ p.status # "approved" /\ p \in Proposal
  <2>1. PICK x \in {"waiting_at_gate", "proposed"}, a \in Nat :
             proposals' = Append(proposals, NewProposal(e, x, a))
    <3>1. Len(approvals) + 1 \in Nat
      BY LenProperties
    <3> QED
      BY <3>1 DEF Propose, ProposeUnheld
  <2> DEFINE p == [effect |-> e, status |-> x, approval |-> a, dispatched |-> FALSE]
  <2>2. NewProposal(e, x, a) = p
    BY DEF NewProposal
  <2>3. p.effect = e /\ ~p.dispatched /\ p.status = x
    OBVIOUS
  <2>4. p \in Proposal
    BY <2>1 DEF Proposal, Statuses
  <2> HIDE DEF p
  <2> QED
    BY <2>1, <2>2, <2>3, <2>4
<1>3. /\ proposals' \in Seq(Proposal) /\ DOMAIN proposals' = DOMAIN proposals \cup {Len(proposals) + 1}
      /\ \A i \in DOMAIN proposals : proposals'[i] = proposals[i]
      /\ proposals'[Len(proposals) + 1] = p
  BY <1>1, <1>2
<1>4. ~Known(e) /\ UNCHANGED <<shed, restarts>>
  BY DEF Propose, ProposeUnheld, IsNew
<1>5. OneProposal'
  BY <1>1, <1>2, <1>3, <1>4 DEF OneProposal, Known
<1>6. Told'
  BY <1>1, <1>2, <1>3, <1>4 DEF Told
<1>7. CountedOnce'
  BY <1>1, <1>3, <1>4 DEF CountedOnce
<1> QED
  BY <1>1, <1>3, <1>4, <1>5, <1>6, <1>7 DEF OnceInv

LEMMA ApplyKeepsOnce ==
  ASSUME OnceInv, NEW i \in DOMAIN proposals, NEW x, Apply(i, x), restarts' = restarts
  PROVE  OnceInv'
<1> DEFINE e == proposals[i].effect
<1>1. /\ proposals \in Seq(Proposal) /\ shed \in [Effects -> Nat] /\ restarts \in Nat
      /\ OneProposal /\ Told /\ CountedOnce
  BY DEF OnceInv
<1>2. proposals[i] \in Proposal
  BY <1>1
<1>3. e \in Effects
  BY <1>2 DEF Proposal
<1>4. CASE x # "executed"
  <2> DEFINE s == IF x = "rejected" THEN "rejected" ELSE "waiting_at_gate"
             r == [proposals[i] EXCEPT !.status = s]
  <2>1. proposals' = [proposals EXCEPT ![i] = r] /\ UNCHANGED shed
    BY <1>4 DEF Apply
  <2>2. /\ r \in Proposal /\ r.effect = e /\ r.dispatched = proposals[i].dispatched
        /\ r.status # "approved"
    BY <1>2 DEF Proposal, Statuses
  <2> HIDE DEF r
  <2> QED
    BY <2>1, <2>2, StatusStepKeepsOnce
<1>5. CASE x = "executed"
  <2> DEFINE r == [effect |-> e, status |-> "approved", approval |-> proposals[i].approval,
                   dispatched |-> TRUE]
  <2>1. proposals' = [proposals EXCEPT ![i] = r]
    <3> DEFINE q == [proposals[i] EXCEPT !.status = "approved", !.dispatched = TRUE]
    <3>1. proposals' = [proposals EXCEPT ![i] = q]
      BY <1>5 DEF Apply
    <3>2. q = r
      <4> DEFINE h == [proposals[i] EXCEPT !.status = "approved"]
      <4>1. h = [effect |-> e, status |-> "approved", approval |-> proposals[i].approval,
                 dispatched |-> proposals[i].dispatched]
        BY <1>2 DEF Proposal
      <4>2. q = [h EXCEPT !.dispatched = TRUE]
        OBVIOUS
      <4> HIDE DEF h, q
      <4> QED
        BY <4>1, <4>2
    <3> QED
      BY <3>1, <3>2
  <2>2. r \in Proposal /\ r.effect = e /\ r.dispatched
    BY <1>2, <1>3 DEF Proposal, Statuses
  <2>3. shed' = IF proposals[i].dispatched THEN shed ELSE [shed EXCEPT ![e] = @ + 1]
    BY <1>5 DEF Apply, DispatchOnce
  <2> HIDE DEF r, e
  <2>4. /\ proposals' \in Seq(Proposal) /\ DOMAIN proposals' = DOMAIN proposals
        /\ \A j \in DOMAIN proposals : proposals'[j] = IF j = i THEN r ELSE proposals[j]
    BY <1>1, <2>1, <2>2
  <2>5. /\ shed' \in [Effects -> Nat]
        /\ \A f \in Effects : shed[f] \in Nat
        /\ \A f \in Effects : shed'[f] = IF proposals[i].dispatched \/ f # e THEN shed[f]
                                         ELSE shed[f] + 1
    BY <1>1, <1>3, <2>3
  <2>6. \A j \in DOMAIN proposals : proposals[j].effect \in Effects
    <3>1. \A j \in DOMAIN proposals : proposals[j] \in Proposal
      BY <1>1
    <3> QED
      BY <3>1 DEF Proposal
  <2>7. shed'[e] > 0
    <3>1. CASE proposals[i].dispatched
      BY <1>1, <1>3, <2>5, <3>1 DEF Told, e
    <3>2. CASE ~proposals[i].dispatched
      BY <1>3, <2>5, <3>2
    <3> QED
      BY <3>1, <3>2
  <2>8. OneProposal'
    BY <1>1, <2>2, <2>4 DEF OneProposal, e
  <2>9. Told'
    <3>1. ASSUME NEW j \in DOMAIN proposals, j # i
          PROVE  /\ proposals[j].status = "approved" => proposals[j].dispatched
                 /\ proposals[j].dispatched => shed'[proposals[j].effect] > 0
      <4> DEFINE f == proposals[j].effect
      <4>1. f \in Effects
        BY <2>6
      <4>2. /\ proposals[j].status = "approved" => proposals[j].dispatched
            /\ proposals[j].dispatched => shed[f] > 0
        BY <1>1 DEF Told
      <4>3. shed[f] > 0 => shed'[f] > 0
        <5>1. shed[f] \in Nat /\ (shed'[f] = shed[f] \/ shed'[f] = shed[f] + 1)
          BY <2>5, <4>1
        <5> QED
          BY <5>1
      <4> QED
        BY <4>2, <4>3
    <3> QED
      BY <2>2, <2>4, <2>7, <3>1 DEF Told
  <2>10. CountedOnce'
    <3>1. ASSUME restarts = 0, NEW f \in Effects
          PROVE  \/ shed'[f] = 0
                 \/ /\ shed'[f] = 1
                    /\ \E j \in DOMAIN proposals' : proposals'[j].effect = f /\ proposals'[j].dispatched
      <4>1. \/ shed[f] = 0
            \/ /\ shed[f] = 1
               /\ \E j \in DOMAIN proposals : proposals[j].effect = f /\ proposals[j].dispatched
        BY <1>1, <3>1 DEF CountedOnce
      <4>2. CASE f # e
        <5>1. shed'[f] = shed[f]
          BY <2>5, <4>2
        <5>2. \A j \in DOMAIN proposals : proposals[j].effect = f => proposals'[j] = proposals[j]
          BY <2>4, <4>2 DEF e
        <5> QED
          BY <2>4, <4>1, <5>1, <5>2
      <4>3. CASE f = e /\ proposals[i].dispatched
        BY <2>2, <2>4, <2>5, <4>1, <4>3
      <4>4. CASE f = e /\ ~proposals[i].dispatched
        <5>1. \A j \in DOMAIN proposals : proposals[j].effect = f => ~proposals[j].dispatched
          BY <1>1, <4>4 DEF OneProposal, e
        <5>2. shed[f] = 0
          BY <4>1, <5>1
        <5>3. shed'[f] = 1
          BY <2>5, <4>4, <5>2
        <5> QED
          BY <2>2, <2>4, <4>4, <5>3
      <4> QED
        BY <4>2, <4>3, <4>4
    <3> QED
      BY <3>1 DEF CountedOnce
  <2> QED
    BY <1>1, <2>4, <2>5, <2>8, <2>9, <2>10 DEF OnceInv
<1> QED
  BY <1>4, <1>5

\* The gate's queue keeps its type, whoever decides there.
LEMMA QueueStaysTyped ==
  ASSUME approvals \in Seq(Approval), [Next]_vars
  PROVE  approvals' \in Seq(Approval)
<1>1. CASE UNCHANGED approvals
  BY <1>1
<1>2. ASSUME NEW e \in Effects, Enqueued(e) PROVE approvals' \in Seq(Approval)
  <2>1. [effect |-> e, state |-> "pending"] \in Approval
    BY DEF Approval
  <2> QED
    BY <1>2, <2>1 DEF Enqueued
<1>3. ASSUME NEW a, Blocked(a) \/ \E d \in Decisions : Decided(a, d) PROVE approvals' \in Seq(Approval)
  <2>1. PICK s \in {"approved", "rejected"} : approvals' = [approvals EXCEPT ![a].state = s]
    BY <1>3 DEF Blocked, Decided, Decisions
  <2>2. CASE a \in DOMAIN approvals
    <3> DEFINE r == [approvals[a] EXCEPT !.state = s]
    <3>1. approvals[a] \in Approval
      BY <2>2
    <3>2. r \in Approval
      BY <3>1 DEF Approval
    <3>3. approvals' = [approvals EXCEPT ![a] = r]
      BY <2>1
    <3> HIDE DEF r
    <3> QED
      BY <2>2, <3>2, <3>3
  <2>3. CASE a \notin DOMAIN approvals
    <3>1. approvals' = approvals
      BY <2>1, <2>3
    <3> QED
      BY <3>1
  <2> QED
    BY <2>2, <2>3
<1>4. ASSUME NEW e \in Effects, Diverge(e) PROVE approvals' \in Seq(Approval)
  BY <1>1, <1>2, <1>4 DEF Diverge, Reobserve, Propose, ProposeUnheld, ProposeCapped,
                          ProposeUnanswered, gate
<1>5. ASSUME NEW i, Decide(i) \/ DecideUnanswered(i) \/ Refresh(i) PROVE approvals' \in Seq(Approval)
  BY <1>1, <1>3, <1>5 DEF Decide, DecideUnanswered, Refresh, gate
<1>6. ASSUME NEW a, DecideAtGate(a) PROVE approvals' \in Seq(Approval)
  BY <1>3, <1>6 DEF DecideAtGate
<1>7. ASSUME NEW u, NEW t, NEW v, Quiet(u, t, v) \/ Withdraw(u, t, v) PROVE UNCHANGED approvals
  BY <1>7 DEF Quiet, Withdraw, gate
<1> QED
  BY <1>1, <1>4, <1>5, <1>6, <1>7 DEF Next, Restart, vars, gate

LEMMA OnceInductive ==
  ASSUME OnceInv, approvals \in Seq(Approval), [Next]_vars
  PROVE  OnceInv'
<1>1. CASE UNCHANGED <<proposals, shed, restarts>>
  BY <1>1 DEF OnceInv, OneProposal, Told, CountedOnce
<1>2. ASSUME NEW u \in Units, NEW t \in Ticks, NEW v \in Verdicts, Quiet(u, t, v) \/ Withdraw(u, t, v)
      PROVE  OnceInv'
  BY <1>1, <1>2, WithdrawKeepsOnce DEF Quiet
<1>3. ASSUME NEW e \in Effects, Diverge(e) PROVE OnceInv'
  BY <1>1, <1>3, ProposeKeepsOnce DEF Diverge, Reobserve, ProposeCapped, ProposeUnanswered
<1>4. ASSUME NEW i \in DOMAIN proposals, Decide(i) \/ DecideUnanswered(i) \/ Refresh(i)
      PROVE  OnceInv'
  <2>1. CASE Decide(i)
    BY <2>1, ApplyKeepsOnce DEF Decide
  <2>2. CASE Refresh(i)
    BY <2>2, ApplyKeepsOnce DEF Refresh
  <2>3. CASE DecideUnanswered(i)
    BY <1>1, <2>3 DEF DecideUnanswered
  <2> QED
    BY <1>4, <2>1, <2>2, <2>3
<1>5. ASSUME NEW a \in DOMAIN approvals, DecideAtGate(a) PROVE OnceInv'
  BY <1>1, <1>5 DEF DecideAtGate
<1>6. CASE Restart
  BY <1>6 DEF Restart, OnceInv, OneProposal, Told, CountedOnce
<1>7. CASE UNCHANGED vars
  BY <1>1, <1>7 DEF vars
<1> QED
  BY <1>2, <1>3, <1>4, <1>5, <1>6, <1>7 DEF Next

\* For any batteries, ticks and registry, and whatever is lost, decided at the
\* gate, refreshed or forgotten by a restart: a proposal breaker calls approved
\* was dispatched, and in one life of breaker an effect is dispatched at most once
\* (engine.py, _apply_effect_state, _dispatch_once).
THEOREM ReleaseDispatchesOnce == Spec => []ObservedOnce
<1> DEFINE Inv == OnceInv /\ approvals \in Seq(Approval)
<1>1. Init => Inv
  <2>1. Init => proposals \in Seq(Proposal) /\ approvals \in Seq(Approval)
    BY DEF Init
  <2> QED
    BY <2>1 DEF Init, OnceInv, OneProposal, Told, CountedOnce
<1>2. OnceInv => ObservedOnce
  <2> SUFFICES ASSUME OnceInv PROVE ObservedOnce
    OBVIOUS
  <2>1. \A i \in DOMAIN proposals : proposals[i].status = "approved" => shed[proposals[i].effect] > 0
    BY DEF OnceInv, Told
  <2>2. restarts = 0 => \A e \in Effects : shed[e] <= 1
    BY DEF OnceInv, CountedOnce
  <2> QED
    BY <2>1, <2>2 DEF ObservedOnce
<1>3. Inv /\ [Next]_vars => Inv'
  BY OnceInductive, QueueStaysTyped
<1> QED
  BY <1>1, <1>2, <1>3, PTL DEF Spec

-----------------------------------------------------------------------------
(* A divergence is one event, as long as every answer is heard: no fault,  *)
(* no restart, and nobody refreshes (the service never does).              *)

Heard == MaxFaults = 0 /\ MaxRestarts = 0 /\ ~Refreshes

TickOf(i) == proposals[i].effect[2]
UnitOf(i) == proposals[i].effect[1]

EventTypes ==
    /\ recovered \in [Units -> Ticks \cup {0}]
    /\ proposals \in Seq(Proposal) /\ approvals \in Seq(Approval)
    /\ effects \in [Effects -> States]
    /\ faults = 0 /\ restarts = 0

OneOpen ==
    \A i, j \in DOMAIN proposals :
        (IsOpen(proposals[i]) /\ IsOpen(proposals[j]) /\ UnitOf(i) = UnitOf(j)) => i = j

\* What was asked of the gate is known to breaker, under the approval it asked.
AskedIsKnown ==
    /\ \A a \in DOMAIN approvals : Known(approvals[a].effect)
    /\ \A i \in DOMAIN proposals : proposals[i].approval # 0 =>
          /\ proposals[i].approval \in DOMAIN approvals
          /\ approvals[proposals[i].approval].effect = proposals[i].effect

\* A closed proposal whose approval still waits was withdrawn, for a later window.
ClosedIsOver ==
    \A i \in DOMAIN proposals, a \in DOMAIN approvals :
        (approvals[a].effect = proposals[i].effect /\ approvals[a].state = "pending")
        => IsOpen(proposals[i]) \/ recovered[UnitOf(i)] > TickOf(i)

Events ==
    /\ EventTypes /\ OneOpen /\ OneProposal /\ AskedIsKnown /\ OneApprovalPerEffect
    /\ ClosedIsOver /\ NextEventAfterRecovery

\* A step that asks for nothing closes at most, and closes what is over.
Closes ==
    /\ EventTypes'
    /\ DOMAIN proposals' = DOMAIN proposals /\ DOMAIN approvals' = DOMAIN approvals
    /\ \A i \in DOMAIN proposals :
          /\ proposals'[i].effect = proposals[i].effect
          /\ proposals'[i].approval = proposals[i].approval
          /\ IsOpen(proposals'[i]) => IsOpen(proposals[i])
          /\ \/ IsOpen(proposals'[i]) \/ ~IsOpen(proposals[i])
             \/ recovered'[UnitOf(i)] > TickOf(i)
             \/ \A a \in DOMAIN approvals :
                   approvals[a].effect = proposals[i].effect => approvals'[a].state # "pending"
    /\ \A a \in DOMAIN approvals :
          /\ approvals'[a].effect = approvals[a].effect
          /\ approvals'[a].state = "pending" => approvals[a].state = "pending"
    /\ \A u \in Units : recovered'[u] >= recovered[u]

\* A step that keeps a new proposal, asking the gate for an approval or for none.
Asks(e) ==
    /\ EventTypes'
    /\ IsNew(e)
    /\ \E s \in {"proposed", "waiting_at_gate"}, a \in {0, Len(approvals) + 1} :
          /\ proposals' = Append(proposals, NewProposal(e, s, a))
          /\ \/ a = 0 /\ approvals' = approvals
             \/ approvals' = Append(approvals, [effect |-> e, state |-> "pending"])
    /\ \A u \in Units : recovered'[u] >= recovered[u]

LEMMA TicksAreNumbers ==
  Ticks \subseteq Nat /\ Ticks \cup {0} \subseteq Nat
BY GridAssumption

LEMMA RecoveredIsNumber ==
  ASSUME NEW f \in [Units -> Ticks \cup {0}], NEW u \in Units
  PROVE  f[u] \in Nat
<1>1. f[u] \in Ticks \cup {0}
  OBVIOUS
<1> QED
  BY <1>1, TicksAreNumbers

LEMMA EffectHasUnit ==
  ASSUME EventTypes
  PROVE  /\ \A i \in DOMAIN proposals : proposals[i] \in Proposal /\ proposals[i].effect \in Effects
                                     /\ UnitOf(i) \in Units /\ TickOf(i) \in Ticks
         /\ \A a \in DOMAIN approvals : approvals[a] \in Approval /\ approvals[a].effect \in Effects
         /\ \A e \in Effects : e[1] \in Units /\ e[2] \in Ticks /\ e[2] \in Nat
         /\ \A u \in Units : recovered[u] \in Nat
<1>1. \A e \in Effects : e[1] \in Units /\ e[2] \in Ticks /\ e[2] \in Nat
  BY TicksAreNumbers DEF Effects
<1>2. \A i \in DOMAIN proposals : proposals[i] \in Proposal /\ proposals[i].effect \in Effects
  <2>1. \A i \in DOMAIN proposals : proposals[i] \in Proposal
    BY DEF EventTypes
  <2> QED
    BY <2>1 DEF Proposal
<1>3. \A a \in DOMAIN approvals : approvals[a] \in Approval /\ approvals[a].effect \in Effects
  <2>1. \A a \in DOMAIN approvals : approvals[a] \in Approval
    BY DEF EventTypes
  <2> QED
    BY <2>1 DEF Approval
<1>4. \A u \in Units : recovered[u] \in Nat
  BY RecoveredIsNumber DEF EventTypes
<1> QED
  BY <1>1, <1>2, <1>3, <1>4 DEF UnitOf, TickOf

LEMMA ClosesKeeps ==
  ASSUME Events, Closes
  PROVE  Events'
<1>0. /\ \A i \in DOMAIN proposals : UnitOf(i)' = UnitOf(i) /\ TickOf(i)' = TickOf(i)
                                  /\ UnitOf(i) \in Units /\ TickOf(i) \in Nat
      /\ \A a \in DOMAIN approvals : approvals[a].effect[1] \in Units /\ approvals[a].effect[2] \in Nat
      /\ \A u \in Units : recovered[u] \in Nat /\ recovered'[u] \in Nat
  <2>1. \A i \in DOMAIN proposals : UnitOf(i)' = UnitOf(i) /\ TickOf(i)' = TickOf(i)
    BY DEF Closes, UnitOf, TickOf
  <2>2. \A u \in Units : recovered'[u] \in Nat
    BY RecoveredIsNumber DEF Closes, EventTypes
  <2> QED
    BY <2>1, <2>2, EffectHasUnit, TicksAreNumbers DEF Events
<1>1. OneOpen'
  BY <1>0 DEF Events, Closes, OneOpen
<1>2. OneProposal'
  BY DEF Events, Closes, OneProposal
<1>3. AskedIsKnown'
  <2>1. \A e : Known(e) => Known(e)'
    BY DEF Closes, Known
  <2>2. \A a \in DOMAIN approvals : Known(approvals[a].effect)'
    <3> TAKE a \in DOMAIN approvals
    <3>1. PICK e : e = approvals[a].effect
      OBVIOUS
    <3>2. Known(e)'
      BY <2>1, <3>1 DEF Events, AskedIsKnown
    <3> QED
      BY <3>1, <3>2 DEF Closes, Known
  <2> QED
    BY <2>2 DEF Events, Closes, AskedIsKnown
<1>4. OneApprovalPerEffect'
  BY DEF Events, Closes, OneApprovalPerEffect
<1>5. ClosedIsOver'
  <2> SUFFICES ASSUME NEW i \in DOMAIN proposals, NEW a \in DOMAIN approvals,
                      approvals'[a].effect = proposals'[i].effect,
                      approvals'[a].state = "pending", ~IsOpen(proposals'[i])
               PROVE  recovered'[UnitOf(i)] > TickOf(i)
    BY <1>0 DEF ClosedIsOver, Closes, IsOpen
  <2>1. approvals[a].effect = proposals[i].effect /\ approvals[a].state = "pending"
    BY DEF Closes
  <2>2. CASE IsOpen(proposals[i])
    BY <2>1, <2>2 DEF Closes
  <2>3. CASE ~IsOpen(proposals[i])
    <3>1. recovered[UnitOf(i)] > TickOf(i)
      BY <2>1, <2>3 DEF Events, ClosedIsOver
    <3>2. recovered'[UnitOf(i)] >= recovered[UnitOf(i)]
      BY <1>0 DEF Closes
    <3> QED
      BY <1>0, <3>1, <3>2
  <2> QED
    BY <2>2, <2>3
<1>6. NextEventAfterRecovery'
  <2> SUFFICES ASSUME NEW a \in DOMAIN approvals, NEW b \in DOMAIN approvals, a < b,
                      approvals'[a].state = "pending",
                      approvals'[b].effect[1] = approvals'[a].effect[1]
               PROVE  recovered'[approvals'[a].effect[1]] > approvals'[a].effect[2]
    BY DEF NextEventAfterRecovery, Closes
  <2> DEFINE u == approvals[a].effect[1]
             t == approvals[a].effect[2]
  <2>1. /\ approvals'[a].effect = approvals[a].effect /\ approvals'[b].effect = approvals[b].effect
        /\ approvals[a].state = "pending"
    BY DEF Closes
  <2>2. recovered[u] > t
    BY <2>1 DEF Events, NextEventAfterRecovery
  <2>3. recovered'[u] >= recovered[u] /\ recovered'[u] \in Nat /\ recovered[u] \in Nat /\ t \in Nat
    BY <1>0 DEF Closes
  <2> QED
    BY <2>1, <2>2, <2>3
<1> QED
  BY <1>1, <1>2, <1>3, <1>4, <1>5, <1>6 DEF Events, Closes

LEMMA AsksKeeps ==
  ASSUME Events, NEW e \in Effects, Asks(e)
  PROVE  Events'
<1>1. PICK s \in {"proposed", "waiting_at_gate"}, m \in {0, Len(approvals) + 1} :
        /\ proposals' = Append(proposals, NewProposal(e, s, m))
        /\ \/ m = 0 /\ approvals' = approvals
           \/ approvals' = Append(approvals, [effect |-> e, state |-> "pending"])
  BY DEF Asks
<1> DEFINE n == Len(proposals) + 1
           c == Len(approvals) + 1
<1>2. /\ Len(proposals) \in Nat /\ DOMAIN proposals = 1..Len(proposals)
      /\ Len(approvals) \in Nat /\ DOMAIN approvals = 1..Len(approvals)
  BY DEF Events, EventTypes
<1>3. /\ DOMAIN proposals' = 1..n /\ proposals'[n] = NewProposal(e, s, m)
      /\ \A i \in DOMAIN proposals : proposals'[i] = proposals[i]
  <2>1. NewProposal(e, s, m) \in Proposal
    BY <1>1, <1>2 DEF NewProposal, Proposal, Statuses
  <2> QED
    BY <1>1, <2>1 DEF Events, EventTypes
<1>4. /\ proposals'[n].effect = e /\ proposals'[n].approval = m /\ IsOpen(proposals'[n])
      /\ n \notin DOMAIN proposals
  BY <1>2, <1>3 DEF NewProposal, IsOpen
<1>5. \/ m = 0 /\ approvals' = approvals
      \/ /\ DOMAIN approvals' = 1..c /\ approvals'[c].effect = e /\ approvals'[c].state = "pending"
         /\ \A a \in DOMAIN approvals : approvals'[a] = approvals[a]
  <2>1. [effect |-> e, state |-> "pending"] \in Approval /\ approvals \in Seq(Approval)
    BY DEF Events, EventTypes, Approval
  <2>2. CASE approvals' = Append(approvals, [effect |-> e, state |-> "pending"])
    <3>1. /\ DOMAIN approvals' = 1..c /\ approvals'[c] = [effect |-> e, state |-> "pending"]
          /\ \A a \in DOMAIN approvals : approvals'[a] = approvals[a]
      BY <2>1, <2>2
    <3> QED
      BY <3>1
  <2> QED
    BY <1>1, <2>2
<1>6. /\ \A a \in DOMAIN approvals : a \in DOMAIN approvals' /\ approvals'[a] = approvals[a]
      /\ \A a \in DOMAIN approvals' : a \in DOMAIN approvals \/ (a = c /\ approvals'[a].effect = e)
      /\ \A a \in DOMAIN approvals : a < c
  BY <1>2, <1>5
<1>7. \A i \in DOMAIN proposals : proposals[i].effect # e
  BY DEF Asks, IsNew, Known
<1>8. \A a \in DOMAIN approvals : approvals[a].effect # e
  BY <1>7 DEF Events, AskedIsKnown, Known
<1>9. \A i \in DOMAIN proposals : UnitOf(i) = e[1] => ~IsOpen(proposals[i])
  BY DEF Asks, IsNew, OpenFor, UnitOf
<1>10. /\ \A i \in DOMAIN proposals : UnitOf(i) \in Units /\ TickOf(i) \in Nat
       /\ \A u \in Units : recovered[u] \in Nat /\ recovered'[u] \in Nat /\ recovered'[u] >= recovered[u]
       /\ \A a \in DOMAIN approvals : approvals[a].effect[1] \in Units /\ approvals[a].effect[2] \in Nat
  <2>1. \A u \in Units : recovered'[u] \in Nat /\ recovered'[u] >= recovered[u]
    BY RecoveredIsNumber DEF Asks, EventTypes
  <2> QED
    BY <2>1, EffectHasUnit, TicksAreNumbers DEF Events
<1>11. \A i \in DOMAIN proposals' : i \in DOMAIN proposals \/ i = n
  BY <1>2, <1>3
<1> HIDE DEF n, c
<1>12. OneOpen'
  BY <1>3, <1>4, <1>9, <1>11 DEF Events, OneOpen, UnitOf
<1>13. OneProposal'
  BY <1>3, <1>4, <1>7, <1>11 DEF Events, OneProposal
<1>14. AskedIsKnown'
  <2>1. \A i \in DOMAIN proposals : i \in DOMAIN proposals'
    BY <1>2, <1>3 DEF n
  <2>2. n \in DOMAIN proposals'
    BY <1>2, <1>3 DEF n
  <2>3. \A a \in DOMAIN approvals' : \E i \in DOMAIN proposals' : proposals'[i].effect = approvals'[a].effect
    <3> TAKE a \in DOMAIN approvals'
    <3>1. CASE a \in DOMAIN approvals
      <4>1. PICK i \in DOMAIN proposals : proposals[i].effect = approvals[a].effect
        BY <3>1 DEF Events, AskedIsKnown, Known
      <4> QED
        BY <1>3, <1>6, <2>1, <3>1, <4>1
    <3> QED
      BY <1>4, <1>6, <2>2, <3>1
  <2>4. ASSUME NEW i \in DOMAIN proposals', proposals'[i].approval # 0
        PROVE  /\ proposals'[i].approval \in DOMAIN approvals'
               /\ approvals'[proposals'[i].approval].effect = proposals'[i].effect
    <3>1. CASE i \in DOMAIN proposals
      BY <1>3, <1>6, <2>4, <3>1 DEF Events, AskedIsKnown
    <3>2. CASE i = n
      BY <1>1, <1>2, <1>4, <1>5, <2>4, <3>2 DEF c
    <3> QED
      BY <1>11, <3>1, <3>2
  <2> QED
    BY <2>3, <2>4 DEF AskedIsKnown, Known
<1>15. OneApprovalPerEffect'
  BY <1>6, <1>8 DEF Events, OneApprovalPerEffect
<1>16. ClosedIsOver'
  <2> SUFFICES ASSUME NEW i \in DOMAIN proposals', NEW a \in DOMAIN approvals',
                      approvals'[a].effect = proposals'[i].effect,
                      approvals'[a].state = "pending", ~IsOpen(proposals'[i])
               PROVE  recovered'[proposals'[i].effect[1]] > proposals'[i].effect[2]
    BY DEF ClosedIsOver, IsOpen, UnitOf, TickOf
  <2>1. i \in DOMAIN proposals /\ proposals'[i] = proposals[i]
    BY <1>3, <1>4, <1>11
  <2>2. a \in DOMAIN approvals /\ approvals'[a] = approvals[a]
    BY <1>6, <1>7, <2>1
  <2>3. recovered[UnitOf(i)] > TickOf(i)
    BY <2>1, <2>2 DEF Events, ClosedIsOver
  <2> QED
    BY <1>10, <2>1, <2>3 DEF UnitOf, TickOf
<1>17. NextEventAfterRecovery'
  <2> SUFFICES ASSUME NEW a \in DOMAIN approvals', NEW b \in DOMAIN approvals', a < b,
                      approvals'[a].state = "pending",
                      approvals'[b].effect[1] = approvals'[a].effect[1]
               PROVE  recovered'[approvals'[a].effect[1]] > approvals'[a].effect[2]
    BY DEF NextEventAfterRecovery
  <2> DEFINE u == approvals[a].effect[1]
             t == approvals[a].effect[2]
  <2>1. a \in DOMAIN approvals /\ approvals'[a] = approvals[a]
    BY <1>2, <1>6 DEF c
  <2>2. CASE b \in DOMAIN approvals
    <3>1. recovered[u] > t
      BY <1>6, <2>1, <2>2 DEF Events, NextEventAfterRecovery
    <3> QED
      BY <1>10, <2>1, <3>1
  <2>3. CASE approvals'[b].effect = e
    <3>1. PICK i \in DOMAIN proposals : proposals[i].effect = approvals[a].effect
      BY <2>1 DEF Events, AskedIsKnown, Known
    <3>2. UnitOf(i) = e[1] /\ UnitOf(i) = u /\ TickOf(i) = t
      BY <2>1, <2>3, <3>1 DEF UnitOf, TickOf
    <3>3. recovered[u] > t
      BY <1>9, <2>1, <3>1, <3>2 DEF Events, ClosedIsOver
    <3> QED
      BY <1>10, <2>1, <3>3
  <2> QED
    BY <1>6, <2>2, <2>3
<1> QED
  BY <1>12, <1>13, <1>14, <1>15, <1>16, <1>17 DEF Events, Asks

LEMMA JudgedGoesOn ==
  ASSUME EventTypes, NEW u \in Units, NEW t \in Ticks, NEW v, Judged(u, t, v)
  PROVE  /\ recovered' \in [Units -> Ticks \cup {0}]
         /\ \A w \in Units : recovered'[w] >= recovered[w]
         /\ v # "diverged" => recovered'[u] >= t
<1>1. t \in Nat /\ \A w \in Units : recovered[w] \in Nat
  BY RecoveredIsNumber, TicksAreNumbers DEF EventTypes
<1>2. recovered \in [Units -> Ticks \cup {0}]
  BY DEF EventTypes
<1> QED
  BY <1>1, <1>2 DEF Judged

\* An approval is settled and nothing else of the queue moves.
Settled(a, x) ==
    /\ approvals[a].state = "pending"
    /\ approvals' = [approvals EXCEPT ![a].state = x]
    /\ effects' = [effects EXCEPT ![approvals[a].effect] = IF x = "approved" THEN "executed"
                                                           ELSE "rejected"]

LEMMA SettledTypes ==
  ASSUME EventTypes, NEW a \in DOMAIN approvals, NEW x \in {"approved", "rejected"}, Settled(a, x)
  PROVE  /\ approvals' \in Seq(Approval) /\ DOMAIN approvals' = DOMAIN approvals
         /\ effects' \in [Effects -> States]
         /\ effects'[approvals[a].effect] \in {"executed", "rejected"}
         /\ approvals'[a].state = x
         /\ \A b \in DOMAIN approvals :
               /\ approvals'[b].effect = approvals[b].effect
               /\ b # a => approvals'[b] = approvals[b]
<1>1. approvals \in Seq(Approval) /\ effects \in [Effects -> States]
  BY DEF EventTypes
<1>2. approvals[a] \in Approval /\ approvals[a].effect \in Effects
  BY EffectHasUnit
<1> DEFINE r == [approvals[a] EXCEPT !.state = x]
<1>3. r \in Approval /\ r.effect = approvals[a].effect /\ r.state = x
  BY <1>2 DEF Approval
<1>4. approvals' = [approvals EXCEPT ![a] = r]
  BY DEF Settled
<1> HIDE DEF r
<1>5. /\ approvals' \in Seq(Approval) /\ DOMAIN approvals' = DOMAIN approvals
      /\ approvals'[a] = r /\ \A b \in DOMAIN approvals : b # a => approvals'[b] = approvals[b]
  BY <1>1, <1>3, <1>4
<1>6. effects' \in [Effects -> States] /\ effects'[approvals[a].effect] \in {"executed", "rejected"}
  BY <1>1, <1>2 DEF Settled, States
<1> QED
  BY <1>3, <1>5, <1>6

LEMMA DecidedSettles ==
  ASSUME NEW a, NEW d \in Decisions, Decided(a, d)
  PROVE  \E x \in {"approved", "rejected"} : Settled(a, x)
BY DEF Decided, Decisions, Settled

LEMMA GateDecisionCloses ==
  ASSUME Events, NEW a \in DOMAIN approvals, DecideAtGate(a)
  PROVE  Closes
<1>1. PICK x \in {"approved", "rejected"} : Settled(a, x)
  BY DecidedSettles DEF DecideAtGate
<1>2. UNCHANGED <<recovered, proposals, faults, restarts>>
  BY DEF DecideAtGate
<1>3. \A b \in DOMAIN approvals : approvals'[b].effect = approvals[b].effect
                                  /\ (approvals'[b].state = "pending" => approvals[b].state = "pending")
  BY <1>1, SettledTypes DEF Events
<1>4. /\ approvals' \in Seq(Approval) /\ DOMAIN approvals' = DOMAIN approvals
      /\ effects' \in [Effects -> States]
  BY <1>1, SettledTypes DEF Events
<1>5. \A u \in Units : recovered'[u] >= recovered[u]
  BY <1>2, EffectHasUnit DEF Events
<1> QED
  BY <1>2, <1>3, <1>4, <1>5 DEF Closes, Events, EventTypes

LEMMA WithdrawalCloses ==
  ASSUME Events, NEW u \in Units, NEW t \in Ticks, NEW v \in Verdicts, Withdraw(u, t, v)
  PROVE  Closes
<1>1. PICK i \in Cleared(u, t) : proposals' = [proposals EXCEPT ![i].status = "withdrawn"]
  BY DEF Withdraw
<1>2. i \in DOMAIN proposals /\ t > TickOf(i) /\ UnitOf(i) = u
  BY <1>1 DEF Cleared, OpenFor, UnitOf, TickOf
<1>3. /\ proposals \in Seq(Proposal) /\ proposals[i] \in Proposal /\ TickOf(i) \in Nat /\ t \in Nat
      /\ approvals \in Seq(Approval) /\ effects \in [Effects -> States] /\ faults = 0 /\ restarts = 0
  BY <1>2, EffectHasUnit, GridAssumption DEF Events, EventTypes
<1> DEFINE r == [proposals[i] EXCEPT !.status = "withdrawn"]
<1>4. /\ r \in Proposal /\ r.effect = proposals[i].effect /\ r.approval = proposals[i].approval
      /\ ~IsOpen(r)
  BY <1>3 DEF Proposal, Statuses, IsOpen
<1>5. proposals' = [proposals EXCEPT ![i] = r]
  BY <1>1
<1> HIDE DEF r
<1>6. /\ proposals' \in Seq(Proposal) /\ DOMAIN proposals' = DOMAIN proposals
      /\ \A j \in DOMAIN proposals : proposals'[j] = IF j = i THEN r ELSE proposals[j]
  BY <1>2, <1>3, <1>4, <1>5
<1>7. /\ recovered' \in [Units -> Ticks \cup {0}]
      /\ \A w \in Units : recovered'[w] >= recovered[w]
      /\ recovered'[u] >= t
  BY JudgedGoesOn DEF Withdraw, Events
<1>8. recovered'[u] \in Nat
  BY <1>7, RecoveredIsNumber
<1>9. recovered'[UnitOf(i)] > TickOf(i)
  BY <1>2, <1>3, <1>7, <1>8
<1>10. UNCHANGED <<approvals, effects, faults, restarts>>
  BY DEF Withdraw, gate
<1>11. EventTypes'
  BY <1>3, <1>6, <1>7, <1>10 DEF EventTypes
<1>12. \A j \in DOMAIN proposals :
         /\ proposals'[j].effect = proposals[j].effect
         /\ proposals'[j].approval = proposals[j].approval
         /\ IsOpen(proposals'[j]) => IsOpen(proposals[j])
         /\ IsOpen(proposals'[j]) \/ ~IsOpen(proposals[j]) \/ j = i
  BY <1>4, <1>6
<1> QED
  BY <1>6, <1>7, <1>9, <1>10, <1>11, <1>12 DEF Closes

LEMMA RelayedDecisionCloses ==
  ASSUME Heard, Events, NEW i \in DOMAIN proposals, Decide(i)
  PROVE  Closes
<1> DEFINE m == proposals[i].approval
           e == proposals[i].effect
<1>1. m # 0 /\ m \in DOMAIN approvals /\ approvals[m].effect = e
  BY DEF Decide, Events, AskedIsKnown
<1>2. faults = 0 /\ MaxFaults = 0
  BY DEF Heard, Events, EventTypes
<1>3. UNCHANGED <<faults, recovered, restarts>> /\ \E d \in Decisions : Decided(m, d)
  BY <1>2 DEF Decide
<1>4. PICK x \in {"approved", "rejected"} : Settled(m, x)
  BY <1>3, DecidedSettles
<1>5. proposals \in Seq(Proposal) /\ proposals[i] \in Proposal
  BY EffectHasUnit DEF Events, EventTypes
<1>6. effects'[e] \in {"executed", "rejected"}
  BY <1>1, <1>4, SettledTypes DEF Events
<1>7. PICK r : /\ proposals' = [proposals EXCEPT ![i] = r]
               /\ r \in Proposal /\ r.effect = e /\ r.approval = m /\ ~IsOpen(r)
  <2> DEFINE p == proposals[i]
             q == [p EXCEPT !.status = "approved"]
             s == [q EXCEPT !.dispatched = TRUE]
             z == [p EXCEPT !.status = "rejected"]
  <2>1. Apply(i, effects'[e])
    BY DEF Decide
  <2>2. \/ proposals' = [proposals EXCEPT ![i].status = "approved", ![i].dispatched = TRUE]
        \/ proposals' = [proposals EXCEPT ![i].status = "rejected"]
    BY <1>6, <2>1 DEF Apply
  <2>3. CASE proposals' = [proposals EXCEPT ![i].status = "approved", ![i].dispatched = TRUE]
    <3>1. s \in Proposal /\ s.effect = e /\ s.approval = m /\ ~IsOpen(s)
      BY <1>5 DEF Proposal, Statuses, IsOpen
    <3>2. proposals' = [proposals EXCEPT ![i] = s]
      BY <1>5, <2>3
    <3> HIDE DEF s
    <3> QED
      BY <3>1, <3>2
  <2>4. CASE proposals' = [proposals EXCEPT ![i].status = "rejected"]
    <3>1. z \in Proposal /\ z.effect = e /\ z.approval = m /\ ~IsOpen(z)
      BY <1>5 DEF Proposal, Statuses, IsOpen
    <3>2. proposals' = [proposals EXCEPT ![i] = z]
      BY <1>5, <2>4
    <3> HIDE DEF z
    <3> QED
      BY <3>1, <3>2
  <2> QED
    BY <2>2, <2>3, <2>4
<1>8. /\ proposals' \in Seq(Proposal) /\ DOMAIN proposals' = DOMAIN proposals
      /\ \A j \in DOMAIN proposals : proposals'[j] = IF j = i THEN r ELSE proposals[j]
  BY <1>5, <1>7
<1>9. /\ approvals' \in Seq(Approval) /\ DOMAIN approvals' = DOMAIN approvals
      /\ effects' \in [Effects -> States]
      /\ approvals'[m].state = x
      /\ \A b \in DOMAIN approvals :
            /\ approvals'[b].effect = approvals[b].effect
            /\ b # m => approvals'[b] = approvals[b]
  BY <1>1, <1>4, SettledTypes DEF Events
<1>10. \A b \in DOMAIN approvals :
          /\ approvals'[b].state = "pending" => approvals[b].state = "pending"
          /\ approvals[b].effect = e => approvals'[b].state # "pending"
  BY <1>1, <1>9 DEF Events, OneApprovalPerEffect
<1>11. \A u \in Units : recovered'[u] >= recovered[u]
  BY <1>3, EffectHasUnit DEF Events
<1>12. EventTypes'
  BY <1>3, <1>8, <1>9 DEF Events, EventTypes
<1>13. \A j \in DOMAIN proposals :
         /\ proposals'[j].effect = proposals[j].effect
         /\ proposals'[j].approval = proposals[j].approval
         /\ IsOpen(proposals'[j]) => IsOpen(proposals[j])
         /\ IsOpen(proposals'[j]) \/ ~IsOpen(proposals[j]) \/ j = i
  BY <1>7, <1>8
<1> QED
  BY <1>8, <1>9, <1>10, <1>11, <1>12, <1>13 DEF Closes

LEMMA JudgedWindowCloses ==
  ASSUME Events, UNCHANGED <<proposals, approvals, faults, restarts>>,
         effects' \in [Effects -> States],
         recovered' \in [Units -> Ticks \cup {0}], \A u \in Units : recovered'[u] >= recovered[u]
  PROVE  Closes
BY DEF Closes, Events, EventTypes

LEMMA ProposalAsks ==
  ASSUME Events, NEW e \in Effects, Propose(e) \/ ProposeUnheld(e)
  PROVE  Asks(e)
<1>1. e[1] \in Units /\ e[2] \in Ticks
  BY EffectHasUnit DEF Events
<1>2. /\ recovered' \in [Units -> Ticks \cup {0}]
      /\ \A u \in Units : recovered'[u] >= recovered[u]
  BY <1>1, JudgedGoesOn DEF Events, Propose, ProposeUnheld
<1>3. Len(approvals) \in Nat /\ approvals \in Seq(Approval) /\ proposals \in Seq(Proposal)
      /\ effects \in [Effects -> States]
  BY DEF Events, EventTypes
<1>4. PICK s \in {"proposed", "waiting_at_gate"}, m \in {0, Len(approvals) + 1} :
        /\ proposals' = Append(proposals, NewProposal(e, s, m))
        /\ \/ m = 0 /\ approvals' = approvals
           \/ approvals' = Append(approvals, [effect |-> e, state |-> "pending"])
  BY DEF Propose, ProposeUnheld, Enqueued
<1>5. NewProposal(e, s, m) \in Proposal /\ [effect |-> e, state |-> "pending"] \in Approval
  BY <1>3, <1>4 DEF NewProposal, Proposal, Statuses, Approval
<1>6. proposals' \in Seq(Proposal) /\ approvals' \in Seq(Approval)
  <2> DEFINE p == NewProposal(e, s, m)
             a == [effect |-> e, state |-> "pending"]
  <2>1. p \in Proposal /\ a \in Approval
    BY <1>5
  <2>2. proposals' = Append(proposals, p) /\ (approvals' = approvals \/ approvals' = Append(approvals, a))
    BY <1>4
  <2> HIDE DEF p, a
  <2>3. Append(proposals, p) \in Seq(Proposal)
    BY <1>3, <2>1, AppendProperties
  <2>4. Append(approvals, a) \in Seq(Approval)
    BY <1>3, <2>1, AppendProperties
  <2> QED
    BY <1>3, <2>2, <2>3, <2>4
<1>7. effects' \in [Effects -> States]
  BY <1>3 DEF Propose, ProposeUnheld, Enqueued, States
<1>8. EventTypes' /\ IsNew(e)
  BY <1>2, <1>6, <1>7 DEF Events, EventTypes, Propose, ProposeUnheld
<1> QED
  BY <1>2, <1>4, <1>8 DEF Asks

LEMMA EventSteps ==
  ASSUME Heard, Events, [Next]_vars
  PROVE  Closes \/ \E e \in Effects : Asks(e)
<1>0. faults = 0 /\ MaxFaults = 0 /\ restarts = 0 /\ MaxRestarts = 0 /\ ~Refreshes
      /\ effects \in [Effects -> States] /\ recovered \in [Units -> Ticks \cup {0}]
  BY DEF Heard, Events, EventTypes
<1>1. CASE UNCHANGED vars
  <2>1. UNCHANGED <<recovered, proposals, approvals, effects, faults, restarts>>
    BY <1>1 DEF vars, gate
  <2> QED
    BY <1>0, <2>1, EffectHasUnit, JudgedWindowCloses DEF Events
<1>2. ASSUME NEW u \in Units, NEW t \in Ticks, NEW v \in Verdicts, Quiet(u, t, v) PROVE Closes
  BY <1>0, <1>2, JudgedGoesOn, JudgedWindowCloses DEF Quiet, gate, Events
<1>3. ASSUME NEW e \in Effects, Diverge(e) PROVE Closes \/ Asks(e)
  <2>1. e[1] \in Units /\ e[2] \in Ticks
    BY EffectHasUnit DEF Events
  <2>2. CASE Propose(e) \/ ProposeUnheld(e)
    BY <2>2, ProposalAsks
  <2>3. CASE Reobserve(e)
    BY <1>0, <2>1, <2>3, JudgedGoesOn, JudgedWindowCloses DEF Reobserve, gate, Events
  <2>4. CASE ProposeCapped(e)
    <3>1. effects' \in [Effects -> States]
      BY <1>0, <2>4 DEF ProposeCapped, States
    <3> QED
      BY <2>1, <2>4, <3>1, JudgedGoesOn, JudgedWindowCloses DEF ProposeCapped, Events
  <2>5. ~ProposeUnanswered(e)
    BY <1>0 DEF ProposeUnanswered
  <2> QED
    BY <1>3, <2>2, <2>3, <2>4, <2>5 DEF Diverge
<1>4. ASSUME NEW i \in DOMAIN proposals, Decide(i) \/ DecideUnanswered(i) \/ Refresh(i)
      PROVE  Closes
  BY <1>0, <1>4, RelayedDecisionCloses DEF DecideUnanswered, Refresh
<1>5. ~Restart
  BY <1>0 DEF Restart
<1> QED
  BY <1>1, <1>2, <1>3, <1>4, <1>5, WithdrawalCloses, GateDecisionCloses DEF Next

\* A divergence is one event for a human: one open proposal for its battery, one
\* approval for its effect, and while that approval waits a next one only once
\* the battery had recovered, for any batteries, ticks and verdicts, readings in
\* any order and decisions taken on either side (_open_proposal_for,
\* _idempotency_key, _maybe_resolve).
THEOREM OneDivergenceOneEvent ==
  ASSUME Heard
  PROVE  Spec => []OneEvent
<1>1. Init => Events
  <2> SUFFICES ASSUME Init PROVE Events
    OBVIOUS
  <2>1. DOMAIN proposals = {} /\ DOMAIN approvals = {}
    BY DEF Init
  <2>2. EventTypes
    BY DEF Init, EventTypes, States
  <2> QED
    BY <2>1, <2>2 DEF Events, OneOpen, OneProposal, AskedIsKnown, OneApprovalPerEffect,
                      ClosedIsOver, NextEventAfterRecovery
<1>2. Events /\ [Next]_vars => Events'
  BY EventSteps, ClosesKeeps, AsksKeeps
<1>3. Events => OneEvent
  <2> SUFFICES ASSUME Events, NEW u \in Units PROVE Cardinality(OpenFor(u)) <= 1
    BY DEF Events, OneEvent, OneOpenPerUnit
  <2>1. \A i, j \in OpenFor(u) : i = j
    BY DEF Events, OneOpen, OpenFor, UnitOf
  <2>2. OpenFor(u) = {} \/ \E i : OpenFor(u) = {i}
    BY <2>1
  <2> QED
    BY <2>2, FS_EmptySet, FS_Singleton
<1> QED
  BY <1>1, <1>2, <1>3, PTL DEF Spec

=============================================================================
