----------------------------- MODULE GateProofs -----------------------------
(***************************************************************************)
(* Gate for every value of its constants: its types, what releases an      *)
(* effect, what is in the chain first, how often an effect runs, that      *)
(* nothing held is lost, and that queue and records follow the chain.      *)
(***************************************************************************)
EXTENDS GateRefinement, FiniteSetTheorems, WellFoundedInduction, SequenceTheorems, TLAPS

-----------------------------------------------------------------------------
(* A non-empty set of positions of the ledger has a latest one.            *)

Below == {p \in Nat \X Nat : p[1] < p[2]}

LEMMA BelowIsWellFounded == IsWellFoundedOn(Below, Nat)
<1>1. Below = OpToRel(<, Nat)
  BY DEF Below, OpToRel
<1> QED
  BY <1>1, NatLessThanWellFounded

LEMMA MaximumExists ==
  ASSUME NEW n \in Nat, NEW S, S \subseteq 1..n, S # {}
  PROVE  \E x \in S : \A y \in S : y <= x
<1> DEFINE T == {n - x : x \in S}
<1>1. T \subseteq Nat
  <2> SUFFICES ASSUME NEW x \in S PROVE n - x \in Nat
    OBVIOUS
  <2> QED
    BY x \in 1..n
<1>2. T # {}
  OBVIOUS
<1>3. PICK t \in T : \A u \in T : ~ (<<u, t>> \in Below)
  BY <1>1, <1>2, BelowIsWellFounded, WFMin
<1>4. PICK x \in S : t = n - x
  BY <1>3
<1>5. ASSUME NEW y \in S PROVE y <= x
  <2>1. ~ (<<n - y, t>> \in Below)
    BY <1>3
  <2>2. ~ (n - y < n - x)
    BY <2>1, <1>1, <1>4 DEF Below
  <2> QED
    BY <2>2
<1> QED
  BY <1>5

LEMMA LatestIsLast ==
  ASSUME NEW n \in Nat, NEW S, S \subseteq 1..n, S # {}
  PROVE  Latest(S) \in S /\ \A j \in S : j <= Latest(S)
BY MaximumExists DEF Latest

-----------------------------------------------------------------------------
(* Types                                                                   *)

\* The line the running handler is about to append is a ledger line.
LEMMA NextLineType ==
  ASSUME TypeOK, loop.at \in DOMAIN Event
  PROVE  NextLine \in LedgerLine
<1> USE DEF TypeOK
<1>1. loop.n \in Submissions => Marked(loop.n) \in Statuses \cup {"lost"}
  BY DEF Marked, Mark, Statuses
<1>2. CASE loop.at = "untraceable"
  BY <1>2 DEF NextLine, Line, LedgerLine, Event, Running, Coroutines
<1>3. CASE loop.at \in {"refuse", "decided"}
  BY <1>3 DEF NextLine, Line, LedgerLine, Event, Running, Coroutines
<1>4. CASE loop.at = "mirror"
  BY <1>4 DEF NextLine, Line, LedgerLine, Event, Running, Coroutines
<1>5. CASE loop.at \in {"propose", "cap", "queue", "reject", "approve",
                        "execute", "executed", "blocked"}
  BY <1>1, <1>5 DEF NextLine, Line, LedgerLine, Event, Running, Coroutines,
                    EffectEvents
<1> QED
  BY <1>2, <1>3, <1>4, <1>5 DEF Event

LEMMA AppendsTypes ==
  ASSUME TypeOK, NEW p \in DOMAIN Event, Appends(p)
  PROVE  /\ ledger' \in Seq(LedgerLine)
         /\ status' \in [Submissions -> Statuses \cup {"lost"}]
<1>1. NextLine \in LedgerLine
  BY NextLineType DEF Appends
<1>2. ledger \in Seq(LedgerLine)
  BY DEF TypeOK
<1>3. ledger' \in Seq(LedgerLine)
  BY <1>1, <1>2, AppendProperties DEF Appends
<1>4. status' \in [Submissions -> Statuses \cup {"lost"}]
  BY DEF TypeOK, Appends, SetStatus, Marked, Mark, Statuses
<1> QED
  BY <1>3, <1>4

LEMMA TypeInit == Init => TypeOK
<1> SUFFICES ASSUME Init PROVE TypeOK
  OBVIOUS
<1> QED
  BY ConstantsAssumption, EmptySeq
  DEF Init, TypeOK, Submissions, Anyone, States, Approvals, Running, Idle,
      Coroutine, Suspended

LEMMA TypeSignal ==
  ASSUME TypeOK, NEW b \in SignalBodies, IngestSignal(b)
  PROVE  TypeOK'
<1>1. Line("signal.ingested", 0, "none", b) \in LedgerLine
  BY DEF Line, LedgerLine
<1>2. ledger' \in Seq(LedgerLine)
  BY <1>1, AppendProperties DEF TypeOK, IngestSignal
<1> QED
  BY <1>2 DEF TypeOK, IngestSignal, memory, bounds, Submissions, Anyone, IdOf,
              Running, Suspended, Coroutines, LedgerLine

LEMMA TypeSubmit ==
  ASSUME TypeOK, NEW p \in Proposals, Submit(p)
  PROVE  TypeOK'
<1> DEFINE k == Len(content) + 1
<1>1. Classify(p) \in Rules
  BY ConstantsAssumption DEF Classify, RuleFor, Rules, TypeOK, ProposalBody
<1>2. /\ content' \in Seq([proposal : Proposals, rule : Rules])
      /\ Len(content') = k
      /\ \A n \in Submissions : content'[n] = content[n]
      /\ content'[k] = [proposal |-> p, rule |-> Classify(p)]
  BY <1>1, AppendProperties DEF TypeOK, Submit, Submissions
<1>3. Submissions' = Submissions \cup {k} /\ k \in Submissions'
  BY <1>2 DEF TypeOK, Submissions
<1>4. p.id \in Ids
  BY ConstantsAssumption DEF Submit, Traceable, ProposalBody
<1>5. \A n \in Submissions' : IdOf(n)' \in Ids
  BY <1>2, <1>3, <1>4 DEF TypeOK, IdOf
<1>6. LedgerLine \subseteq LedgerLine'
  BY <1>3 DEF LedgerLine
<1>7. ledger' \in Seq(LedgerLine')
  BY <1>6, SeqMonotonic DEF TypeOK, Submit
<1>8. status' \in [Submissions' -> Statuses \cup {"lost"}]
  <2>1. Submissions' = 1..k
    BY <1>2 DEF TypeOK, Submissions
  <2> QED
    BY <2>1, <1>3 DEF TypeOK, Submit, Statuses
<1>9. effects' \in [Ids -> Anyone'] /\ told' \subseteq Anyone' \X Anyone'
  BY <1>3 DEF TypeOK, Submit, Anyone
<1>10. loop' \in Running' /\ loop'.at # "decided"
  BY <1>3 DEF Submit, Continue, Coroutine, Running, Coroutines, Anyone
<1>11. parked' \subseteq Suspended'
  BY <1>3 DEF TypeOK, Submit, Continue, Suspended, Coroutines, Anyone
<1>12. ran' \in Seq([n : Submissions', a : Anyone', seq : Nat])
  <2>1. [n : Submissions, a : Anyone, seq : Nat]
          \subseteq [n : Submissions', a : Anyone', seq : Nat]
    BY <1>3 DEF Anyone
  <2> QED
    BY <2>1, SeqMonotonic DEF TypeOK, Submit
<1>13. Len(content') <= MaxSubmits
  BY <1>2, ConstantsAssumption DEF Submit, TypeOK
<1> QED
  BY <1>2, <1>5, <1>7, <1>8, <1>9, <1>10, <1>11, <1>12, <1>13
  DEF TypeOK, Submit, bounds

\* The steps that append a line and end the handler or move it on.
LEMMA TypeHandler ==
  ASSUME TypeOK, Handler
  PROVE  TypeOK'
<1> DEFINE n == loop.n
<1> USE DEF TypeOK, Submissions, Anyone, IdOf, Running, Suspended, Coroutines,
            LedgerLine, bounds
<1>1. CASE Untraceable
  <2>1. /\ ledger' \in Seq(LedgerLine)
        /\ status' \in [Submissions -> Statuses \cup {"lost"}]
    BY <1>1, AppendsTypes DEF Untraceable, Event
  <2> QED
    BY <1>1, <2>1 DEF Untraceable, Appends, Return, Idle, Coroutine
<1>2. CASE Propose
  <2>1. /\ ledger' \in Seq(LedgerLine)
        /\ status' \in [Submissions -> Statuses \cup {"lost"}]
    BY <1>2, AppendsTypes DEF Propose, Event
  <2>2. loop' \in Running /\ loop'.at # "decided" /\ parked' = parked
    BY <1>2 DEF Propose, Appends, Continue
  <2>3. effects' \in [Ids -> Anyone]
    BY <1>2 DEF Propose, Appends
  <2> QED
    BY <1>2, <2>1, <2>2, <2>3 DEF Propose, Appends
<1>3. CASE Cap
  <2>1. ledger' \in Seq(LedgerLine)
    BY <1>3, NextLineType, AppendProperties DEF Cap, Event
  <2>2. /\ effects' \in [Ids -> Anyone]
        /\ status' \in [Submissions -> Statuses \cup {"lost"}]
    BY <1>3 DEF Cap, Statuses
  <2> QED
    BY <1>3, <2>1, <2>2 DEF Cap, Return, Idle, Coroutine
<1>4. CASE Enqueue
  <2>1. items' \in [Approvals -> States]
    BY <1>4 DEF Enqueue, States
  <2>2. loop.at = "enqueue"
    BY <1>4 DEF Enqueue
  <2>3. \/ /\ cache' = items'
           /\ loop' = [loop EXCEPT !.at = "queue"]
           /\ faults' = faults
        \/ /\ faults < MaxFaults
           /\ faults' = faults + 1
           /\ loop' = Idle
           /\ cache' = cache
    BY <1>4 DEF Enqueue, Continue, Return, Fault
  <2>4. parked' = parked
    BY <1>4 DEF Enqueue, Continue, Return
  <2>5. /\ [loop EXCEPT !.at = "queue"] \in Running
        /\ [loop EXCEPT !.at = "queue"].at = "queue"
        /\ Idle \in Running
        /\ Idle.at = "idle"
    BY <2>2 DEF Idle, Coroutine
  <2>6. loop' \in Running /\ loop'.at # "decided"
    BY <2>3, <2>5
  <2>7. faults' \in 0..MaxFaults
    BY <2>3, ConstantsAssumption
  <2>8. cache' \in [Approvals -> States]
    BY <2>1, <2>3
  <2> QED
    BY <1>4, <2>1, <2>4, <2>6, <2>7, <2>8 DEF Enqueue
<1>5. CASE Queue
  <2>1. /\ ledger' \in Seq(LedgerLine)
        /\ status' \in [Submissions -> Statuses \cup {"lost"}]
    BY <1>5, AppendsTypes DEF Queue, Event
  <2>2. loop' = Idle /\ parked' \subseteq Suspended
    BY <1>5 DEF Queue, Appends, Await
  <2> QED
    BY <1>5, <2>1, <2>2 DEF Queue, Appends, Idle, Coroutine
<1>6. CASE Refuse
  <2>1. /\ ledger' \in Seq(LedgerLine)
        /\ status' \in [Submissions -> Statuses \cup {"lost"}]
    BY <1>6, AppendsTypes DEF Refuse, Event
  <2> QED
    BY <1>6, <2>1 DEF Refuse, Appends, Return, Idle, Coroutine
<1>7. CASE Decided
  <2>1. /\ ledger' \in Seq(LedgerLine)
        /\ status' \in [Submissions -> Statuses \cup {"lost"}]
    BY <1>7, AppendsTypes DEF Decided, Event
  <2>2. loop' \in Running /\ loop'.at # "decided" /\ parked' = parked
    BY <1>7 DEF Decided, Appends, Continue, Return, Idle, Coroutine
  <2> QED
    BY <1>7, <2>1, <2>2 DEF Decided, Appends
<1>8. CASE Reject
  <2>1. /\ ledger' \in Seq(LedgerLine)
        /\ status' \in [Submissions -> Statuses \cup {"lost"}]
    BY <1>8, AppendsTypes DEF Reject, Event
  <2>2. effects' \in [Ids -> Anyone]
    BY <1>8 DEF Reject, Appends
  <2> QED
    BY <1>8, <2>1, <2>2 DEF Reject, Appends, Return, Idle, Coroutine
<1>9. CASE Approve
  <2>1. /\ ledger' \in Seq(LedgerLine)
        /\ status' \in [Submissions -> Statuses \cup {"lost"}]
    BY <1>9, AppendsTypes DEF Approve, Event
  <2>2. loop' \in Running /\ loop'.at # "decided" /\ parked' = parked
    BY <1>9 DEF Approve, Appends, Continue
  <2> QED
    BY <1>9, <2>1, <2>2 DEF Approve, Appends
<1>10. CASE Execute
  <2>1. /\ ledger' \in Seq(LedgerLine)
        /\ status' \in [Submissions -> Statuses \cup {"lost"}]
    BY <1>10, AppendsTypes DEF Execute, Event
  <2>2. loop' = Idle /\ parked' \subseteq Suspended
    BY <1>10 DEF Execute, Appends, Await
  <2> QED
    BY <1>10, <2>1, <2>2 DEF Execute, Appends, Idle, Coroutine
<1>11. CASE Mirror
  <2>1. /\ ledger' \in Seq(LedgerLine)
        /\ status' \in [Submissions -> Statuses \cup {"lost"}]
    BY <1>11, AppendsTypes DEF Mirror, Event
  <2>2. loop' \in Running /\ loop'.at # "decided" /\ parked' = parked
    BY <1>11 DEF Mirror, Appends, Continue, Return, Idle, Coroutine
  <2>3. effects' \in [Ids -> Anyone]
    BY <1>11 DEF Mirror, Appends
  <2> QED
    BY <1>11, <2>1, <2>2, <2>3 DEF Mirror, Appends
<1>12. ASSUME NEW p \in {"executed", "blocked"}, Settle(p) PROVE TypeOK'
  <2>1. /\ ledger' \in Seq(LedgerLine)
        /\ status' \in [Submissions -> Statuses \cup {"lost"}]
    BY <1>12, AppendsTypes DEF Settle, Event
  <2>2. effects' \in [Ids -> Anyone]
    BY <1>12 DEF Settle, Appends
  <2> QED
    BY <1>12, <2>1, <2>2 DEF Settle, Appends, Return, Idle, Coroutine
<1> QED
  BY <1>1, <1>2, <1>3, <1>4, <1>5, <1>6, <1>7, <1>8, <1>9, <1>10, <1>11, <1>12
  DEF Handler

LEMMA TypeRequest ==
  ASSUME TypeOK, Request
  PROVE  TypeOK'
<1> USE DEF TypeOK, Submissions, Anyone, IdOf, Running, Suspended, Coroutines,
            LedgerLine, bounds
<1>1. ASSUME NEW b \in SignalBodies, IngestSignal(b) PROVE TypeOK'
  BY <1>1, TypeSignal
<1>2. ASSUME NEW p \in Proposals, Submit(p) PROVE TypeOK'
  BY <1>2, TypeSubmit
<1>3. ASSUME NEW p \in Proposals, RefuseUntraceable(p) PROVE TypeOK'
  BY <1>3, ConstantsAssumption
  DEF RefuseUntraceable, Continue, Coroutine
<1>4. ASSUME NEW a \in Submissions, NEW d \in Decisions, RefuseDecision(a, d)
      PROVE  TypeOK'
  BY <1>4, ConstantsAssumption
  DEF RefuseDecision, Continue, Coroutine
<1>5. ASSUME NEW a \in Submissions, NEW d \in Decisions, Decide(a, d)
      PROVE  TypeOK'
  <2>1. items' \in [Approvals -> States]
    BY <1>5 DEF Decide, Outcome, States
  <2>2. \/ /\ cache' = items'
           /\ loop' = Coroutine("decided", a, a, d)
           /\ faults' = faults
        \/ /\ faults < MaxFaults
           /\ faults' = faults + 1
           /\ loop' = Idle
           /\ cache' = cache
    BY <1>5 DEF Decide, Continue, Return, Fault
  <2>3. parked' = parked
    BY <1>5 DEF Decide, Continue, Return
  <2>4. /\ Coroutine("decided", a, a, d) \in Running
        /\ Coroutine("decided", a, a, d).a # 0
        /\ Idle \in Running
        /\ Idle.at = "idle"
    BY DEF Idle, Coroutine
  <2>5. loop' \in Running /\ (loop'.at = "decided" => loop'.a # 0)
    BY <2>2, <2>4
  <2>6. faults' \in 0..MaxFaults
    BY <2>2, ConstantsAssumption
  <2>7. cache' \in [Approvals -> States]
    BY <2>1, <2>2
  <2> QED
    BY <1>5, <2>1, <2>3, <2>5, <2>6, <2>7 DEF Decide
<1> QED
  BY <1>1, <1>2, <1>3, <1>4, <1>5 DEF Request

LEMMA TypeRelay ==
  ASSUME TypeOK, NEW c \in parked, Relay(c) \/ Resume(c)
  PROVE  TypeOK'
<1> DEFINE Run == [n : Submissions, a : Anyone, seq : Nat]
           run == [n |-> c.n, a |-> c.a, seq |-> Len(ledger)]
<1>1. /\ c \in Suspended
      /\ ran \in Seq(Run)
  BY DEF TypeOK
<1>2. run \in Run
  BY <1>1 DEF TypeOK, Suspended, Coroutines
<1>3. Append(ran, run) \in Seq(Run)
  BY <1>1, <1>2, AppendProperties
<1> USE DEF TypeOK, Submissions, Anyone, IdOf, Running, Suspended, Coroutines,
            LedgerLine, bounds
<1>4. CASE Relay(c)
  <2>1. PICK v \in Verdicts(c) :
          /\ IF v = "error" THEN Fault ELSE UNCHANGED faults
          /\ parked' = (parked \ {c}) \cup {[c EXCEPT !.verdict = v]}
          /\ ran' = IF v \in {"allowed", "error"} THEN Append(ran, run) ELSE ran
    BY <1>4 DEF Relay
  <2>2. v \in Verdict
    BY DEF Verdicts, Verdict
  <2>3. parked' \subseteq Suspended
    BY <2>1, <2>2
  <2>4. ran' \in Seq(Run)
    <3>1. ran' \in {ran, Append(ran, run)}
      BY <2>1
    <3> HIDE DEF Run, run
    <3> QED
      BY <3>1, <1>1, <1>3
  <2>5. faults' \in 0..MaxFaults
    <3>1. \/ faults' = faults
          \/ faults < MaxFaults /\ faults' = faults + 1
      BY <2>1 DEF Fault
    <3> QED
      BY <3>1, ConstantsAssumption
  <2> QED
    BY <1>4, <2>3, <2>4, <2>5 DEF Relay
<1>5. CASE Resume(c)
  <2>1. loop' \in Running /\ loop'.at # "decided"
    BY <1>5 DEF Resume
  <2>2. parked' \subseteq Suspended
    BY <1>5 DEF Resume
  <2> QED
    BY <1>5, <2>1, <2>2 DEF Resume
<1> QED
  BY <1>4, <1>5

LEMMA TypeLedgerFails ==
  ASSUME TypeOK, LedgerFails
  PROVE  TypeOK'
<1>1. ledger' \in Seq(LedgerLine)
  <2>1. NextLine \in LedgerLine /\ ledger \in Seq(LedgerLine)
    BY NextLineType DEF LedgerFails, TypeOK
  <2> QED
    BY <2>1, AppendProperties DEF LedgerFails
<1> USE DEF TypeOK, Submissions, Anyone, IdOf, Running, Suspended, Coroutines,
            LedgerLine
<1>2. status' \in [Submissions -> Statuses \cup {"lost"}]
  BY DEF LedgerFails, SetStatus, Marked, Mark, Statuses
<1>3. told' \subseteq Anyone \X Anyone
  BY DEF LedgerFails
<1>4. faults' \in 0..MaxFaults
  BY ConstantsAssumption DEF LedgerFails, Fault
<1> QED
  BY <1>1, <1>2, <1>3, <1>4 DEF LedgerFails, Return, Idle, Coroutine

LEMMA TypeCrash ==
  ASSUME TypeOK, Crash
  PROVE  TypeOK'
<1>1. /\ items' \in [Approvals -> States]
      /\ effects' \in [Ids -> Anyone]
      /\ status' \in [Submissions -> Statuses \cup {"lost"}]
  BY DEF Crash, States, Anyone
<1>2. crashes' \in 0..MaxCrashes
  BY ConstantsAssumption DEF Crash, TypeOK
<1>3. /\ loop' \in Running
      /\ loop'.at = "idle"
      /\ parked' = {}
  BY DEF Crash, Running, Idle, Coroutine
<1> QED
  BY <1>1, <1>2, <1>3
  DEF Crash, TypeOK, Submissions, Anyone, IdOf, Running, Suspended, Coroutines,
      LedgerLine

\* A boot finds a record for an effect id in the chain or none at all.
LEMMA RestoredType ==
  ASSUME TypeOK, NEW e \in Ids
  PROVE  /\ Restored(e) \in Anyone
         /\ Restored(e) # 0 => IdOf(Restored(e)) = e
         /\ EffectLines(e) # {} =>
              /\ Latest(EffectLines(e)) \in EffectLines(e)
              /\ ledger[Latest(EffectLines(e))].says \in Statuses \cup {"lost"}
<1>1. EffectLines(e) \subseteq 1..Len(ledger)
  BY DEF EffectLines, TypeOK
<1>2. CASE EffectLines(e) = {}
  BY <1>2 DEF Restored, Anyone
<1>3. CASE EffectLines(e) # {}
  <2> DEFINE i == Latest(EffectLines(e))
  <2>1. i \in EffectLines(e)
    BY <1>1, <1>3, LatestIsLast DEF TypeOK
  <2>2. ledger[i] \in LedgerLine /\ ledger[i].sub # 0
    BY <2>1 DEF EffectLines, TypeOK
  <2>3. ledger[i].sub \in Submissions /\ ledger[i].type \in EffectEvents
    BY <2>1, <2>2 DEF LedgerLine, EffectLines
  <2>4. ledger[i].says \in Statuses \cup {"lost"}
    BY <2>2, <2>3 DEF LedgerLine, EffectEvents
  <2> QED
    BY <1>3, <2>1, <2>3, <2>4 DEF Restored, EffectLines, Anyone
<1> QED
  BY <1>2, <1>3

LEMMA TypeRestart ==
  ASSUME TypeOK, Restart
  PROVE  TypeOK'
<1>1. PICK cached \in {cache, [a \in Approvals |-> "absent"]} :
        /\ items' = [a \in Approvals |-> LoadedItem(a, cached)]
        /\ \/ UNCHANGED <<cache, faults>>
           \/ Fault /\ cache' = items'
        /\ ledger' \in {Append(ledger, Line("approvals.alarm", 0, "none", None)),
                        ledger}
  BY DEF Restart
<1>2. cached \in [Approvals -> States]
  BY <1>1 DEF TypeOK, States
<1>3. items' \in [Approvals -> States]
  <2>1. ASSUME NEW a \in Approvals PROVE LoadedItem(a, cached) \in States
    BY <1>2 DEF LoadedItem, LedgerItem, Outcome, States
  <2> QED
    BY <1>1, <2>1
<1>4. cache' \in [Approvals -> States] /\ faults' \in 0..MaxFaults
  BY <1>1, <1>3, ConstantsAssumption DEF TypeOK, Fault
<1>5. ledger' \in Seq(LedgerLine)
  <2>1. Line("approvals.alarm", 0, "none", None) \in LedgerLine
    BY DEF Line, LedgerLine
  <2>2. ledger \in Seq(LedgerLine)
    BY DEF TypeOK
  <2> QED
    BY <1>1, <2>1, <2>2, AppendProperties
<1>6. effects' \in [Ids -> Anyone]
  BY RestoredType DEF Restart
<1>7. status' \in [Submissions -> Statuses \cup {"lost"}]
  <2>1. ASSUME NEW n \in Submissions
        PROVE  RestoredStatus(n) \in Statuses \cup {"lost"}
    <3>1. IdOf(n) \in Ids
      BY DEF TypeOK
    <3>2. CASE Restored(IdOf(n)) = n
      <4>1. n # 0
        BY DEF Submissions, TypeOK
      <4>2. EffectLines(IdOf(n)) # {}
        BY <3>2, <4>1 DEF Restored
      <4> QED
        BY <3>1, <3>2, <4>2, RestoredType DEF RestoredStatus
    <3> QED
      BY <3>2 DEF RestoredStatus
  <2> QED
    BY <2>1 DEF Restart
<1> QED
  BY <1>3, <1>4, <1>5, <1>6, <1>7
  DEF Restart, TypeOK, Submissions, Anyone, IdOf, Running, Suspended,
      Coroutines, LedgerLine

\* The values of the variables stay in their sets.
THEOREM TypeCorrect == Spec => []TypeOK
<1>1. Init => TypeOK
  BY TypeInit
<1>2. TypeOK /\ [Next]_vars => TypeOK'
  <2> SUFFICES ASSUME TypeOK, [Next]_vars PROVE TypeOK'
    OBVIOUS
  <2>1. CASE UNCHANGED vars
    BY <2>1 DEF vars, memory, bounds, TypeOK, Submissions, Anyone, IdOf,
                Running, Suspended, Coroutines, LedgerLine
  <2> QED
    BY <2>1, TypeRequest, TypeHandler, TypeRelay, TypeLedgerFails, TypeCrash,
       TypeRestart DEF Next
<1> QED
  BY <1>1, <1>2, PTL DEF Spec

-----------------------------------------------------------------------------
(* The chain and the submissions only grow.                                *)

Grows ==
    /\ Len(ledger) <= Len(ledger')
    /\ \A i \in DOMAIN ledger : i \in DOMAIN ledger' /\ ledger'[i] = ledger[i]
    /\ \A n \in Submissions : n \in Submissions' /\ content'[n] = content[n]

LEMMA AppendGrows ==
  ASSUME NEW S, NEW s \in Seq(S), NEW t, NEW l, t \in {s, Append(s, l)}
  PROVE  /\ Len(s) <= Len(t)
         /\ \A i \in DOMAIN s : i \in DOMAIN t /\ t[i] = s[i]
<1>1. CASE t = s
  BY <1>1
<1>2. CASE t = Append(s, l)
  <2>1. s \in Seq(S \cup {l})
    BY SeqMonotonic
  <2>2. /\ Len(t) = Len(s) + 1
        /\ \A i \in 1..Len(s) : t[i] = s[i]
        /\ t \in Seq(S \cup {l})
    BY <1>2, <2>1, AppendProperties
  <2> QED
    BY <2>2
<1> QED
  BY <1>1, <1>2

LEMMA LedgerSteps ==
  ASSUME TypeOK, [Next]_vars
  PROVE  \/ ledger' = ledger
         \/ \E l : ledger' = Append(ledger, l)
<1>1. ASSUME NEW p \in DOMAIN Event, Appends(p)
      PROVE  \E l : ledger' = Append(ledger, l)
  BY <1>1 DEF Appends
<1>2. CASE Handler
  BY <1>2 DEF Handler, Appends, Untraceable, Propose, Cap, Enqueue, Queue,
    Refuse, Decided, Reject, Approve, Execute, Mirror, Settle
<1>3. CASE Request
  BY <1>3 DEF Request, IngestSignal, Submit, RefuseUntraceable, RefuseDecision,
    Decide
<1>4. CASE \E c \in parked : Relay(c) \/ Resume(c)
  BY <1>4 DEF Relay, Resume
<1>5. CASE LedgerFails \/ Crash \/ Restart
  BY <1>5 DEF LedgerFails, Crash, Restart
<1>6. CASE UNCHANGED vars
  BY <1>6 DEF vars
<1> QED
  BY <1>2, <1>3, <1>4, <1>5, <1>6 DEF Next

LEMMA ContentSteps ==
  ASSUME TypeOK, [Next]_vars
  PROVE  \/ content' = content
         \/ \E l : content' = Append(content, l)
<1>1. CASE Handler
  BY <1>1 DEF Handler, Appends, Untraceable, Propose, Cap, Enqueue, Queue,
    Refuse, Decided, Reject, Approve, Execute, Mirror, Settle
<1>2. CASE Request
  BY <1>2 DEF Request, IngestSignal, Submit, RefuseUntraceable, RefuseDecision,
    Decide
<1>3. CASE \E c \in parked : Relay(c) \/ Resume(c)
  BY <1>3 DEF Relay, Resume
<1>4. CASE LedgerFails \/ Crash \/ Restart
  BY <1>4 DEF LedgerFails, Crash, Restart
<1>5. CASE UNCHANGED vars
  BY <1>5 DEF vars
<1> QED
  BY <1>1, <1>2, <1>3, <1>4, <1>5 DEF Next

LEMMA AlwaysGrows ==
  ASSUME TypeOK, [Next]_vars
  PROVE  Grows
<1>1. PICK l : ledger' \in {ledger, Append(ledger, l)}
  BY LedgerSteps
<1>2. PICK c : content' \in {content, Append(content, c)}
  BY ContentSteps
<1>3. ledger \in Seq(LedgerLine) /\ content \in Seq([proposal : Proposals, rule : Rules])
  BY DEF TypeOK
<1>4. /\ Len(ledger) <= Len(ledger')
      /\ \A i \in DOMAIN ledger : i \in DOMAIN ledger' /\ ledger'[i] = ledger[i]
  BY <1>1, <1>3, AppendGrows
<1>5. \A i \in DOMAIN content : i \in DOMAIN content' /\ content'[i] = content[i]
  BY <1>2, <1>3, AppendGrows
<1> QED
  BY <1>4, <1>5 DEF Grows, Submissions

-----------------------------------------------------------------------------
(* What a coroutine may hold: it executes an effect only if the effect is  *)
(* auto-executing or an approve of an approval for its id is in the chain. *)

Approved(a) ==
    \E i \in DOMAIN ledger :
        /\ ledger[i].type = "approval.decided"
        /\ ledger[i].sub = a
        /\ ledger[i].body.decision = "approve"

Releasable(n, a) ==
    \/ a = 0 /\ ClassOf(n) = "auto"
    \/ a # 0 /\ IdOf(a) = IdOf(n) /\ Approved(a)

\* Effects are kept under their own id; an approval is decided for itself;
\* whoever is about to execute, or has called Relay to, is entitled to.
RecordsById  == \A e \in Ids : effects[e] # 0 => IdOf(effects[e]) = e
DecidesOwn   == loop.at = "decided" => loop.a = loop.n
ProposesUnapproved == loop.at = "propose" => loop.a = 0
LoopReleased == loop.at \in {"approve", "execute"} => Releasable(loop.n, loop.a)
RunsReleased == \A c \in parked : c.at = "run" => Releasable(c.n, c.a)
RunsLedgered ==
    \A c \in parked : c.at = "run" =>
        \E i \in DOMAIN ledger : /\ ledger[i].type = "effect.executing"
                               /\ ledger[i].sub = c.n

Releases ==
    RecordsById /\ DecidesOwn /\ ProposesUnapproved /\ LoopReleased /\ RunsReleased
    /\ RunsLedgered

LEMMA ReleasableStays ==
  ASSUME TypeOK, TypeOK', Grows, NEW n \in Submissions,
         NEW a \in Anyone, Releasable(n, a)
  PROVE  Releasable(n, a)'
<1>1. CASE a = 0
  BY <1>1 DEF Grows, Releasable, ClassOf
<1>2. CASE a # 0
  <2>1. a \in Submissions /\ IdOf(a)' = IdOf(a) /\ IdOf(n)' = IdOf(n)
    BY <1>2 DEF Anyone, Grows, IdOf
  <2>2. PICK i \in DOMAIN ledger : /\ ledger[i].type = "approval.decided"
                                  /\ ledger[i].sub = a
                                  /\ ledger[i].body.decision = "approve"
    BY <1>2 DEF Releasable, Approved
  <2>3. i \in DOMAIN ledger' /\ ledger'[i] = ledger[i]
    BY DEF Grows
  <2> QED
    BY <1>2, <2>1, <2>2, <2>3 DEF Releasable, Approved
<1> QED
  BY <1>1, <1>2

\* Parked coroutines keep what they have; this covers every step that adds
\* none to them.
LEMMA ParkedStays ==
  ASSUME TypeOK, TypeOK', Grows, RunsReleased, RunsLedgered, NEW c \in parked,
         NEW b, b.at = "run" => c.at = "run", b.n = c.n, b.a = c.a, b.at = "run"
  PROVE  /\ Releasable(b.n, b.a)'
         /\ \E i \in DOMAIN ledger' : /\ ledger'[i].type = "effect.executing"
                                     /\ ledger'[i].sub = b.n
<1>1. c.n \in Submissions /\ c.a \in Anyone
  BY DEF TypeOK, Suspended, Coroutines
<1>2. Releasable(b.n, b.a)
  BY DEF RunsReleased, Releasable
<1>3. Releasable(b.n, b.a)'
  BY <1>1, <1>2, ReleasableStays
<1>4. PICK i \in DOMAIN ledger : /\ ledger[i].type = "effect.executing"
                                /\ ledger[i].sub = c.n
  BY DEF RunsLedgered
<1>5. i \in DOMAIN ledger' /\ ledger'[i] = ledger[i]
  BY DEF Grows
<1> QED
  BY <1>3, <1>4, <1>5

\* Where the loop can come to approve, execute or record a decision.
LEMMA LoopSteps ==
  ASSUME TypeOK, [Next]_vars, loop'.at \in {"approve", "execute", "decided"}
  PROVE  \/ loop' = loop
         \/ Propose \/ Decided \/ Approve
         \/ \E a \in Submissions, d \in Decisions : Decide(a, d)
<1>1. CASE Handler
  BY <1>1 DEF Handler, Appends, Untraceable, Cap, Enqueue, Queue, Refuse, Reject,
    Execute, Mirror, Settle, Return, Continue, Await, Idle, Coroutine, TypeOK,
    Running, Coroutines
<1>2. CASE Request
  <2>1. ASSUME NEW b \in SignalBodies, IngestSignal(b) PROVE loop' = loop
    BY <2>1 DEF IngestSignal, memory
  <2>2. ASSUME NEW p \in Proposals, Submit(p) \/ RefuseUntraceable(p) PROVE FALSE
    BY <2>2 DEF Submit, RefuseUntraceable, Continue, Coroutine
  <2>3. ASSUME NEW a \in Submissions, NEW d \in Decisions, RefuseDecision(a, d)
        PROVE  FALSE
    BY <2>3 DEF RefuseDecision, Continue, Coroutine
  <2> QED
    BY <1>2, <2>1, <2>2, <2>3 DEF Request
<1>3. CASE \E c \in parked : Relay(c) \/ Resume(c)
  BY <1>3 DEF Relay, Resume, TypeOK, Suspended, Coroutines
<1>4. CASE LedgerFails \/ Crash \/ Restart
  BY <1>4 DEF LedgerFails, Crash, Restart, Return, Idle, Coroutine
<1>5. CASE UNCHANGED vars
  BY <1>5 DEF vars, memory
<1> QED
  BY <1>1, <1>2, <1>3, <1>4, <1>5 DEF Next

\* Only Execute parks a new run; Relay's answer leaves n and a alone.
LEMMA ParkedSteps ==
  ASSUME TypeOK, [Next]_vars, NEW b \in parked', b.at = "run"
  PROVE  \/ \E c \in parked : c.at = "run" /\ b.n = c.n /\ b.a = c.a
         \/ Execute /\ b = [loop EXCEPT !.at = "run"]
<1>1. CASE Handler
  <2>1. CASE Execute
    BY <2>1 DEF Execute, Await
  <2>2. CASE Queue
    BY <2>2 DEF Queue, Await, TypeOK, Running, Coroutines
  <2> QED
    BY <1>1, <2>1, <2>2 DEF Handler, Appends, Untraceable, Propose, Cap, Enqueue,
      Refuse, Decided, Reject, Approve, Mirror, Settle, Return, Continue
<1>2. CASE Request
  BY <1>2 DEF Request, IngestSignal, Submit, RefuseUntraceable, RefuseDecision,
    Decide, Continue, Return, memory
<1>3. ASSUME NEW c \in parked, Relay(c)
      PROVE  \E k \in parked : k.at = "run" /\ b.n = k.n /\ b.a = k.a
  <2>1. PICK v : parked' = (parked \ {c}) \cup {[c EXCEPT !.verdict = v]}
    BY <1>3 DEF Relay
  <2>2. CASE b \in parked
    BY <2>2
  <2>3. CASE b = [c EXCEPT !.verdict = v]
    BY <2>3 DEF TypeOK, Suspended, Coroutines
  <2> QED
    BY <2>1, <2>2, <2>3
<1>4. ASSUME NEW c \in parked, Resume(c) PROVE b \in parked
  BY <1>4 DEF Resume
<1>5. CASE LedgerFails \/ Crash \/ Restart
  BY <1>5 DEF LedgerFails, Crash, Restart, Return
<1>6. CASE UNCHANGED vars
  BY <1>6 DEF vars, memory
<1> QED
  BY <1>1, <1>2, <1>3, <1>4, <1>5, <1>6 DEF Next

LEMMA EffectsSteps ==
  ASSUME TypeOK, [Next]_vars
  PROVE  \/ effects' = effects
         \/ loop.n \in Submissions /\ effects' = [effects EXCEPT ![IdOf(loop.n)] = loop.n]
         \/ Crash \/ Restart
<1>1. CASE Handler
  BY <1>1 DEF Handler, Appends, Untraceable, Propose, Cap, Enqueue, Queue,
    Refuse, Decided, Reject, Approve, Execute, Mirror, Settle, TypeOK, Running, Coroutines
<1>2. CASE Request
  BY <1>2 DEF Request, IngestSignal, Submit, RefuseUntraceable, RefuseDecision,
    Decide, memory
<1>3. CASE \E c \in parked : Relay(c) \/ Resume(c)
  BY <1>3 DEF Relay, Resume
<1>4. CASE LedgerFails \/ Crash \/ Restart
  BY <1>4 DEF LedgerFails
<1>5. CASE UNCHANGED vars
  BY <1>5 DEF vars, memory
<1> QED
  BY <1>1, <1>2, <1>3, <1>4, <1>5 DEF Next

LEMMA ReleasesInit == Init => Releases
BY DEF Init, Releases, RecordsById, DecidesOwn, ProposesUnapproved, LoopReleased, RunsReleased,
       RunsLedgered, Idle, Coroutine

LEMMA RecordsByIdStep ==
  ASSUME TypeOK, TypeOK', Grows, RecordsById, [Next]_vars
  PROVE  RecordsById'
<1>1. \A n \in Submissions : n \in Submissions' /\ IdOf(n)' = IdOf(n)
  BY DEF Grows, IdOf
<1>2. \A e \in Ids : effects[e] # 0 => effects[e] \in Submissions
  BY DEF TypeOK, Anyone
<1>3. CASE effects' = effects
  BY <1>1, <1>2, <1>3 DEF RecordsById
<1>4. CASE loop.n \in Submissions /\ effects' = [effects EXCEPT ![IdOf(loop.n)] = loop.n]
  <2>1. effects \in [Ids -> Anyone] /\ IdOf(loop.n) \in Ids
    BY <1>4 DEF TypeOK
  <2>2. \A e \in Ids : effects'[e] = IF e = IdOf(loop.n) THEN loop.n ELSE effects[e]
    BY <1>4, <2>1
  <2> QED
    BY <1>1, <1>2, <1>4, <2>2 DEF RecordsById
<1>5. CASE Crash
  BY <1>5 DEF Crash, RecordsById
<1>6. CASE Restart
  <2>1. effects' = [e \in Ids |-> Restored(e)] /\ content' = content
    BY <1>6 DEF Restart
  <2>2. ASSUME NEW e \in Ids, Restored(e) # 0 PROVE IdOf(Restored(e)) = e
    <3>1. EffectLines(e) # {}
      BY <2>2 DEF Restored
    <3>2. EffectLines(e) \subseteq 1..Len(ledger) /\ Len(ledger) \in Nat
      BY DEF EffectLines, TypeOK
    <3>3. Latest(EffectLines(e)) \in EffectLines(e)
      BY <3>1, <3>2, LatestIsLast
    <3> QED
      BY <3>1, <3>3 DEF Restored, EffectLines
  <2>3. \A n : IdOf(n)' = IdOf(n)
    BY <2>1 DEF IdOf
  <2> QED
    BY <2>1, <2>2, <2>3 DEF RecordsById
<1> QED
  BY <1>3, <1>4, <1>5, <1>6, EffectsSteps

LEMMA DecidesOwnStep ==
  ASSUME TypeOK, DecidesOwn, [Next]_vars
  PROVE  DecidesOwn'
<1> SUFFICES ASSUME loop'.at = "decided" PROVE loop'.a = loop'.n
  BY DEF DecidesOwn
<1>1. CASE loop' = loop
  BY <1>1 DEF DecidesOwn
<1>2. CASE Propose
  BY <1>2 DEF Propose, Appends, Continue, TypeOK, Running, Coroutines
<1>3. CASE Decided
  BY <1>3 DEF Decided, Continue, Return, Coroutine, Idle
<1>4. CASE Approve
  BY <1>4 DEF Approve, Appends, Continue, TypeOK, Running, Coroutines
<1>5. ASSUME NEW a \in Submissions, NEW d \in Decisions, Decide(a, d)
      PROVE  loop'.a = loop'.n
  BY <1>5 DEF Decide, Continue, Return, Coroutine, Idle
<1> QED
  BY <1>1, <1>2, <1>3, <1>4, <1>5, LoopSteps

\* The line approval.decided is the approve that releases what it finds.
LEMMA DecidedReleases ==
  ASSUME TypeOK, TypeOK', Grows, RecordsById, DecidesOwn, Decided,
         loop'.at \in {"approve", "execute"}
  PROVE  Releasable(loop.n, loop.a)'
<1>0. PICK a, n : a = loop.a /\ n = effects[IdOf(loop.a)]
  OBVIOUS
<1>1. /\ loop.at = "decided"
      /\ a = loop.n
      /\ a \in Submissions
      /\ loop.d \in Decisions
  BY <1>0 DEF Decided, Appends, DecidesOwn, TypeOK, Running, Coroutines
<1>2. /\ n # 0
      /\ Outcome(loop.d) = "approved"
      /\ loop' = Coroutine("approve", n, a, None)
  BY <1>0 DEF Decided, Return, Continue, Coroutine, Idle
<1>3. a # 0
  BY <1>0, <1>1 DEF TypeOK
<1>4. IdOf(a) \in Ids /\ IdOf(n) = IdOf(a) /\ n \in Submissions
  BY <1>0, <1>1, <1>2 DEF TypeOK, RecordsById, Anyone
<1>5. IdOf(n)' = IdOf(a)'
  BY <1>1, <1>4 DEF Grows, IdOf
<1>6. /\ NextLine.type = "approval.decided"
      /\ NextLine.sub = a
      /\ NextLine.body.decision = "approve"
  BY <1>1, <1>2 DEF NextLine, Line, Event, Outcome
<1>7. /\ Len(ledger) + 1 \in DOMAIN ledger'
      /\ ledger'[Len(ledger) + 1] = NextLine
  <2>1. NextLine \in LedgerLine /\ ledger \in Seq(LedgerLine)
    BY <1>1, NextLineType DEF TypeOK, Event
  <2>2. ledger' = Append(ledger, NextLine)
    BY DEF Decided, Appends
  <2> QED
    BY <2>1, <2>2, AppendProperties
<1>8. Approved(a)'
  BY <1>6, <1>7 DEF Approved
<1> QED
  BY <1>2, <1>3, <1>5, <1>8 DEF Releasable, Coroutine

LEMMA LoopReleasedStep ==
  ASSUME TypeOK, TypeOK', Grows, Releases, [Next]_vars
  PROVE  LoopReleased'
<1> SUFFICES ASSUME loop'.at \in {"approve", "execute"}
             PROVE  Releasable(loop.n, loop.a)'
  BY DEF LoopReleased
<1>1. ASSUME loop.at \in {"approve", "execute"}, loop'.n = loop.n, loop'.a = loop.a
      PROVE  Releasable(loop.n, loop.a)'
  <2>1. PICK n, a : n = loop.n /\ a = loop.a
    OBVIOUS
  <2>2. n \in Submissions /\ a \in Anyone
    BY <1>1, <2>1 DEF TypeOK, Running, Coroutines
  <2>3. Releasable(n, a)'
    BY <1>1, <2>1, <2>2, ReleasableStays DEF Releases, LoopReleased
  <2> QED
    BY <1>1, <2>1, <2>3
<1>2. loop.at \in {"propose", "approve", "execute"} =>
        loop.n \in Submissions /\ loop.a \in Anyone
  BY DEF TypeOK, Running, Coroutines
<1>3. CASE loop' = loop
  BY <1>1, <1>3
<1>4. CASE Propose
  <2>1. /\ loop.at = "propose"
        /\ loop'.n = loop.n
        /\ loop'.a = loop.a
        /\ ClassOf(loop.n) = "auto"
    BY <1>4 DEF Propose, Appends, Continue, TypeOK, Running, Coroutines
  <2>2. loop.a = 0
    BY <1>4, <2>1 DEF Releases, ProposesUnapproved
  <2>3. ClassOf(loop.n)' = "auto"
    BY <1>2, <2>1 DEF Grows, ClassOf
  <2> QED
    BY <2>1, <2>2, <2>3 DEF Releasable
<1>5. CASE Decided
  BY <1>5, DecidedReleases DEF Releases
<1>6. CASE Approve
  <2>1. loop.at = "approve" /\ loop'.n = loop.n /\ loop'.a = loop.a
    BY <1>6 DEF Approve, Appends, Continue, TypeOK, Running, Coroutines
  <2> QED
    BY <1>1, <2>1
<1>7. ASSUME NEW a \in Submissions, NEW d \in Decisions, Decide(a, d)
      PROVE  FALSE
  BY <1>7 DEF Decide, Continue, Return, Coroutine, Idle
<1> QED
  BY <1>3, <1>4, <1>5, <1>6, <1>7, LoopSteps

LEMMA ProposesUnapprovedStep ==
  ASSUME TypeOK, ProposesUnapproved, [Next]_vars
  PROVE  ProposesUnapproved'
<1> SUFFICES ASSUME loop'.at = "propose" PROVE loop'.a = 0
  BY DEF ProposesUnapproved
<1>1. CASE Handler
  BY <1>1 DEF Handler, Appends, Untraceable, Propose, Cap, Enqueue, Queue,
    Refuse, Decided, Reject, Approve, Execute, Mirror, Settle, Return, Continue,
    Await, Idle, Coroutine, TypeOK, Running, Coroutines
<1>2. CASE Request
  <2>1. ASSUME NEW b \in SignalBodies, IngestSignal(b) PROVE loop' = loop
    BY <2>1 DEF IngestSignal, memory
  <2>2. ASSUME NEW p \in Proposals, Submit(p) PROVE loop'.a = 0
    BY <2>2 DEF Submit, Continue, Coroutine
  <2>3. ASSUME NEW p \in Proposals, RefuseUntraceable(p) PROVE FALSE
    BY <2>3 DEF RefuseUntraceable, Continue, Coroutine
  <2>4. ASSUME NEW a \in Submissions, NEW d \in Decisions,
               Decide(a, d) \/ RefuseDecision(a, d)
        PROVE  FALSE
    BY <2>4 DEF Decide, RefuseDecision, Continue, Return, Coroutine, Idle
  <2> QED
    BY <1>2, <2>1, <2>2, <2>3, <2>4 DEF Request, ProposesUnapproved
<1>3. CASE \E c \in parked : Relay(c) \/ Resume(c)
  BY <1>3 DEF Relay, Resume, TypeOK, Suspended, Coroutines, ProposesUnapproved
<1>4. CASE LedgerFails \/ Crash \/ Restart
  BY <1>4 DEF LedgerFails, Crash, Restart, Return, Idle, Coroutine, ProposesUnapproved
<1>5. CASE UNCHANGED vars
  BY <1>5 DEF vars, memory, ProposesUnapproved
<1> QED
  BY <1>1, <1>2, <1>3, <1>4, <1>5 DEF Next

\* Execute appends effect.executing and parks what the loop may release.
LEMMA ExecuteParks ==
  ASSUME TypeOK, TypeOK', Grows, LoopReleased, Execute
  PROVE  /\ Releasable(loop.n, loop.a) /\ loop.n \in Submissions /\ loop.a \in Anyone
         /\ \E i \in DOMAIN ledger' : /\ ledger'[i].type = "effect.executing"
                                     /\ ledger'[i].sub = loop.n
<1>1. loop.at = "execute" /\ loop.n \in Submissions /\ loop.a \in Anyone
  BY DEF Execute, Appends, TypeOK, Running, Coroutines
<1>2. NextLine.type = "effect.executing" /\ NextLine.sub = loop.n
  BY <1>1 DEF NextLine, Line, Event
<1>3. NextLine \in LedgerLine /\ ledger \in Seq(LedgerLine)
  BY <1>1, NextLineType DEF TypeOK, Event
<1>4. ledger' = Append(ledger, NextLine)
  BY DEF Execute, Appends
<1>5. /\ Len(ledger) + 1 \in DOMAIN ledger'
      /\ ledger'[Len(ledger) + 1] = NextLine
  BY <1>3, <1>4, AppendProperties
<1> QED
  BY <1>1, <1>2, <1>5 DEF LoopReleased

LEMMA RunsStep ==
  ASSUME TypeOK, TypeOK', Grows, Releases, [Next]_vars
  PROVE  RunsReleased' /\ RunsLedgered'
<1> SUFFICES ASSUME NEW b \in parked', b.at = "run"
             PROVE  /\ Releasable(b.n, b.a)'
                    /\ \E i \in DOMAIN ledger' : /\ ledger'[i].type = "effect.executing"
                                                /\ ledger'[i].sub = b.n
  BY DEF RunsReleased, RunsLedgered
<1>1. ASSUME NEW c \in parked, c.at = "run", b.n = c.n, b.a = c.a
      PROVE  /\ Releasable(b.n, b.a)'
             /\ \E i \in DOMAIN ledger' : /\ ledger'[i].type = "effect.executing"
                                         /\ ledger'[i].sub = b.n
  BY <1>1, ParkedStays DEF Releases
<1>2. CASE Execute /\ b = [loop EXCEPT !.at = "run"]
  <2>1. b.n = loop.n /\ b.a = loop.a
    BY <1>2 DEF Execute, Appends, TypeOK, Running, Coroutines
  <2>2. /\ Releasable(loop.n, loop.a) /\ loop.n \in Submissions /\ loop.a \in Anyone
        /\ \E i \in DOMAIN ledger' : /\ ledger'[i].type = "effect.executing"
                                    /\ ledger'[i].sub = loop.n
    BY <1>2, ExecuteParks DEF Releases
  <2>3. Releasable(b.n, b.a) /\ b.n \in Submissions /\ b.a \in Anyone
    BY <2>1, <2>2 DEF Releasable
  <2>4. Releasable(b.n, b.a)'
    BY <2>3, ReleasableStays
  <2> QED
    BY <2>1, <2>2, <2>4
<1> QED
  BY <1>1, <1>2, ParkedSteps

LEMMA ReleasesStep ==
  ASSUME TypeOK, TypeOK', Releases, [Next]_vars
  PROVE  Releases'
<1>1. Grows
  BY AlwaysGrows
<1> QED
  BY <1>1, RecordsByIdStep, DecidesOwnStep, ProposesUnapprovedStep,
     LoopReleasedStep, RunsStep DEF Releases

-----------------------------------------------------------------------------
(* The runs of the executor.                                               *)

LEMMA RanSteps ==
  ASSUME TypeOK, [Next]_vars
  PROVE  \/ ran' = ran
         \/ \E c \in parked :
               /\ c.at = "run" /\ c.verdict = "none"
               /\ ran' = Append(ran, [n |-> c.n, a |-> c.a, seq |-> Len(ledger)])
               /\ ledger' = ledger /\ content' = content
<1>1. CASE Handler
  BY <1>1 DEF Handler, Appends, Untraceable, Propose, Cap, Enqueue, Queue,
    Refuse, Decided, Reject, Approve, Execute, Mirror, Settle
<1>2. CASE Request
  BY <1>2 DEF Request, IngestSignal, Submit, RefuseUntraceable, RefuseDecision,
    Decide
<1>3. ASSUME NEW c \in parked, Relay(c)
      PROVE  \/ ran' = ran
             \/ /\ c.at = "run" /\ c.verdict = "none"
                /\ ran' = Append(ran, [n |-> c.n, a |-> c.a, seq |-> Len(ledger)])
                /\ ledger' = ledger /\ content' = content
  <2>1. PICK v \in Verdicts(c) :
          ran' = IF v \in {"allowed", "error"}
                 THEN Append(ran, [n |-> c.n, a |-> c.a, seq |-> Len(ledger)])
                 ELSE ran
    BY <1>3 DEF Relay
  <2>2. v \in {"allowed", "error"} => c.at = "run"
    BY DEF Verdicts, TypeOK, Suspended, Coroutines
  <2> QED
    BY <1>3, <2>1, <2>2 DEF Relay
<1>4. ASSUME NEW c \in parked, Resume(c) PROVE ran' = ran
  BY <1>4 DEF Resume
<1>5. CASE LedgerFails \/ Crash \/ Restart
  BY <1>5 DEF LedgerFails, Crash, Restart
<1>6. CASE UNCHANGED vars
  BY <1>6 DEF vars
<1> QED
  BY <1>1, <1>2, <1>3, <1>4, <1>5, <1>6 DEF Next

\* A run is new, and then it is one a parked coroutine may make, or it was
\* there before.
LEMMA RunIsOldOrParked ==
  ASSUME TypeOK, [Next]_vars, NEW k \in DOMAIN ran'
  PROVE  \/ k \in DOMAIN ran /\ ran'[k] = ran[k]
         \/ /\ \E c \in parked :
                /\ c.at = "run"
                /\ ran'[k] = [n |-> c.n, a |-> c.a, seq |-> Len(ledger)]
            /\ ledger' = ledger /\ content' = content
<1>1. CASE ran' = ran
  BY <1>1
<1>2. ASSUME NEW c \in parked, c.at = "run",
             ran' = Append(ran, [n |-> c.n, a |-> c.a, seq |-> Len(ledger)]),
             ledger' = ledger, content' = content
      PROVE  \/ k \in DOMAIN ran /\ ran'[k] = ran[k]
             \/ ran'[k] = [n |-> c.n, a |-> c.a, seq |-> Len(ledger)]
  <2>1. PICK r : r = [n |-> c.n, a |-> c.a, seq |-> Len(ledger)]
    OBVIOUS
  <2>2. PICK S : ran \in Seq(S)
    BY DEF TypeOK
  <2>3. ran \in Seq(S \cup {r})
    BY <2>2, SeqMonotonic
  <2>4. /\ Len(ran') = Len(ran) + 1
        /\ \A i \in 1..Len(ran) : ran'[i] = ran[i]
        /\ ran'[Len(ran) + 1] = r
        /\ ran' \in Seq(S \cup {r})
    BY <1>2, <2>1, <2>3, AppendProperties
  <2> QED
    BY <2>1, <2>3, <2>4
<1> QED
  BY <1>1, <1>2, RanSteps

LEMMA WriteAheadStep ==
  ASSUME TypeOK, Releases, WriteAhead, [Next]_vars
  PROVE  WriteAhead'
<1>1. Grows
  BY AlwaysGrows
<1> SUFFICES ASSUME NEW k \in DOMAIN ran'
             PROVE  \E i \in DOMAIN ledger' :
                      /\ ledger'[i].type = "effect.executing"
                      /\ ledger'[i].sub = ran'[k].n
                      /\ i <= ran'[k].seq
  BY DEF WriteAhead, Lines
<1>2. CASE k \in DOMAIN ran /\ ran'[k] = ran[k]
  <2>1. PICK i \in Lines("effect.executing", ran[k].n) : i <= ran[k].seq
    BY <1>2 DEF WriteAhead
  <2> QED
    BY <1>1, <1>2, <2>1 DEF Lines, Grows
<1>3. ASSUME NEW c \in parked, c.at = "run", ledger' = ledger,
             ran'[k] = [n |-> c.n, a |-> c.a, seq |-> Len(ledger)]
      PROVE  \E i \in DOMAIN ledger' :
               /\ ledger'[i].type = "effect.executing"
               /\ ledger'[i].sub = ran'[k].n
               /\ i <= ran'[k].seq
  <2>1. PICK i \in DOMAIN ledger : /\ ledger[i].type = "effect.executing"
                                  /\ ledger[i].sub = c.n
    BY <1>3 DEF Releases, RunsLedgered
  <2>2. i <= Len(ledger)
    BY DEF TypeOK
  <2> QED
    BY <1>3, <2>1, <2>2
<1> QED
  BY <1>2, <1>3, RunIsOldOrParked

LEMMA ReleasedStep ==
  ASSUME TypeOK, Releases, ReleasedByDecision, [Next]_vars
  PROVE  ReleasedByDecision'
<1>1. Grows
  BY AlwaysGrows
<1> DEFINE By(r, i) == /\ ledger'[i].type = "approval.decided"
                       /\ ledger'[i].sub = r.a
                       /\ i <= r.seq
                       /\ ledger'[i].body.decision = "approve"
           Id(n) == content'[n].proposal.id
<1> SUFFICES ASSUME NEW k \in DOMAIN ran', content'[ran'[k].n].rule # "auto"
             PROVE  /\ ran'[k].a # 0
                    /\ Id(ran'[k].a) = Id(ran'[k].n)
                    /\ \E i \in DOMAIN ledger' : By(ran'[k], i)
  BY DEF ReleasedByDecision, Lines, ClassOf, IdOf
<1>2. CASE k \in DOMAIN ran /\ ran'[k] = ran[k]
  <2>1. ran[k].n \in Submissions /\ ran[k].a \in Anyone
    <3>1. PICK S : S = [n : Submissions, a : Anyone, seq : Nat] /\ ran \in Seq(S)
      BY DEF TypeOK
    <3>2. k \in 1..Len(ran)
      BY <1>2, <3>1
    <3>3. ran[k] \in S
      BY <3>1, <3>2, ElementOfSeq
    <3> QED
      BY <3>1, <3>3
  <2>2. ClassOf(ran[k].n) # "auto"
    BY <1>1, <1>2, <2>1 DEF Grows, ClassOf
  <2>3. /\ ran[k].a # 0
        /\ IdOf(ran[k].a) = IdOf(ran[k].n)
        /\ \E i \in Lines("approval.decided", ran[k].a) :
              i <= ran[k].seq /\ ledger[i].body.decision = "approve"
    BY <1>2, <2>2 DEF ReleasedByDecision
  <2>4. Id(ran[k].a) = IdOf(ran[k].a) /\ Id(ran[k].n) = IdOf(ran[k].n)
    BY <1>1, <2>1, <2>3 DEF Grows, IdOf, Anyone
  <2>5. \E i \in DOMAIN ledger' : By(ran[k], i)
    BY <1>1, <2>3 DEF Lines, Grows
  <2> QED
    BY <1>2, <2>3, <2>4, <2>5
<1>3. ASSUME NEW c \in parked, c.at = "run", ledger' = ledger, content' = content,
             ran'[k] = [n |-> c.n, a |-> c.a, seq |-> Len(ledger)]
      PROVE  /\ ran'[k].a # 0
             /\ Id(ran'[k].a) = Id(ran'[k].n)
             /\ \E i \in DOMAIN ledger' : By(ran'[k], i)
  <2>1. c.a # 0 /\ IdOf(c.a) = IdOf(c.n) /\ Approved(c.a)
    BY <1>3 DEF Releases, RunsReleased, Releasable, ClassOf
  <2>2. \A i \in DOMAIN ledger : i <= Len(ledger)
    BY DEF TypeOK
  <2> QED
    BY <1>3, <2>1, <2>2 DEF IdOf, Approved
<1> QED
  BY <1>2, <1>3, RunIsOldOrParked

-----------------------------------------------------------------------------
\* The invariant: types, what coroutines may hold, and the two results.
Invariant == TypeOK /\ Releases /\ WriteAhead /\ ReleasedByDecision

LEMMA InvariantHolds == Spec => []Invariant
<1>1. Init => Invariant
  BY TypeInit, ReleasesInit DEF Init, Invariant, WriteAhead, ReleasedByDecision
<1>2. Invariant /\ TypeOK' /\ [Next]_vars => Invariant'
  BY ReleasesStep, WriteAheadStep, ReleasedStep DEF Invariant
<1> QED
  BY <1>1, <1>2, TypeCorrect, PTL DEF Spec

\* Whatever the executor runs was announced in the chain first, whatever
\* failed or crashed before (Gate._execute).
THEOREM LedgerFirst == Spec => []WriteAhead
BY InvariantHolds, PTL DEF Invariant

\* An effect that is not auto-executing runs only after an approve, in the
\* chain, of an approval for its effect id (Gate.decide).
THEOREM OnlyDecisionsRelease == Spec => []ReleasedByDecision
BY InvariantHolds, PTL DEF Invariant

LEMMA LineType ==
  ASSUME TypeOK, NEW i \in DOMAIN ledger
  PROVE  ledger[i] \in LedgerLine
<1>1. PICK S : S = LedgerLine /\ ledger \in Seq(S)
  BY DEF TypeOK
<1>2. i \in 1..Len(ledger)
  BY <1>1
<1> QED
  BY <1>1, <1>2, ElementOfSeq

LEMMA RunType ==
  ASSUME TypeOK, NEW k \in DOMAIN ran
  PROVE  ran[k].n \in Submissions /\ ran[k].a \in Anyone
<1>1. PICK S : S = [n : Submissions, a : Anyone, seq : Nat] /\ ran \in Seq(S)
  BY DEF TypeOK
<1>2. k \in 1..Len(ran)
  BY <1>1
<1>3. ran[k] \in S
  BY <1>1, <1>2, ElementOfSeq
<1> QED
  BY <1>1, <1>3

-----------------------------------------------------------------------------
(* Decisions in the chain passed the role and the attestation check, as    *)
(* the class of the submission they name asks.                             *)

LedgerChecked ==
    \A i \in DOMAIN ledger : ledger[i].type = "approval.decided" =>
        /\ ledger[i].sub \in Submissions
        /\ ~Refused(ledger[i].body, ClassOf(ledger[i].sub))
LoopChecked ==
    loop.at = "decided" => ~Refused(loop.d, ClassOf(loop.n))

\* A proposal, a hold or a decision enters the chain from the loop and in no other way.
LEMMA DecisionSteps ==
  ASSUME TypeOK, [Next]_vars
  PROVE  \/ ledger' = ledger
         \/ loop.at \in DOMAIN Event /\ ledger' = Append(ledger, NextLine)
         \/ \E l : /\ l.type \notin {"approval.decided", "effect.queued", "effect.proposed"}
                  /\ ledger' = Append(ledger, l)
<1>1. CASE Handler
  BY <1>1 DEF Handler, Appends, Untraceable, Propose, Cap, Enqueue, Queue,
    Refuse, Decided, Reject, Approve, Execute, Mirror, Settle, Event
<1>2. CASE Request
  BY <1>2 DEF Request, IngestSignal, Submit, RefuseUntraceable, RefuseDecision,
    Decide, Line
<1>3. CASE \E c \in parked : Relay(c) \/ Resume(c)
  BY <1>3 DEF Relay, Resume
<1>4. CASE LedgerFails \/ Crash \/ Restart
  BY <1>4 DEF LedgerFails, Crash, Restart, Line
<1>5. CASE UNCHANGED vars
  BY <1>5 DEF vars
<1> QED
  BY <1>1, <1>2, <1>3, <1>4, <1>5 DEF Next

LEMMA AppendedLine ==
  ASSUME NEW S, NEW s \in Seq(S), NEW l, NEW i \in DOMAIN Append(s, l)
  PROVE  \/ i \in DOMAIN s /\ Append(s, l)[i] = s[i]
         \/ i = Len(s) + 1 /\ Append(s, l)[i] = l
<1>1. s \in Seq(S \cup {l})
  BY SeqMonotonic
<1>2. /\ Len(Append(s, l)) = Len(s) + 1
      /\ \A j \in 1..Len(s) : Append(s, l)[j] = s[j]
      /\ Append(s, l)[Len(s) + 1] = l
      /\ Append(s, l) \in Seq(S \cup {l})
  BY <1>1, AppendProperties
<1>3. i \in 1..(Len(s) + 1)
  BY <1>2
<1> QED
  BY <1>1, <1>2, <1>3

LEMMA LedgerCheckedStep ==
  ASSUME TypeOK, Grows, LedgerChecked, LoopChecked, [Next]_vars
  PROVE  LedgerChecked'
<1>1. \A n \in Submissions : n \in Submissions' /\ ClassOf(n)' = ClassOf(n)
  BY DEF Grows, ClassOf
<1> DEFINE Fine(l) == l.type = "approval.decided" =>
                        /\ l.sub \in Submissions
                        /\ ~Refused(l.body, ClassOf(l.sub))
<1>2. \A i \in DOMAIN ledger : Fine(ledger[i])
  BY DEF LedgerChecked
<1>3. ASSUME NEW l, Fine(l), ledger' = Append(ledger, l) PROVE LedgerChecked'
  <2>1. \A i \in DOMAIN ledger' : \/ i \in DOMAIN ledger /\ ledger'[i] = ledger[i]
                                  \/ ledger'[i] = l
    BY <1>3, AppendedLine DEF TypeOK
  <2>2. \A i \in DOMAIN ledger' : Fine(ledger'[i])
    BY <1>2, <1>3, <2>1
  <2> QED
    BY <1>1, <2>2 DEF LedgerChecked
<1>4. loop.at \in DOMAIN Event => Fine(NextLine)
  <2>1. CASE loop.at = "decided"
    BY <2>1 DEF NextLine, Line, Event, LoopChecked, TypeOK, Running, Coroutines
  <2>2. CASE loop.at \in DOMAIN Event \ {"decided"}
    BY <2>2 DEF NextLine, Line, Event
  <2> QED
    BY <2>1, <2>2
<1>5. CASE ledger' = ledger
  BY <1>1, <1>2, <1>5 DEF LedgerChecked
<1> QED
  BY <1>3, <1>4, <1>5, DecisionSteps

LEMMA LoopCheckedStep ==
  ASSUME TypeOK, Grows, DecidesOwn, LoopChecked, [Next]_vars
  PROVE  LoopChecked'
<1> SUFFICES ASSUME loop'.at = "decided" PROVE ~Refused(loop'.d, ClassOf(loop.n)')
  BY DEF LoopChecked
<1>1. CASE loop' = loop
  BY <1>1 DEF LoopChecked, Grows, ClassOf, TypeOK, Running, Coroutines
<1>2. CASE Propose \/ Approve
  BY <1>2 DEF Propose, Approve, Appends, Continue, TypeOK, Running, Coroutines
<1>3. CASE Decided
  BY <1>3 DEF Decided, Continue, Return, Coroutine, Idle
<1>4. ASSUME NEW a \in Submissions, NEW d \in Decisions, Decide(a, d)
      PROVE  ~Refused(loop'.d, ClassOf(loop.n)')
  <2>1. loop' = Coroutine("decided", a, a, d) /\ ~Refused(d, ClassOf(a)) /\ content' = content
    BY <1>4 DEF Decide, Continue, Return, Idle, Coroutine
  <2> QED
    BY <2>1 DEF Coroutine, ClassOf
<1> QED
  BY <1>1, <1>2, <1>3, <1>4, LoopSteps

Checked == LedgerChecked /\ LoopChecked

LEMMA CheckedHolds == Spec => []Checked
<1>1. Init => Checked
  BY DEF Init, Checked, LedgerChecked, LoopChecked, Submissions, Idle, Coroutine
<1>2. Invariant /\ Checked /\ [Next]_vars => Checked'
  BY AlwaysGrows, LedgerCheckedStep, LoopCheckedStep DEF Checked, Invariant, Releases
<1> QED
  BY <1>1, <1>2, InvariantHolds, PTL DEF Spec

\* Whatever the class of what ran, it ran on an approve in the chain, unless
\* nobody had to release it.
RunsApproved ==
    \A k \in DOMAIN ran : ran[k].a # 0 =>
        \E i \in DOMAIN ledger :
            /\ ledger[i].type = "approval.decided"
            /\ ledger[i].sub = ran[k].a
            /\ i <= ran[k].seq
            /\ ledger[i].body.decision = "approve"

LEMMA RunsApprovedStep ==
  ASSUME TypeOK, Releases, RunsApproved, [Next]_vars
  PROVE  RunsApproved'
<1> DEFINE By(r, i) == /\ ledger'[i].type = "approval.decided"
                       /\ ledger'[i].sub = r.a
                       /\ i <= r.seq
                       /\ ledger'[i].body.decision = "approve"
<1> SUFFICES ASSUME NEW k \in DOMAIN ran', ran'[k].a # 0
             PROVE  \E i \in DOMAIN ledger' : By(ran'[k], i)
  BY DEF RunsApproved
<1>1. CASE k \in DOMAIN ran /\ ran'[k] = ran[k]
  BY <1>1, AlwaysGrows DEF RunsApproved, Grows
<1>2. ASSUME NEW c \in parked, c.at = "run", ledger' = ledger,
             ran'[k] = [n |-> c.n, a |-> c.a, seq |-> Len(ledger)]
      PROVE  \E i \in DOMAIN ledger' : By(ran'[k], i)
  <2>1. Approved(c.a)
    BY <1>2 DEF Releases, RunsReleased, Releasable
  <2>2. \A i \in DOMAIN ledger : i <= Len(ledger)
    BY DEF TypeOK
  <2> QED
    BY <1>2, <2>1, <2>2 DEF Approved
<1> QED
  BY <1>1, <1>2, RunIsOldOrParked

LEMMA RunsApprovedHolds == Spec => []RunsApproved
<1>1. Init => RunsApproved
  BY DEF Init, RunsApproved
<1>2. Invariant /\ RunsApproved /\ [Next]_vars => RunsApproved'
  BY RunsApprovedStep DEF Invariant
<1> QED
  BY <1>1, <1>2, InvariantHolds, PTL DEF Spec

LEMMA CheckedDecisionsAreAttested ==
  ASSUME Invariant, Checked, RunsApproved
  PROVE  AttestedRelease
<1> SUFFICES ASSUME NEW k \in DOMAIN ran
             PROVE  /\ ClassOf(ran[k].n) = "irreversible" => ran[k].a # 0
                    /\ ran[k].a # 0 /\ ClassOf(ran[k].a) = "irreversible" =>
                        \E i \in Lines("approval.decided", ran[k].a) :
                            /\ i <= ran[k].seq
                            /\ ledger[i].body.decision = "approve"
                            /\ ledger[i].body.caller_role = "human"
                            /\ ledger[i].body.subject = "person"
                            /\ ledger[i].body.attestation = "full"
  BY DEF AttestedRelease
<1>1. ClassOf(ran[k].n) = "irreversible" => ran[k].a # 0
  BY DEF Invariant, ReleasedByDecision
<1>2. ASSUME ran[k].a # 0, ClassOf(ran[k].a) = "irreversible"
      PROVE  \E i \in Lines("approval.decided", ran[k].a) :
                 /\ i <= ran[k].seq
                 /\ ledger[i].body.decision = "approve"
                 /\ ledger[i].body.caller_role = "human"
                 /\ ledger[i].body.subject = "person"
                 /\ ledger[i].body.attestation = "full"
  <2>1. PICK i \in DOMAIN ledger : /\ ledger[i].type = "approval.decided"
                                  /\ ledger[i].sub = ran[k].a
                                  /\ i <= ran[k].seq
                                  /\ ledger[i].body.decision = "approve"
    BY <1>2 DEF RunsApproved
  <2>2. ~Refused(ledger[i].body, "irreversible")
    BY <1>2, <2>1 DEF Checked, LedgerChecked
  <2>3. ledger[i].body \in DecisionBody
    <3>1. ledger[i] \in LedgerLine
      BY LineType DEF Invariant
    <3> QED
      BY <2>1, <3>1, ConstantsAssumption DEF LedgerLine, EffectEvents
  <2>4. i \in Lines("approval.decided", ran[k].a)
    BY <2>1 DEF Lines
  <2> QED
    BY <2>1, <2>2, <2>3, <2>4 DEF Refused, RoleRefused, AttestationRefused, DecisionBody
<1> QED
  BY <1>1, <1>2

\* However often callers reuse an effect id, and through every crash: an
\* irreversible effect runs on an approval only, and an approval that was asked
\* for one releases nothing but on the approve of a human whose decision carries
\* an issuer and an accepted auth mode (Gate._check_role, Gate._check_attestation).
THEOREM AttestedOnly == Spec => []AttestedRelease
BY CheckedHolds, InvariantHolds, RunsApprovedHolds, CheckedDecisionsAreAttested, PTL

-----------------------------------------------------------------------------
(* An approval is spent by its first decision: while nothing in the chain  *)
(* decides it, nobody runs on it, and once something does, neither memory  *)
(* nor the cache nor a boot brings it back to pending.                     *)

Undecided(a) ==
    \A i \in DOMAIN ledger :
        ledger[i].type = "approval.decided" => ledger[i].sub # a

DownIsIdle == ~up => loop = Idle

PendingUndecided ==
    \A a \in Approvals :
        items[a] = "pending" \/ cache[a] = "pending" => Undecided(a)

\* A boot settles a hold by the decisions that come after it: that is all.
DecidedAfterQueued ==
    \A i, j \in DOMAIN ledger :
        /\ ledger[i].type = "effect.queued"
        /\ ledger[j].type = "approval.decided"
        /\ ledger[i].sub = ledger[j].sub
        => i < j

LoopUndecided ==
    /\ loop.at \in {"propose", "enqueue", "decided"} => Undecided(loop.n)
    /\ loop.at = "queue" => items[loop.n] = "pending"
    /\ loop.at = "decided" => items[loop.n] # "pending" /\ cache[loop.n] # "pending"

RunsDecided == \A k \in DOMAIN ran : ran[k].a # 0 => ~Undecided(ran[k].a)

\* Two claims to run are the same claim: the same approval, or the same
\* submission that needs none.
Same(x, y) == x.a = y.a /\ (x.a = 0 => x.n = y.n)

Owing == {c \in parked : c.at = "run" /\ c.verdict = "none"}

OwingOnce ==
    /\ \A c, d \in Owing : Same(c, d) => c = d
    /\ \A c \in Owing, k \in DOMAIN ran : ~Same(c, ran[k])

LoopOnce ==
    loop.at \in {"propose", "approve", "execute"} =>
        /\ \A c \in Owing : ~Same(loop, c)
        /\ \A k \in DOMAIN ran : ~Same(loop, ran[k])

Spends ==
    /\ DownIsIdle /\ PendingUndecided /\ DecidedAfterQueued /\ LoopUndecided
    /\ RunsDecided /\ OwingOnce /\ LoopOnce /\ RunsOnce

LEMMA SubmissionsAreApprovals ==
  ASSUME TypeOK
  PROVE  Submissions = 1..Len(content) /\ Len(content) \in Nat
         /\ Submissions \subseteq Approvals
BY ConstantsAssumption DEF TypeOK, Submissions, Approvals

LEMMA ApprovedIsDecided ==
  ASSUME NEW a, Approved(a) PROVE ~Undecided(a)
BY DEF Approved, Undecided

\* Only the handler that records a decision of an approval ends this.
LEMMA UndecidedStays ==
  ASSUME TypeOK, [Next]_vars, NEW a, Undecided(a),
         loop.at = "decided" => loop.n # a
  PROVE  Undecided(a)'
<1>1. ASSUME NEW l, l.type = "approval.decided" => l.sub # a,
             ledger' = Append(ledger, l)
      PROVE  Undecided(a)'
  <2>1. \A i \in DOMAIN ledger' : \/ i \in DOMAIN ledger /\ ledger'[i] = ledger[i]
                                  \/ ledger'[i] = l
    BY <1>1, AppendedLine DEF TypeOK
  <2> QED
    BY <1>1, <2>1 DEF Undecided
<1>2. CASE ledger' = ledger
  BY <1>2 DEF Undecided
<1>3. CASE loop.at \in DOMAIN Event /\ ledger' = Append(ledger, NextLine)
  <2>1. NextLine.type = "approval.decided" => NextLine.sub # a
    BY <1>3 DEF NextLine, Line, Event
  <2> QED
    BY <1>1, <1>3, <2>1
<1> QED
  BY <1>1, <1>2, <1>3, DecisionSteps

LEMMA DecidedStays ==
  ASSUME Grows, NEW a, ~Undecided(a) PROVE ~Undecided(a)'
BY DEF Grows, Undecided

LEMMA DownIsIdleStep ==
  ASSUME DownIsIdle, [Next]_vars PROVE DownIsIdle'
<1>1. CASE Handler
  BY <1>1 DEF Handler, Appends, Untraceable, Propose, Cap, Enqueue, Queue,
    Refuse, Decided, Reject, Approve, Execute, Mirror, Settle, DownIsIdle
<1>2. CASE Request
  <2>1. up /\ up' = up
    BY <1>2, Zenon DEF Request, IngestSignal, Submit, RefuseUntraceable,
      RefuseDecision, Decide, Free
  <2> QED
    BY <2>1 DEF DownIsIdle
<1>3. CASE \E c \in parked : Relay(c) \/ Resume(c)
  BY <1>3 DEF Relay, Resume, Free, DownIsIdle
<1>4. CASE LedgerFails \/ Crash \/ Restart
  BY <1>4 DEF LedgerFails, Crash, Restart, DownIsIdle
<1>5. CASE UNCHANGED vars
  BY <1>5 DEF vars, memory, DownIsIdle
<1> QED
  BY <1>1, <1>2, <1>3, <1>4, <1>5 DEF Next

\* How the loop comes to a point of a submit or of a release.
LEMMA LoopArrivals ==
  ASSUME TypeOK, DownIsIdle, [Next]_vars,
         loop'.at \in {"propose", "enqueue", "queue", "decided", "approve", "execute"}
  PROVE  \/ UNCHANGED vars
         \/ \E p \in Proposals : Submit(p)
         \/ \E a \in Submissions, d \in Decisions : Decide(a, d)
         \/ Propose \/ Enqueue \/ Decided \/ Approve
<1>1. CASE Handler
  BY <1>1 DEF Handler, Appends, Untraceable, Cap, Queue, Refuse, Reject,
    Execute, Mirror, Settle, Return, Continue, Await, Idle, Coroutine
<1>2. CASE Request
  <2>1. ASSUME NEW b \in SignalBodies, IngestSignal(b) PROVE FALSE
    BY <2>1 DEF IngestSignal, memory, Free, Idle, Coroutine
  <2>2. ASSUME NEW p \in Proposals, RefuseUntraceable(p) PROVE FALSE
    BY <2>2 DEF RefuseUntraceable, Continue, Coroutine
  <2>3. ASSUME NEW a \in Submissions, NEW d \in Decisions, RefuseDecision(a, d)
        PROVE  FALSE
    BY <2>3 DEF RefuseDecision, Continue, Coroutine
  <2> QED
    BY <1>2, <2>1, <2>2, <2>3 DEF Request
<1>3. ASSUME NEW c \in parked, Relay(c) \/ Resume(c) PROVE FALSE
  BY <1>3 DEF Relay, Resume, Free, Idle, Coroutine, TypeOK, Suspended, Coroutines
<1>4. CASE LedgerFails \/ Crash \/ Restart
  BY <1>4 DEF LedgerFails, Crash, Restart, Return, DownIsIdle, Idle, Coroutine
<1> QED
  BY <1>1, <1>2, <1>3, <1>4 DEF Next

LEMMA LoopUndecidedStep ==
  ASSUME TypeOK, DownIsIdle, PendingUndecided, LoopUndecided, [Next]_vars
  PROVE  LoopUndecided'
<1> SUFFICES ASSUME loop'.at \in {"propose", "enqueue", "queue", "decided"}
             PROVE  LoopUndecided'
  BY DEF LoopUndecided
<1>1. CASE UNCHANGED vars
  BY <1>1 DEF vars, memory, LoopUndecided, Undecided
<1>2. ASSUME NEW p \in Proposals, Submit(p) PROVE LoopUndecided'
  <2>1. /\ loop'.at = "propose"
        /\ loop'.n = Len(content) + 1
        /\ ledger' = ledger
    BY <1>2 DEF Submit, Continue, Coroutine
  <2>2. ASSUME NEW i \in DOMAIN ledger, ledger[i].type = "approval.decided"
        PROVE  ledger[i].sub \in Submissions
    <3>1. ledger[i] \in LedgerLine
      BY LineType
    <3> QED
      BY <2>2, <3>1 DEF LedgerLine, EffectEvents
  <2>3. Len(content) + 1 \notin Submissions
    BY SubmissionsAreApprovals
  <2> QED
    BY <2>1, <2>2, <2>3 DEF LoopUndecided, Undecided
<1>3. CASE Propose
  <2>1. /\ loop.at = "propose"
        /\ loop'.n = loop.n
        /\ loop'.at \in {"execute", "cap", "enqueue"}
    BY <1>3 DEF Propose, Appends, Continue, TypeOK, Running, Coroutines
  <2>2. Undecided(loop.n)
    BY <2>1 DEF LoopUndecided
  <2>3. PICK n : n = loop.n
    OBVIOUS
  <2>4. Undecided(n)'
    BY <2>1, <2>2, <2>3, UndecidedStays
  <2> QED
    BY <2>1, <2>3, <2>4 DEF LoopUndecided, Undecided
<1>4. CASE Enqueue
  <2>1. loop.n \in Approvals /\ items \in [Approvals -> States]
    BY <1>4, SubmissionsAreApprovals DEF Enqueue, TypeOK, Running, Coroutines
  <2>2. items' = [items EXCEPT ![loop.n] = "pending"]
    BY <1>4 DEF Enqueue
  <2>3. loop'.at = "queue" /\ loop'.n = loop.n
    BY <1>4 DEF Enqueue, Return, Continue, Idle, Coroutine, TypeOK, Running,
      Coroutines
  <2> QED
    BY <2>1, <2>2, <2>3 DEF LoopUndecided
<1>5. ASSUME NEW a \in Submissions, NEW d \in Decisions, Decide(a, d)
      PROVE  LoopUndecided'
  <2>1. a \in Approvals /\ items \in [Approvals -> States]
    BY SubmissionsAreApprovals DEF TypeOK
  <2>2. /\ items[a] = "pending"
        /\ items' = [items EXCEPT ![a] = Outcome(d)]
        /\ ledger' = ledger
    BY <1>5 DEF Decide
  <2>3. cache' = items' /\ loop'.at = "decided" /\ loop'.n = a
    BY <1>5 DEF Decide, Return, Continue, Idle, Coroutine
  <2>4. Undecided(a) /\ Outcome(d) # "pending"
    BY <2>1, <2>2 DEF PendingUndecided, Outcome
  <2> QED
    BY <2>1, <2>2, <2>3, <2>4 DEF LoopUndecided, Undecided
<1>6. CASE Decided \/ Approve
  BY <1>6 DEF Decided, Approve, Continue, Return, Coroutine, Idle, Appends,
    TypeOK, Running, Coroutines
<1> QED
  BY <1>1, <1>2, <1>3, <1>4, <1>5, <1>6, LoopArrivals

LEMMA DecidedAfterQueuedStep ==
  ASSUME TypeOK, PendingUndecided, LoopUndecided, DecidedAfterQueued, [Next]_vars
  PROVE  DecidedAfterQueued'
<1>1. ASSUME NEW l, ledger' = Append(ledger, l),
             l.type = "effect.queued" => Undecided(l.sub)
      PROVE  DecidedAfterQueued'
  <2>1. ledger \in Seq(LedgerLine)
    BY DEF TypeOK
  <2>2. \A i \in DOMAIN ledger' : \/ i \in DOMAIN ledger /\ ledger'[i] = ledger[i]
                                  \/ i = Len(ledger) + 1 /\ ledger'[i] = l
    BY <1>1, <2>1, AppendedLine
  <2>3. \A i \in DOMAIN ledger : i < Len(ledger) + 1
    BY <2>1
  <2> QED
    BY <1>1, <2>2, <2>3 DEF DecidedAfterQueued, Undecided
<1>2. CASE ledger' = ledger
  BY <1>2 DEF DecidedAfterQueued
<1>3. CASE loop.at \in DOMAIN Event /\ ledger' = Append(ledger, NextLine)
  <2>1. NextLine.type = "effect.queued" => loop.at = "queue" /\ NextLine.sub = loop.n
    BY <1>3 DEF NextLine, Line, Event
  <2>2. loop.at = "queue" => loop.n \in Approvals
    BY SubmissionsAreApprovals DEF TypeOK, Running, Coroutines
  <2>3. NextLine.type = "effect.queued" => Undecided(NextLine.sub)
    BY <2>1, <2>2 DEF LoopUndecided, PendingUndecided
  <2> QED
    BY <1>1, <1>3, <2>3
<1> QED
  BY <1>1, <1>2, <1>3, DecisionSteps

\* What a boot takes for pending, the chain does not decide.
LEMMA LoadedPendingIsUndecided ==
  ASSUME TypeOK, PendingUndecided, DecidedAfterQueued, NEW a \in Approvals,
         NEW cached \in {cache, [b \in Approvals |-> "absent"]},
         LoadedItem(a, cached) = "pending"
  PROVE  Undecided(a)
<1>1. CASE LedgerItem(a) # "absent"
  <2> DEFINE queued == Lines("effect.queued", a)
             decided == {i \in Lines("approval.decided", a) :
                           \A j \in queued : j < i}
  <2>1. LedgerItem(a) = "pending"
    BY <1>1 DEF LoadedItem
  <2>2. \A b : Outcome(b) # "pending"
    BY DEF Outcome
  <2>3. decided = {}
    BY <2>1, <2>2 DEF LedgerItem
  <2>4. ASSUME NEW i \in DOMAIN ledger, ledger[i].type = "approval.decided",
               ledger[i].sub = a
        PROVE  FALSE
    <3>1. \A j \in queued : j < i
      BY <2>4 DEF DecidedAfterQueued, Lines
    <3>2. i \in decided
      BY <2>4, <3>1 DEF Lines
    <3> QED
      BY <2>3, <3>2
  <2> QED
    BY <2>4 DEF Undecided
<1>2. CASE LedgerItem(a) = "absent"
  BY <1>2 DEF LoadedItem, PendingUndecided
<1> QED
  BY <1>1, <1>2

\* Where queue and cache change.
LEMMA ItemsSteps ==
  ASSUME [Next]_vars
  PROVE  \/ items' = items /\ cache' = cache
         \/ Enqueue \/ Crash \/ Restart
         \/ \E a \in Submissions, d \in Decisions : Decide(a, d)
<1>1. CASE Handler
  BY <1>1 DEF Handler, Untraceable, Propose, Cap, Queue, Refuse, Decided,
    Reject, Approve, Execute, Mirror, Settle
<1>2. CASE Request
  BY <1>2 DEF Request, IngestSignal, Submit, RefuseUntraceable, RefuseDecision,
    memory
<1>3. CASE \E c \in parked : Relay(c) \/ Resume(c)
  BY <1>3 DEF Relay, Resume
<1>4. CASE LedgerFails
  BY <1>4 DEF LedgerFails
<1>5. CASE UNCHANGED vars
  BY <1>5 DEF vars, memory
<1> QED
  BY <1>1, <1>2, <1>3, <1>4, <1>5 DEF Next

LEMMA PendingUndecidedStep ==
  ASSUME TypeOK, DownIsIdle, PendingUndecided, DecidedAfterQueued,
         LoopUndecided, DecidesOwn, [Next]_vars
  PROVE  PendingUndecided'
<1> SUFFICES ASSUME NEW a \in Approvals, items'[a] = "pending" \/ cache'[a] = "pending"
             PROVE  Undecided(a)'
  BY DEF PendingUndecided, Approvals
<1>0. items \in [Approvals -> States]
  BY DEF TypeOK
<1>1. CASE items' = items /\ cache' = cache
  <2>1. Undecided(a)
    BY <1>1 DEF PendingUndecided
  <2>2. loop.at = "decided" => loop.n # a
    BY <1>1 DEF LoopUndecided
  <2> QED
    BY <2>1, <2>2, UndecidedStays
<1>2. CASE Enqueue
  <2>1. /\ loop.at = "enqueue"
        /\ items' = [items EXCEPT ![loop.n] = "pending"]
        /\ cache' \in {items', cache}
        /\ ledger' = ledger
    BY <1>2 DEF Enqueue
  <2>2. Undecided(a)
    BY <1>0, <2>1 DEF PendingUndecided, LoopUndecided
  <2> QED
    BY <2>1, <2>2 DEF Undecided
<1>3. ASSUME NEW b \in Submissions, NEW d \in Decisions, Decide(b, d)
      PROVE  Undecided(a)'
  <2>1. /\ items' = [items EXCEPT ![b] = Outcome(d)]
        /\ cache' \in {items', cache}
        /\ ledger' = ledger
        /\ Outcome(d) # "pending"
    BY <1>3 DEF Decide, Outcome
  <2>2. Undecided(a)
    BY <1>0, <2>1 DEF PendingUndecided
  <2> QED
    BY <2>1, <2>2 DEF Undecided
<1>4. CASE Crash
  <2>1. items'[a] = "absent" /\ cache' = cache /\ ledger' = ledger
    BY <1>4 DEF Crash
  <2> QED
    BY <2>1 DEF PendingUndecided, Undecided
<1>5. CASE Restart
  <2>1. PICK cached \in {cache, [b \in Approvals |-> "absent"]} :
          /\ items' = [b \in Approvals |-> LoadedItem(b, cached)]
          /\ cache' \in {cache, items'}
    BY <1>5 DEF Restart
  <2>2. Undecided(a)
    <3>1. CASE LoadedItem(a, cached) = "pending"
      BY <3>1, LoadedPendingIsUndecided
    <3>2. CASE cache[a] = "pending"
      BY <3>2 DEF PendingUndecided
    <3> QED
      BY <2>1, <3>1, <3>2
  <2>3. loop.at # "decided"
    BY <1>5 DEF Restart, DownIsIdle, Idle, Coroutine
  <2> QED
    BY <2>2, <2>3, UndecidedStays
<1> QED
  BY <1>1, <1>2, <1>3, <1>4, <1>5, ItemsSteps

LEMMA RunsDecidedStep ==
  ASSUME TypeOK, Releases, RunsDecided, [Next]_vars
  PROVE  RunsDecided'
<1> SUFFICES ASSUME NEW k \in DOMAIN ran', ran'[k].a # 0
             PROVE  \E a : a = ran'[k].a /\ ~Undecided(a)'
  BY DEF RunsDecided
<1>1. Grows
  BY AlwaysGrows
<1>2. CASE k \in DOMAIN ran /\ ran'[k] = ran[k]
  BY <1>1, <1>2, DecidedStays DEF RunsDecided
<1>3. ASSUME NEW c \in parked, c.at = "run",
             ran'[k] = [n |-> c.n, a |-> c.a, seq |-> Len(ledger)]
      PROVE  \E a : a = ran'[k].a /\ ~Undecided(a)'
  <2>1. ~Undecided(c.a)
    BY <1>3, ApprovedIsDecided DEF Releases, RunsReleased, Releasable
  <2> QED
    BY <1>1, <1>3, <2>1, DecidedStays
<1> QED
  BY <1>2, <1>3, RunIsOldOrParked

\* A coroutine that owes a run makes it, goes with the process, or is new and
\* comes from the loop.
LEMMA OwingSteps ==
  ASSUME TypeOK, [Next]_vars
  PROVE  \/ Owing' \subseteq Owing /\ ran' = ran
         \/ \E c \in Owing :
               /\ Owing' \subseteq Owing \ {c}
               /\ ran' = Append(ran, [n |-> c.n, a |-> c.a, seq |-> Len(ledger)])
         \/ /\ loop.at = "execute"
            /\ Owing' \subseteq Owing \cup {[loop EXCEPT !.at = "run"]}
            /\ ran' = ran
<1>1. CASE Handler
  <2>1. CASE Execute
    BY <2>1 DEF Execute, Appends, Await, Owing
  <2>2. CASE Queue
    BY <2>2 DEF Queue, Appends, Await, Owing, TypeOK, Running, Coroutines
  <2>3. CASE UNCHANGED <<parked, ran>>
    BY <2>3 DEF Owing
  <2> QED
    BY <1>1, <2>1, <2>2, <2>3 DEF Handler, Appends, Untraceable, Propose, Cap,
      Enqueue, Refuse, Decided, Reject, Approve, Mirror, Settle, Return, Continue
<1>2. CASE Request
  <2>1. UNCHANGED <<parked, ran>>
    BY <1>2 DEF Request, IngestSignal, Submit, RefuseUntraceable, RefuseDecision,
      Decide, Continue, Return, memory
  <2> QED
    BY <2>1 DEF Owing
<1>3. ASSUME NEW c \in parked, Relay(c)
      PROVE  \/ Owing' \subseteq Owing /\ ran' = ran
             \/ /\ c \in Owing
                /\ Owing' \subseteq Owing \ {c}
                /\ ran' = Append(ran, [n |-> c.n, a |-> c.a, seq |-> Len(ledger)])
  <2>1. PICK v \in Verdicts(c) :
          /\ parked' = (parked \ {c}) \cup {[c EXCEPT !.verdict = v]}
          /\ ran' = IF v \in {"allowed", "error"}
                    THEN Append(ran, [n |-> c.n, a |-> c.a, seq |-> Len(ledger)])
                    ELSE ran
    BY <1>3 DEF Relay
  <2>2. c.verdict = "none"
    BY <1>3 DEF Relay
  <2>3. /\ v # "none"
        /\ v \in {"allowed", "error"} => c.at = "run"
    BY DEF Verdicts, TypeOK, Suspended, Coroutines
  <2>4. [c EXCEPT !.verdict = v].verdict = v
    BY DEF TypeOK, Suspended, Coroutines
  <2>5. Owing' \subseteq Owing \ {c}
    BY <2>1, <2>3, <2>4 DEF Owing
  <2> QED
    BY <2>1, <2>2, <2>3, <2>5 DEF Owing
<1>4. ASSUME NEW c \in parked, Resume(c) PROVE Owing' \subseteq Owing /\ ran' = ran
  BY <1>4 DEF Resume, Owing
<1>5. CASE LedgerFails \/ Crash \/ Restart
  BY <1>5 DEF LedgerFails, Crash, Restart, Return, Owing
<1>6. CASE UNCHANGED vars
  BY <1>6 DEF vars, memory, Owing
<1> QED
  BY <1>1, <1>2, <1>3, <1>4, <1>5, <1>6 DEF Next

LEMMA OwingOnceStep ==
  ASSUME TypeOK, OwingOnce, LoopOnce, RunsOnce, [Next]_vars
  PROVE  OwingOnce' /\ RunsOnce'
<1>1. CASE Owing' \subseteq Owing /\ ran' = ran
  BY <1>1 DEF OwingOnce, RunsOnce, Same
<1>2. ASSUME NEW c \in Owing, Owing' \subseteq Owing \ {c},
             ran' = Append(ran, [n |-> c.n, a |-> c.a, seq |-> Len(ledger)])
      PROVE  OwingOnce' /\ RunsOnce'
  <2>1. PICK r : r = [n |-> c.n, a |-> c.a, seq |-> Len(ledger)]
    OBVIOUS
  <2>2. PICK S : ran \in Seq(S)
    BY DEF TypeOK
  <2>3. \A k \in DOMAIN ran' : \/ k \in DOMAIN ran /\ ran'[k] = ran[k]
                               \/ k = Len(ran) + 1 /\ ran'[k] = r
    BY <1>2, <2>1, <2>2, AppendedLine
  <2>4. \A k \in DOMAIN ran : ~Same(r, ran[k]) /\ ~Same(ran[k], r)
    BY <2>1 DEF OwingOnce, Same
  <2>5. \A d \in Owing \ {c} : ~Same(d, r)
    BY <2>1 DEF OwingOnce, Same
  <2>6. OwingOnce'
    BY <1>2, <2>3, <2>5 DEF OwingOnce, Same
  <2>7. \A j, k \in DOMAIN ran' : j # k => ~Same(ran'[j], ran'[k])
    BY <2>3, <2>4 DEF RunsOnce, Same
  <2> QED
    BY <2>6, <2>7 DEF RunsOnce, Same
<1>3. CASE /\ loop.at = "execute"
           /\ Owing' \subseteq Owing \cup {[loop EXCEPT !.at = "run"]}
           /\ ran' = ran
  <2>1. PICK e : e = [loop EXCEPT !.at = "run"]
    OBVIOUS
  <2>2. e.n = loop.n /\ e.a = loop.a
    BY <1>3, <2>1 DEF TypeOK, Running, Coroutines
  <2>3. /\ \A c \in Owing : ~Same(e, c) /\ ~Same(c, e)
        /\ \A k \in DOMAIN ran : ~Same(e, ran[k])
    BY <1>3, <2>2 DEF LoopOnce, Same
  <2>4. \A c \in Owing' : c \in Owing \/ c = e
    BY <1>3, <2>1
  <2>5. \A c, d \in Owing' : Same(c, d) => c = d
    BY <2>3, <2>4 DEF OwingOnce
  <2>6. \A c \in Owing', k \in DOMAIN ran' : ~Same(c, ran'[k])
    BY <1>3, <2>3, <2>4 DEF OwingOnce
  <2>7. RunsOnce'
    BY <1>3 DEF RunsOnce
  <2> QED
    BY <2>5, <2>6, <2>7 DEF OwingOnce, Same
<1> QED
  BY <1>1, <1>2, <1>3, OwingSteps

LEMMA LoopOnceStep ==
  ASSUME TypeOK, DownIsIdle, Releases, LoopUndecided, RunsDecided, LoopOnce,
         [Next]_vars
  PROVE  LoopOnce'
<1> SUFFICES ASSUME loop'.at \in {"propose", "approve", "execute"}
             PROVE  LoopOnce'
  BY DEF LoopOnce
<1>1. CASE UNCHANGED vars
  BY <1>1 DEF vars, memory, LoopOnce, Owing, Same
<1>2. ASSUME NEW p \in Proposals, Submit(p) PROVE LoopOnce'
  <2>1. /\ loop'.n = Len(content) + 1
        /\ loop'.a = 0
        /\ parked' = parked /\ ran' = ran
    BY <1>2 DEF Submit, Continue, Coroutine
  <2>2. \A c \in Owing : c.n \in Submissions
    BY DEF Owing, TypeOK, Suspended, Coroutines
  <2>3. \A k \in DOMAIN ran : ran[k].n \in Submissions
    BY RunType
  <2>4. Len(content) + 1 \notin Submissions
    BY SubmissionsAreApprovals
  <2> QED
    BY <2>1, <2>2, <2>3, <2>4 DEF LoopOnce, Owing, Same
<1>3. CASE Propose \/ Approve
  <2>1. /\ loop.at \in {"propose", "approve"}
        /\ loop'.n = loop.n /\ loop'.a = loop.a
        /\ parked' = parked /\ ran' = ran
    BY <1>3 DEF Propose, Approve, Appends, Continue, TypeOK, Running, Coroutines
  <2> QED
    BY <2>1 DEF LoopOnce, Owing, Same
<1>4. CASE Decided
  <2>1. /\ loop.at = "decided"
        /\ loop'.a = loop.a
        /\ parked' = parked /\ ran' = ran
    BY <1>4 DEF Decided, Appends, Continue, Return, Coroutine, Idle
  <2>2. loop.a = loop.n /\ loop.a # 0 /\ Undecided(loop.a)
    BY <2>1 DEF TypeOK, Releases, DecidesOwn, LoopUndecided
  <2>3. \A c \in Owing : c.a # loop.a
    BY <2>2, ApprovedIsDecided DEF Owing, Releases, RunsReleased, Releasable
  <2>4. \A k \in DOMAIN ran : ran[k].a # loop.a
    BY <2>2 DEF RunsDecided
  <2> QED
    BY <2>1, <2>3, <2>4 DEF LoopOnce, Owing, Same
<1>5. CASE Enqueue
  BY <1>5 DEF Enqueue, Continue, Return, Idle, Coroutine, TypeOK, Running,
    Coroutines
<1>6. ASSUME NEW a \in Submissions, NEW d \in Decisions, Decide(a, d)
      PROVE  FALSE
  BY <1>6 DEF Decide, Continue, Return, Idle, Coroutine
<1> QED
  BY <1>1, <1>2, <1>3, <1>4, <1>5, <1>6, LoopArrivals

LEMMA SpendsHolds == Spec => []Spends
<1>1. Init => Spends
  BY DEF Init, Spends, DownIsIdle, PendingUndecided, DecidedAfterQueued,
    LoopUndecided, RunsDecided, OwingOnce, LoopOnce, RunsOnce, Undecided, Owing,
    Idle, Coroutine
<1>2. Invariant /\ Spends /\ [Next]_vars => Spends'
  BY DownIsIdleStep, PendingUndecidedStep, DecidedAfterQueuedStep,
     LoopUndecidedStep, RunsDecidedStep, OwingOnceStep, LoopOnceStep
  DEF Spends, Invariant, Releases
<1> QED
  BY <1>1, <1>2, InvariantHolds, PTL DEF Spec

\* However appends fail, caches get lost and the process dies and boots again,
\* an approval releases one run and a submission that needs none is one run
\* (Gate.decide, ApprovalQueue._load).
THEOREM OneRunEach == Spec => []RunsOnce
BY SpendsHolds, PTL DEF Spends

-----------------------------------------------------------------------------
(* The gate implements Release.                                            *)

LEMMA ExtensionIsAppend ==
  ASSUME NEW S, NEW m \in Nat, NEW s \in [1..m -> S], NEW t \in [1..(m + 1) -> S],
         \A i \in 1..m : t[i] = s[i]
  PROVE  t = Append(s, t[m + 1])
<1>1. s \in Seq(S) /\ Len(s) = m /\ t[m + 1] \in S
  OBVIOUS
<1>2. /\ Append(s, t[m + 1]) \in Seq(S)
      /\ Len(Append(s, t[m + 1])) = m + 1
      /\ \A i \in 1..m : Append(s, t[m + 1])[i] = s[i]
      /\ Append(s, t[m + 1])[m + 1] = t[m + 1]
  BY <1>1, AppendProperties
<1>3. t \in Seq(S) /\ Len(t) = m + 1
  OBVIOUS
<1>4. \A i \in 1..Len(t) : t[i] = Append(s, t[m + 1])[i]
  BY <1>2, <1>3
<1> QED
  BY <1>2, <1>3, <1>4, SeqEqual

LEMMA GivenIsApproved ==
  \A a : a \in ApprovalsGiven <=> a \in Submissions /\ Approved(a)
BY DEF ApprovalsGiven, DecidedAs, Approved, Lines

\* A line of the chain decides a as d.
DecidesAs(l, a, d) ==
    /\ l.type = "approval.decided"
    /\ l.sub = a
    /\ l.body.decision = d

LEMMA DecidedAsALine ==
  ASSUME TypeOK
  PROVE  \A d, a : a \in DecidedAs(d) <=> \E i \in DOMAIN ledger : DecidesAs(ledger[i], a, d)
<1>1. ASSUME NEW d, NEW a, NEW i \in DOMAIN ledger, DecidesAs(ledger[i], a, d)
      PROVE  a \in Submissions
  <2>1. PICK S : S = LedgerLine /\ ledger \in Seq(S)
    BY DEF TypeOK
  <2>2. i \in 1..Len(ledger)
    BY <1>1, <2>1
  <2>3. ledger[i] \in LedgerLine
    BY <2>1, <2>2, ElementOfSeq
  <2> QED
    BY <1>1, <2>3 DEF DecidesAs, LedgerLine, EffectEvents
<1> QED
  BY <1>1 DEF DecidedAs, DecidesAs, Lines

LEMMA ApprovedIsSubmitted ==
  ASSUME TypeOK, NEW a, Approved(a) PROVE a \in Submissions
BY DecidedAsALine DEF Approved, DecidesAs, DecidedAs

\* The same of the next state.
LEMMA DecidedAsALineNext ==
  ASSUME TypeOK'
  PROVE  \A d, a : a \in DecidedAs(d)' <=> \E i \in DOMAIN ledger' : DecidesAs(ledger'[i], a, d)
<1>1. ASSUME NEW d, NEW a, NEW i \in DOMAIN ledger', DecidesAs(ledger'[i], a, d)
      PROVE  a \in Submissions'
  <2>1. PICK S : S = LedgerLine' /\ ledger' \in Seq(S)
    BY DEF TypeOK
  <2>2. i \in 1..Len(ledger')
    BY <1>1, <2>1
  <2>3. ledger'[i] \in LedgerLine'
    BY <2>1, <2>2, ElementOfSeq
  <2> QED
    BY <1>1, <2>3 DEF DecidesAs, LedgerLine, EffectEvents
<1> QED
  BY <1>1 DEF DecidedAs, DecidesAs, Lines

\* The handler that records a decision leaves submissions and runs alone.
LEMMA DecidingSteps ==
  ASSUME DownIsIdle, loop.at = "decided", [Next]_vars
  PROVE  content' = content /\ ran' = ran
<1>1. loop # Idle
  BY DEF Idle, Coroutine
<1>2. CASE Handler
  BY <1>2 DEF Handler, Appends, Untraceable, Propose, Cap, Enqueue, Queue,
    Refuse, Decided, Reject, Approve, Execute, Mirror, Settle
<1>3. CASE Request
  BY <1>1, <1>3 DEF Request, IngestSignal, Submit, RefuseUntraceable,
    RefuseDecision, Decide, Free
<1>4. CASE \E c \in parked : Relay(c) \/ Resume(c)
  BY <1>1, <1>4 DEF Relay, Resume, Free
<1>5. CASE LedgerFails \/ Crash \/ Restart
  BY <1>1, <1>5 DEF LedgerFails, Crash, Restart, DownIsIdle
<1>6. CASE UNCHANGED vars
  BY <1>6 DEF vars
<1> QED
  BY <1>2, <1>3, <1>4, <1>5, <1>6 DEF Next

\* One line more decides what that line decides.
LEMMA AppendDecides ==
  ASSUME TypeOK, TypeOK', Grows, NEW l, ledger' = Append(ledger, l)
  PROVE  \A d, a : a \in DecidedAs(d)' <=> a \in DecidedAs(d) \/ DecidesAs(l, a, d)
<1>1. PICK S : S = LedgerLine /\ ledger \in Seq(S)
  BY DEF TypeOK
<1>2. \A i \in DOMAIN ledger' : \/ i \in DOMAIN ledger /\ ledger'[i] = ledger[i]
                                \/ ledger'[i] = l
  BY <1>1, AppendedLine
<1>3. Len(ledger) + 1 \in DOMAIN ledger' /\ ledger'[Len(ledger) + 1] = l
  <2>1. ledger \in Seq(S \cup {l})
    BY <1>1, SeqMonotonic
  <2> QED
    BY <2>1, AppendProperties
<1>4. \A i \in DOMAIN ledger : i \in DOMAIN ledger' /\ ledger'[i] = ledger[i]
  BY DEF Grows
<1>5. \A d, a : (\E i \in DOMAIN ledger' : DecidesAs(ledger'[i], a, d))
               <=> (\E i \in DOMAIN ledger : DecidesAs(ledger[i], a, d)) \/ DecidesAs(l, a, d)
  BY <1>2, <1>3, <1>4
<1> QED
  BY <1>5, DecidedAsALine, DecidedAsALineNext

LEMMA SameElements ==
  ASSUME NEW S, NEW T, \A x : x \in S <=> x \in T PROVE S = T
OBVIOUS

LEMMA SameDecided ==
  ASSUME \A d, a : a \in DecidedAs(d)' <=> a \in DecidedAs(d)
  PROVE  UNCHANGED <<ApprovalsGiven, ApprovalsRefused>>
<1>1. \A a : a \in ApprovalsGiven' <=> a \in ApprovalsGiven
  BY DEF ApprovalsGiven
<1>2. \A a : a \in ApprovalsRefused' <=> a \in ApprovalsRefused
  BY DEF ApprovalsRefused
<1>3. ApprovalsGiven' = ApprovalsGiven
  BY <1>1, SameElements
<1>4. ApprovalsRefused' = ApprovalsRefused
  BY <1>2, SameElements
<1> QED
  BY <1>3, <1>4

\* An approval is given or refused by the first decision about it, and in no
\* other way.
LEMMA DecidedSteps ==
  ASSUME TypeOK, TypeOK', Grows, DownIsIdle, LoopUndecided, [Next]_vars
  PROVE  \/ UNCHANGED <<ApprovalsGiven, ApprovalsRefused>>
         \/ /\ content' = content /\ ran' = ran
            /\ \E a \in Submissions \ (ApprovalsGiven \cup ApprovalsRefused) :
                  \/ /\ ApprovalsGiven' = ApprovalsGiven \cup {a}
                     /\ ApprovalsRefused' = ApprovalsRefused
                  \/ /\ ApprovalsRefused' = ApprovalsRefused \cup {a}
                     /\ ApprovalsGiven' = ApprovalsGiven
<1>1. CASE ledger' = ledger
  <2>1. \A d, a : a \in DecidedAs(d)' <=> a \in DecidedAs(d)
    BY <1>1, DecidedAsALine, DecidedAsALineNext
  <2> QED
    BY <2>1, SameDecided
<1>2. ASSUME NEW l, ledger' = Append(ledger, l), l.type # "approval.decided"
      PROVE  UNCHANGED <<ApprovalsGiven, ApprovalsRefused>>
  <2>1. \A d, a : a \in DecidedAs(d)' <=> a \in DecidedAs(d)
    BY <1>2, AppendDecides DEF DecidesAs
  <2> QED
    BY <2>1, SameDecided
<1>3. CASE loop.at = "decided" /\ ledger' = Append(ledger, NextLine)
  <2>1. NextLine.type = "approval.decided" /\ NextLine.sub = loop.n /\ NextLine.body = loop.d
    BY <1>3 DEF NextLine, Line, Event
  <2>2. loop.n \in Submissions /\ loop.d \in Decisions
    BY <1>3 DEF TypeOK, Running, Coroutines
  <2>3. loop.d.decision \in {"approve", "reject"}
    BY <2>2, ConstantsAssumption DEF DecisionBody
  <2>4. \A d, a : a \in DecidedAs(d)' <=>
                    a \in DecidedAs(d) \/ (a = loop.n /\ d = loop.d.decision)
    BY <1>3, <2>1, AppendDecides DEF DecidesAs
  <2>5. loop.n \notin ApprovalsGiven \cup ApprovalsRefused
    BY <1>3, DecidedAsALine
    DEF LoopUndecided, Undecided, DecidesAs, ApprovalsGiven, ApprovalsRefused
  <2>6. content' = content /\ ran' = ran
    BY <1>3, DecidingSteps
  <2>7. CASE loop.d.decision = "approve"
    BY <2>2, <2>4, <2>5, <2>6, <2>7 DEF ApprovalsGiven, ApprovalsRefused
  <2>8. CASE loop.d.decision = "reject"
    BY <2>2, <2>4, <2>5, <2>6, <2>8 DEF ApprovalsGiven, ApprovalsRefused
  <2> QED
    BY <2>3, <2>7, <2>8
<1>4. CASE loop.at \in DOMAIN Event /\ ledger' = Append(ledger, NextLine) /\ loop.at # "decided"
  <2>1. NextLine.type # "approval.decided"
    BY <1>4 DEF NextLine, Line, Event
  <2> QED
    BY <1>2, <1>4, <2>1
<1> QED
  BY <1>1, <1>2, <1>3, <1>4, DecisionSteps

LEMMA ProposedType ==
  ASSUME TypeOK
  PROVE  /\ EffectsProposed \in [1..Len(content) -> [id : Ids, auto : BOOLEAN]]
         /\ Len(content) \in Nat /\ Submissions = 1..Len(content)
<1>1. Len(content) \in Nat /\ Submissions = 1..Len(content)
  BY SubmissionsAreApprovals
<1>2. \A n \in Submissions : IdOf(n) \in Ids
  BY DEF TypeOK
<1>3. \A n : (ClassOf(n) = "auto") \in BOOLEAN
  OBVIOUS
<1> QED
  BY <1>1, <1>2, <1>3 DEF EffectsProposed

\* A submission is one proposal of the promise.
LEMMA SubmitProposes ==
  ASSUME TypeOK, TypeOK', Grows, NEW c, content' = Append(content, c)
  PROVE  \E id \in Ids, auto \in BOOLEAN :
            EffectsProposed' = Append(EffectsProposed, [id |-> id, auto |-> auto])
<1>1. /\ EffectsProposed \in [1..Len(content) -> [id : Ids, auto : BOOLEAN]]
      /\ Len(content) \in Nat /\ Submissions = 1..Len(content)
  BY ProposedType
<1>2. content \in Seq([proposal : Proposals, rule : Rules])
  BY DEF TypeOK
<1>3. Len(content') = Len(content) + 1 /\ Submissions' = 1..(Len(content) + 1)
  <2>1. content \in Seq([proposal : Proposals, rule : Rules] \cup {c})
    BY <1>2, SeqMonotonic
  <2> QED
    BY <2>1, AppendProperties DEF Submissions
<1>4. EffectsProposed' \in [1..(Len(content) + 1) -> [id : Ids, auto : BOOLEAN]]
  <2>1. \A n \in Submissions' : IdOf(n)' \in Ids
    BY DEF TypeOK
  <2>2. \A n : (ClassOf(n)' = "auto") \in BOOLEAN
    OBVIOUS
  <2> QED
    BY <1>3, <2>1, <2>2 DEF EffectsProposed
<1>5. \A i \in 1..Len(content) : EffectsProposed'[i] = EffectsProposed[i]
  BY <1>1, <1>3 DEF Grows, EffectsProposed, IdOf, ClassOf
<1>6. PICK r : r = EffectsProposed'[Len(content) + 1]
  OBVIOUS
<1>7. r \in [id : Ids, auto : BOOLEAN]
  BY <1>1, <1>4, <1>6
<1>8. EffectsProposed' = Append(EffectsProposed, r)
  BY <1>1, <1>4, <1>5, <1>6, ExtensionIsAppend
<1>9. r = [id |-> r.id, auto |-> r.auto] /\ r.id \in Ids /\ r.auto \in BOOLEAN
  BY <1>7
<1> QED
  BY <1>8, <1>9

\* A run is one run of the promise.
LEMMA RunMakesRun ==
  ASSUME TypeOK, TypeOK', content' = content, NEW c \in parked, NEW q,
         ran' = Append(ran, [n |-> c.n, a |-> c.a, seq |-> q])
  PROVE  RunsMade' = Append(RunsMade, <<c.n, c.a>>)
<1>1. PICK S, r : S = [n : Submissions, a : Anyone, seq : Nat] /\ ran \in Seq(S)
                 /\ r = [n |-> c.n, a |-> c.a, seq |-> q]
  BY DEF TypeOK
<1>2. ran \in Seq(S \cup {r})
  BY <1>1, SeqMonotonic
<1>3. /\ Len(ran) \in Nat /\ DOMAIN ran = 1..Len(ran)
      /\ Len(ran') = Len(ran) + 1
      /\ DOMAIN ran' = 1..(Len(ran) + 1)
      /\ \A i \in 1..Len(ran) : ran'[i] = ran[i]
      /\ ran'[Len(ran) + 1] = r
  BY <1>1, <1>2, AppendProperties
<1>4. \A k \in DOMAIN ran : ran[k].n \in Submissions /\ ran[k].a \in Anyone
  BY RunType
<1>5. c.n \in Submissions /\ c.a \in Anyone
  BY DEF TypeOK, Suspended, Coroutines
<1>6. RunsMade \in [1..Len(ran) -> Submissions \X Anyone]
  BY <1>3, <1>4 DEF RunsMade
<1>7. RunsMade' \in [1..(Len(ran) + 1) -> Submissions \X Anyone]
  <2>1. \A k \in 1..(Len(ran) + 1) : ran'[k].n \in Submissions /\ ran'[k].a \in Anyone
    <3>1. \A k \in 1..(Len(ran) + 1) : k \in 1..Len(ran) \/ k = Len(ran) + 1
      BY <1>3
    <3>2. r.n \in Submissions /\ r.a \in Anyone
      BY <1>1, <1>5
    <3> QED
      BY <1>3, <1>4, <3>1, <3>2
  <2> QED
    BY <1>3, <2>1 DEF RunsMade
<1>8. \A i \in 1..Len(ran) : RunsMade'[i] = RunsMade[i]
  BY <1>3 DEF RunsMade
<1>9. RunsMade'[Len(ran) + 1] = <<c.n, c.a>>
  BY <1>1, <1>3 DEF RunsMade
<1> QED
  BY <1>3, <1>6, <1>7, <1>8, <1>9, ExtensionIsAppend

LEMMA PromiseStep ==
  ASSUME Invariant, TypeOK', Spends, [Next]_vars
  PROVE  [Promise!Next]_Promise!vars
<1>0. /\ TypeOK /\ Grows /\ DownIsIdle /\ LoopUndecided /\ OwingOnce
      /\ RunsReleased
  BY AlwaysGrows DEF Invariant, Spends, Releases
<1>1. content' = content => EffectsProposed' = EffectsProposed
  BY DEF EffectsProposed, Submissions, IdOf, ClassOf
<1>2. ran' = ran => RunsMade' = RunsMade
  BY DEF RunsMade
<1>3. DOMAIN EffectsProposed = Submissions
  BY DEF EffectsProposed
<1>4. ASSUME NEW c \in parked, c.at = "run", c.verdict = "none",
             ran' = Append(ran, [n |-> c.n, a |-> c.a, seq |-> Len(ledger)]),
             ledger' = ledger, content' = content
      PROVE  Promise!Next
  <2>1. RunsMade' = Append(RunsMade, <<c.n, c.a>>)
    BY <1>0, <1>4, RunMakesRun
  <2>2. UNCHANGED <<EffectsProposed, ApprovalsGiven, ApprovalsRefused>>
    BY <1>1, <1>4 DEF ApprovalsGiven, ApprovalsRefused, DecidedAs, Lines, Submissions
  <2>3. c.n \in Submissions /\ c \in Owing /\ Releasable(c.n, c.a)
    BY <1>0, <1>4 DEF Owing, RunsReleased, TypeOK, Suspended, Coroutines
  <2>4. \A k \in DOMAIN ran : ~Same(c, ran[k])
    BY <1>0, <2>3 DEF OwingOnce
  <2>5. Promise!Runs = {<<ran[k].n, ran[k].a>> : k \in DOMAIN ran}
    BY DEF Promise!Runs, RunsMade
  <2>6. CASE c.a = 0
    <3>1. ClassOf(c.n) = "auto"
      BY <2>3, <2>6 DEF Releasable
    <3>2. EffectsProposed[c.n].auto
      BY <2>3, <3>1 DEF EffectsProposed
    <3>3. <<c.n, 0>> \notin Promise!Runs
      BY <2>4, <2>5, <2>6 DEF Same
    <3>4. Promise!RunAuto(c.n)
      BY <2>1, <2>2, <2>6, <3>2, <3>3 DEF Promise!RunAuto
    <3> QED
      BY <1>3, <2>3, <3>4 DEF Promise!Next, Promise!Effects
  <2>7. CASE c.a # 0
    <3>1. IdOf(c.a) = IdOf(c.n) /\ Approved(c.a)
      BY <2>3, <2>7 DEF Releasable
    <3>2. c.a \in Submissions /\ c.a \in ApprovalsGiven
      BY <1>0, <3>1, ApprovedIsSubmitted, GivenIsApproved
    <3>3. EffectsProposed[c.a].id = EffectsProposed[c.n].id
      BY <2>3, <3>1, <3>2 DEF EffectsProposed
    <3>4. ~Promise!Spent(c.a)
      BY <2>4, <2>5, <2>7 DEF Promise!Spent, Same
    <3>5. Promise!RunReleased(c.n, c.a)
      BY <2>1, <2>2, <3>2, <3>3, <3>4 DEF Promise!RunReleased
    <3> QED
      BY <1>3, <2>3, <3>2, <3>5 DEF Promise!Next, Promise!Effects
  <2> QED
    BY <2>6, <2>7
<1>5. CASE ran' = ran /\ UNCHANGED <<ApprovalsGiven, ApprovalsRefused>>
  <2>1. CASE content' = content
    BY <1>1, <1>2, <1>5, <2>1 DEF Promise!vars
  <2>2. ASSUME NEW c, content' = Append(content, c) PROVE Promise!Next
    <3>1. PICK id \in Ids, auto \in BOOLEAN :
            EffectsProposed' = Append(EffectsProposed, [id |-> id, auto |-> auto])
      BY <1>0, <2>2, SubmitProposes
    <3>2. Promise!Propose(id, auto)
      BY <1>2, <1>5, <3>1 DEF Promise!Propose
    <3> QED
      BY <3>2 DEF Promise!Next
  <2> QED
    BY <1>0, <2>1, <2>2, ContentSteps
<1>6. ASSUME content' = content, ran' = ran,
             NEW a \in Submissions \ (ApprovalsGiven \cup ApprovalsRefused),
             \/ /\ ApprovalsGiven' = ApprovalsGiven \cup {a}
                /\ ApprovalsRefused' = ApprovalsRefused
             \/ /\ ApprovalsRefused' = ApprovalsRefused \cup {a}
                /\ ApprovalsGiven' = ApprovalsGiven
      PROVE  Promise!Next
  <2>1. EffectsProposed' = EffectsProposed /\ RunsMade' = RunsMade
    BY <1>1, <1>2, <1>6
  <2>2. a \in Promise!Open
    BY <1>3, <1>6 DEF Promise!Open, Promise!Effects
  <2>3. Promise!Approve(a) \/ Promise!Reject(a)
    BY <1>6, <2>1, <2>2 DEF Promise!Approve, Promise!Reject
  <2> QED
    BY <1>3, <2>3 DEF Promise!Next, Promise!Effects
<1> QED
  BY <1>0, <1>4, <1>5, <1>6, RanSteps, DecidedSteps

\* Every behaviour of the gate, with its crashes, failed writes and lost
\* caches, is one the promise allows (gate.py, "the only path from queued to
\* executed").
THEOREM GateKeepsPromise == Spec => KeepsPromise
<1>1. Init => Promise!Init
  BY DEF Init, Promise!Init, EffectsProposed, ApprovalsGiven, ApprovalsRefused,
    DecidedAs, RunsMade, Submissions, Lines
<1>2. Invariant /\ TypeOK' /\ Spends /\ [Next]_vars => [Promise!Next]_Promise!vars
  BY PromiseStep
<1> QED
  BY <1>1, <1>2, InvariantHolds, TypeCorrect, SpendsHolds, PTL
  DEF Spec, KeepsPromise, Promise!Spec

-----------------------------------------------------------------------------
(* The queue a boot rebuilds holds what was held and decided what was      *)
(* decided; what is pending has its cause and its effect.                  *)

OnRecord(a) ==
    \E i \in DOMAIN ledger : ledger[i].type \in EffectEvents /\ ledger[i].sub = a

HeldHaveCause ==
    \A n \in Submissions : ClassOf(n) # "auto" =>
        SignalLines(content[n].proposal.signal_id) # {}

PendingOnRecord ==
    \A a \in Approvals : items[a] = "pending" \/ cache[a] = "pending" => OnRecord(a)

LoopKeeps ==
    /\ loop.at \in {"enqueue", "queue"} => ClassOf(loop.n) # "auto"
    /\ loop.at = "enqueue" => OnRecord(loop.n) /\ effects[IdOf(loop.n)] # 0
    /\ loop.at = "decided" => items[loop.n] = Outcome(loop.d)

\* RecordSurvives at every step of a process that is up.
RecordKept ==
    up => \A a \in Approvals :
        /\ LedgerItem(a) \in {"approved", "rejected"} => items[a] = LedgerItem(a)
        /\ LedgerItem(a) = "pending" => items[a] # "absent"

Keeps ==
    /\ HeldHaveCause /\ PendingOnRecord /\ LoopKeeps /\ RecordKept
    /\ HoldsAreTraced /\ PendingHasEffect

LEMMA OnRecordStays ==
  ASSUME Grows, NEW a, OnRecord(a) PROVE OnRecord(a)'
BY DEF Grows, OnRecord

LEMMA OnRecordIsSubmitted ==
  ASSUME TypeOK, NEW a \in Approvals, OnRecord(a) PROVE a \in Submissions
<1>1. PICK i \in DOMAIN ledger : ledger[i].sub = a
  BY DEF OnRecord
<1>2. ledger[i] \in LedgerLine /\ a # 0
  BY LineType DEF Approvals
<1> QED
  BY <1>1, <1>2 DEF LedgerLine

LEMMA HeldHaveCauseStep ==
  ASSUME TypeOK, HeldHaveCause, [Next]_vars
  PROVE  HeldHaveCause'
<1>1. Grows
  BY AlwaysGrows
<1> DEFINE Caused(n) == content'[n].rule # "auto" =>
             \E i \in DOMAIN ledger' :
                /\ ledger'[i].type = "signal.ingested"
                /\ ledger'[i].body.id = content'[n].proposal.signal_id
<1>2. \A n \in Submissions : Caused(n)
  BY <1>1 DEF HeldHaveCause, ClassOf, SignalLines, Grows
<1>3. CASE content' = content
  BY <1>2, <1>3 DEF HeldHaveCause, ClassOf, SignalLines, Submissions
<1>4. ASSUME NEW p \in Proposals, Submit(p) PROVE HeldHaveCause'
  <2>1. PICK c : /\ content' = Append(content, c)
                 /\ c.proposal = p /\ c.rule = Classify(p)
    BY <1>4 DEF Submit
  <2>2. content \in Seq([proposal : Proposals, rule : Rules])
    BY DEF TypeOK
  <2>3. \A n \in DOMAIN content' : \/ n \in Submissions
                                   \/ n = Len(content) + 1 /\ content'[n] = c
    BY <2>1, <2>2, AppendedLine DEF Submissions
  <2>4. c.rule # "auto" => SignalLines(c.proposal.signal_id) # {}
    BY <1>4, <2>1 DEF Submit, Traceable
  <2>5. ledger' = ledger
    BY <1>4 DEF Submit
  <2>6. \A n \in DOMAIN content' : Caused(n)
    BY <1>2, <2>3, <2>4, <2>5 DEF SignalLines
  <2> QED
    BY <2>6 DEF HeldHaveCause, ClassOf, SignalLines, Submissions
<1>5. CASE Handler
  BY <1>3, <1>5 DEF Handler, Appends, Untraceable, Propose, Cap, Enqueue, Queue,
    Refuse, Decided, Reject, Approve, Execute, Mirror, Settle
<1>6. CASE Request
  BY <1>3, <1>4, <1>6 DEF Request, IngestSignal, RefuseUntraceable,
    RefuseDecision, Decide
<1>7. CASE \E c \in parked : Relay(c) \/ Resume(c)
  BY <1>3, <1>7 DEF Relay, Resume
<1>8. CASE LedgerFails \/ Crash \/ Restart
  BY <1>3, <1>8 DEF LedgerFails, Crash, Restart
<1>9. CASE UNCHANGED vars
  BY <1>3, <1>9 DEF vars
<1> QED
  BY <1>5, <1>6, <1>7, <1>8, <1>9 DEF Next

LEMMA HoldsAreTracedStep ==
  ASSUME TypeOK, HeldHaveCause, LoopKeeps, HoldsAreTraced, [Next]_vars
  PROVE  HoldsAreTraced'
<1>1. Grows
  BY AlwaysGrows
<1> DEFINE Traced(i) == \E j \in 1..(i - 1) :
             /\ ledger'[j].type = "signal.ingested"
             /\ ledger'[j].body.id = content'[ledger'[i].sub].proposal.signal_id
<1>2. ledger \in Seq(LedgerLine)
  BY DEF TypeOK
<1>3. ASSUME NEW i \in DOMAIN ledger, ledger[i].type = "effect.queued"
      PROVE  Traced(i)
  <2>1. ledger[i].sub \in Submissions
    <3>1. ledger[i] \in LedgerLine
      BY LineType
    <3> QED
      BY <1>3, <3>1 DEF LedgerLine, EffectEvents
  <2>2. PICK j \in 1..(i - 1) :
          /\ ledger[j].type = "signal.ingested"
          /\ ledger[j].body.id = content[ledger[i].sub].proposal.signal_id
    BY <1>3 DEF HoldsAreTraced
  <2>3. j \in DOMAIN ledger
    BY <1>2
  <2> QED
    BY <1>1, <2>1, <2>2, <2>3 DEF Grows
<1>4. ASSUME NEW l, ledger' = Append(ledger, l),
             l.type = "effect.queued" =>
                l.sub \in Submissions /\ ClassOf(l.sub) # "auto"
      PROVE  HoldsAreTraced'
  <2>1. \A i \in DOMAIN ledger' : \/ i \in DOMAIN ledger /\ ledger'[i] = ledger[i]
                                  \/ i = Len(ledger) + 1 /\ ledger'[i] = l
    BY <1>2, <1>4, AppendedLine
  <2>2. ASSUME NEW i \in DOMAIN ledger', i = Len(ledger) + 1, ledger'[i] = l,
               l.type = "effect.queued"
        PROVE  Traced(i)
    <3>1. PICK j \in DOMAIN ledger :
            /\ ledger[j].type = "signal.ingested"
            /\ ledger[j].body.id = content[l.sub].proposal.signal_id
      BY <1>4, <2>2 DEF HeldHaveCause, SignalLines
    <3>2. j \in 1..(i - 1)
      BY <1>2, <2>2
    <3> QED
      BY <1>1, <1>4, <2>2, <3>1, <3>2 DEF Grows
  <2>3. \A i \in DOMAIN ledger' : ledger'[i].type = "effect.queued" => Traced(i)
    BY <1>3, <2>1, <2>2
  <2> QED
    BY <2>3 DEF HoldsAreTraced
<1>5. CASE ledger' = ledger
  BY <1>3, <1>5 DEF HoldsAreTraced
<1>6. CASE loop.at \in DOMAIN Event /\ ledger' = Append(ledger, NextLine)
  <2>1. NextLine.type = "effect.queued" => loop.at = "queue" /\ NextLine.sub = loop.n
    BY <1>6 DEF NextLine, Line, Event
  <2>2. NextLine.type = "effect.queued" =>
          NextLine.sub \in Submissions /\ ClassOf(NextLine.sub) # "auto"
    BY <2>1 DEF LoopKeeps, TypeOK, Running, Coroutines
  <2> QED
    BY <1>4, <1>6, <2>2
<1> QED
  BY <1>4, <1>5, <1>6, DecisionSteps

LEMMA LoadedPendingIsOnRecord ==
  ASSUME PendingOnRecord, NEW a \in Approvals,
         NEW cached \in {cache, [b \in Approvals |-> "absent"]},
         LoadedItem(a, cached) = "pending"
  PROVE  OnRecord(a)
<1>1. CASE LedgerItem(a) # "absent"
  <2>1. Lines("effect.queued", a) # {}
    BY <1>1 DEF LedgerItem
  <2> QED
    BY <2>1 DEF Lines, OnRecord, EffectEvents
<1>2. CASE LedgerItem(a) = "absent"
  BY <1>2 DEF LoadedItem, PendingOnRecord
<1> QED
  BY <1>1, <1>2

LEMMA PendingOnRecordStep ==
  ASSUME TypeOK, PendingOnRecord, LoopKeeps, [Next]_vars
  PROVE  PendingOnRecord'
<1> SUFFICES ASSUME NEW a \in Approvals, items'[a] = "pending" \/ cache'[a] = "pending"
             PROVE  OnRecord(a)
  BY AlwaysGrows, OnRecordStays DEF PendingOnRecord, Approvals
<1>0. items \in [Approvals -> States]
  BY DEF TypeOK
<1>1. CASE items' = items /\ cache' = cache
  BY <1>1 DEF PendingOnRecord
<1>2. CASE Enqueue
  <2>1. /\ loop.at = "enqueue"
        /\ items' = [items EXCEPT ![loop.n] = "pending"]
        /\ cache' \in {items', cache}
    BY <1>2 DEF Enqueue
  <2> QED
    BY <1>0, <2>1 DEF PendingOnRecord, LoopKeeps
<1>3. ASSUME NEW b \in Submissions, NEW d \in Decisions, Decide(b, d)
      PROVE  OnRecord(a)
  <2>1. /\ items' = [items EXCEPT ![b] = Outcome(d)]
        /\ cache' \in {items', cache}
        /\ Outcome(d) # "pending"
    BY <1>3 DEF Decide, Outcome
  <2> QED
    BY <1>0, <2>1 DEF PendingOnRecord
<1>4. CASE Crash
  BY <1>4 DEF Crash, PendingOnRecord
<1>5. CASE Restart
  <2>1. PICK cached \in {cache, [b \in Approvals |-> "absent"]} :
          /\ items' = [b \in Approvals |-> LoadedItem(b, cached)]
          /\ cache' \in {cache, items'}
    BY <1>5 DEF Restart
  <2>2. LoadedItem(a, cached) = "pending" => OnRecord(a)
    BY LoadedPendingIsOnRecord
  <2> QED
    BY <2>1, <2>2 DEF PendingOnRecord
<1> QED
  BY <1>1, <1>2, <1>3, <1>4, <1>5, ItemsSteps

LEMMA LoopKeepsStep ==
  ASSUME TypeOK, DownIsIdle, LoopKeeps, [Next]_vars
  PROVE  LoopKeeps'
<1> SUFFICES ASSUME loop'.at \in {"enqueue", "queue", "decided"}
             PROVE  LoopKeeps'
  BY DEF LoopKeeps
<1>1. CASE UNCHANGED vars
  BY <1>1 DEF vars, memory, LoopKeeps, OnRecord, ClassOf, IdOf
<1>2. ASSUME NEW p \in Proposals, Submit(p) PROVE FALSE
  BY <1>2 DEF Submit, Continue, Coroutine
<1>3. CASE Propose
  <2>1. /\ loop.at = "propose"
        /\ loop.n \in Submissions
        /\ loop'.n = loop.n
        /\ loop'.at \in {"execute", "cap", "enqueue"}
        /\ loop'.at = "enqueue" => ClassOf(loop.n) # "auto"
        /\ content' = content
        /\ ledger' = Append(ledger, NextLine)
        /\ effects' = [effects EXCEPT ![IdOf(loop.n)] = loop.n]
    BY <1>3 DEF Propose, Appends, Continue, TypeOK, Running, Coroutines
  <2>2. /\ effects \in [Ids -> Anyone]
        /\ IdOf(loop.n) \in Ids
        /\ loop.n # 0
    BY <2>1, SubmissionsAreApprovals DEF TypeOK
  <2>3. effects'[IdOf(loop.n)] # 0
    BY <2>1, <2>2
  <2>4. NextLine.type = "effect.proposed" /\ NextLine.sub = loop.n
    BY <2>1 DEF NextLine, Line, Event
  <2>5. Len(ledger) + 1 \in DOMAIN ledger' /\ ledger'[Len(ledger) + 1] = NextLine
    <3>1. NextLine \in LedgerLine /\ ledger \in Seq(LedgerLine)
      BY <2>1, NextLineType DEF TypeOK, Event
    <3> QED
      BY <2>1, <3>1, AppendProperties
  <2>6. PICK n : n = loop.n
    OBVIOUS
  <2>7. OnRecord(n)'
    BY <2>4, <2>5, <2>6 DEF OnRecord, EffectEvents
  <2>8. ClassOf(n)' = ClassOf(n) /\ IdOf(n)' = IdOf(n)
    BY <2>1 DEF ClassOf, IdOf
  <2> QED
    BY <2>1, <2>3, <2>6, <2>7, <2>8 DEF LoopKeeps, OnRecord, IdOf, ClassOf
<1>4. CASE Enqueue
  <2>1. /\ loop.at = "enqueue"
        /\ loop'.at = "queue" /\ loop'.n = loop.n
        /\ content' = content
    BY <1>4 DEF Enqueue, Return, Continue, Idle, Coroutine, TypeOK, Running,
      Coroutines
  <2> QED
    BY <2>1 DEF LoopKeeps, ClassOf
<1>5. ASSUME NEW a \in Submissions, NEW d \in Decisions, Decide(a, d)
      PROVE  LoopKeeps'
  <2>1. a \in Approvals /\ items \in [Approvals -> States]
    BY SubmissionsAreApprovals DEF TypeOK
  <2>2. /\ items' = [items EXCEPT ![a] = Outcome(d)]
        /\ loop' = Coroutine("decided", a, a, d)
    BY <1>5 DEF Decide, Return, Continue, Idle, Coroutine
  <2> QED
    BY <2>1, <2>2 DEF LoopKeeps, Coroutine, Outcome
<1>6. CASE Decided \/ Approve
  BY <1>6 DEF Decided, Approve, Continue, Return, Coroutine, Idle, Appends,
    TypeOK, Running, Coroutines
<1> QED
  BY <1>1, <1>2, <1>3, <1>4, <1>5, <1>6, LoopArrivals

\* A boot finds the effect of whatever it takes for pending in the chain.
LEMMA RestoredIsThere ==
  ASSUME TypeOK, NEW a \in Approvals, OnRecord(a)
  PROVE  Restored(IdOf(a)) # 0
<1>1. EffectLines(IdOf(a)) # {}
  BY DEF OnRecord, EffectLines, Approvals
<1>2. EffectLines(IdOf(a)) \subseteq 1..Len(ledger) /\ Len(ledger) \in Nat
  BY DEF EffectLines, TypeOK
<1>3. Latest(EffectLines(IdOf(a))) \in EffectLines(IdOf(a))
  BY <1>1, <1>2, LatestIsLast
<1> QED
  BY <1>1, <1>3 DEF Restored, EffectLines

LEMMA PendingHasEffectStep ==
  ASSUME TypeOK, TypeOK', PendingOnRecord, LoopKeeps, PendingHasEffect,
         [Next]_vars
  PROVE  PendingHasEffect'
<1> SUFFICES ASSUME NEW a \in Submissions', items'[a] = "pending"
             PROVE  effects'[content'[a].proposal.id] # 0
  BY DEF PendingHasEffect, IdOf
<1>0. Grows
  BY AlwaysGrows
<1>1. /\ a \in Approvals
      /\ items \in [Approvals -> States]
      /\ effects \in [Ids -> Anyone]
  <2>1. PICK S : content' \in Seq(S) /\ Len(content') <= MaxSubmits
    BY DEF TypeOK
  <2>2. DOMAIN content' = 1..Len(content') /\ Len(content') \in Nat
    BY <2>1
  <2>3. a \in 1..MaxSubmits
    BY <2>1, <2>2, ConstantsAssumption DEF Submissions
  <2> QED
    BY <2>3 DEF TypeOK, Approvals
<1>2. ASSUME items[a] = "pending"
      PROVE  /\ a \in Submissions
             /\ content'[a].proposal.id = IdOf(a)
             /\ IdOf(a) \in Ids
             /\ effects[IdOf(a)] # 0
  <2>1. a \in Submissions
    BY <1>1, <1>2, OnRecordIsSubmitted DEF PendingOnRecord
  <2> QED
    BY <1>0, <1>2, <2>1 DEF Grows, IdOf, PendingHasEffect, TypeOK
<1>3. CASE Restart
  <2>1. PICK cached \in {cache, [b \in Approvals |-> "absent"]} :
          items' = [b \in Approvals |-> LoadedItem(b, cached)]
    BY <1>3 DEF Restart
  <2>2. OnRecord(a)
    BY <1>1, <2>1, LoadedPendingIsOnRecord
  <2>3. Restored(IdOf(a)) # 0 /\ a \in Submissions
    BY <1>1, <2>2, RestoredIsThere, OnRecordIsSubmitted
  <2>4. effects' = [e \in Ids |-> Restored(e)] /\ content' = content
    BY <1>3 DEF Restart
  <2> QED
    BY <2>3, <2>4 DEF IdOf, TypeOK
<1>4. CASE Crash
  BY <1>1, <1>4 DEF Crash
<1>5. CASE items' = items /\ ~Crash /\ ~Restart
  <2>1. CASE effects' = effects
    BY <1>2, <1>5, <2>1
  <2>2. CASE loop.n \in Submissions /\ effects' = [effects EXCEPT ![IdOf(loop.n)] = loop.n]
    <3>1. loop.n # 0
      BY <2>2, SubmissionsAreApprovals
    <3> QED
      BY <1>1, <1>2, <1>5, <2>2, <3>1
  <2> QED
    BY <1>5, <2>1, <2>2, EffectsSteps
<1>6. CASE Enqueue
  <2>1. /\ loop.at = "enqueue"
        /\ items' = [items EXCEPT ![loop.n] = "pending"]
        /\ effects' = effects /\ content' = content
    BY <1>6 DEF Enqueue
  <2> QED
    BY <1>1, <1>2, <2>1 DEF LoopKeeps, IdOf
<1>7. ASSUME NEW b \in Submissions, NEW d \in Decisions, Decide(b, d)
      PROVE  effects'[content'[a].proposal.id] # 0
  <2>1. /\ items' = [items EXCEPT ![b] = Outcome(d)]
        /\ Outcome(d) # "pending"
        /\ effects' = effects
    BY <1>7 DEF Decide, Outcome
  <2> QED
    BY <1>1, <1>2, <2>1
<1> QED
  BY <1>3, <1>4, <1>5, <1>6, <1>7, ItemsSteps

\* What the chain says of an approval changes with a line about it only.
LEMMA LedgerItemStays ==
  ASSUME TypeOK, NEW a, NEW l,
         ledger' = ledger \/
           /\ ledger' = Append(ledger, l)
           /\ l.type \in {"effect.queued", "approval.decided"} => l.sub # a
  PROVE  LedgerItem(a)' = LedgerItem(a)
<1>1. CASE ledger' = ledger
  BY <1>1 DEF LedgerItem, Lines, Latest, Outcome
<1>2. CASE /\ ledger' = Append(ledger, l)
           /\ l.type \in {"effect.queued", "approval.decided"} => l.sub # a
  <2>1. PICK S : ledger \in Seq(S)
    BY DEF TypeOK
  <2>2. \A i \in DOMAIN ledger' : \/ i \in DOMAIN ledger /\ ledger'[i] = ledger[i]
                                  \/ i = Len(ledger) + 1 /\ ledger'[i] = l
    BY <1>2, <2>1, AppendedLine
  <2>3. \A i \in DOMAIN ledger : i \in DOMAIN ledger' /\ ledger'[i] = ledger[i]
    <3>1. ledger \in Seq(S \cup {l})
      BY <2>1, SeqMonotonic
    <3> QED
      BY <1>2, <2>1, <3>1, AppendProperties
  <2>4. /\ Lines("effect.queued", a)' = Lines("effect.queued", a)
        /\ Lines("approval.decided", a)' = Lines("approval.decided", a)
    BY <1>2, <2>2, <2>3 DEF Lines
  <2> DEFINE queued == Lines("effect.queued", a)
             decided == {i \in Lines("approval.decided", a) :
                           \A j \in queued : j < i}
  <2>5. decided # {} => Latest(decided) \in decided
    <3>1. decided \subseteq 1..Len(ledger) /\ Len(ledger) \in Nat
      BY <2>1 DEF Lines
    <3> QED
      BY <3>1, LatestIsLast
  <2>6. decided # {} => ledger'[Latest(decided)] = ledger[Latest(decided)]
    BY <2>3, <2>5 DEF Lines
  <2>7. decided' = decided
    BY <2>4
  <2>8. Latest(decided)' = Latest(decided)
    BY <2>7 DEF Latest
  <2>9. LedgerItem(a) = IF queued = {} THEN "absent"
                        ELSE IF decided = {} THEN "pending"
                        ELSE Outcome(ledger[Latest(decided)].body)
    BY DEF LedgerItem
  <2>10. LedgerItem(a)' = IF queued' = {} THEN "absent"
                          ELSE IF decided' = {} THEN "pending"
                          ELSE Outcome(ledger'[Latest(decided)'].body)
    BY DEF LedgerItem, Outcome
  <2> QED
    BY <2>4, <2>6, <2>7, <2>8, <2>9, <2>10
<1> QED
  BY <1>1, <1>2

LEMMA UndecidedItem ==
  ASSUME NEW a, Undecided(a) PROVE LedgerItem(a) \in {"absent", "pending"}
<1>1. Lines("approval.decided", a) = {}
  BY DEF Undecided, Lines
<1> QED
  BY <1>1 DEF LedgerItem

\* The decision being recorded is the one the next boot reads.
LEMMA DecisionIsRead ==
  ASSUME TypeOK, NEW l \in LedgerLine, ledger' = Append(ledger, l),
         l.type = "approval.decided", NEW a, l.sub = a
  PROVE  LedgerItem(a)' \in {"absent", Outcome(l.body)}
<1>1. PICK S : S = LedgerLine /\ ledger \in Seq(S)
  BY DEF TypeOK
<1>2. PICK last : last = Len(ledger) + 1
  OBVIOUS
<1>3. /\ DOMAIN ledger' = 1..last
      /\ ledger'[last] = l
      /\ last \in Nat \ {0}
  BY <1>1, <1>2, AppendProperties
<1> DEFINE queued == Lines("effect.queued", a)
           decided == {i \in Lines("approval.decided", a) :
                         \A j \in queued : j < i}
<1>4. PICK Q, D : Q = queued' /\ D = decided'
  OBVIOUS
<1>5. /\ Q \subseteq 1..last
      /\ last \notin Q
  BY <1>3, <1>4 DEF Lines
<1>6. \A j \in Q : j < last
  BY <1>3, <1>5
<1>7. /\ D \subseteq 1..last
      /\ last \in D
  BY <1>3, <1>4, <1>6 DEF Lines
<1>8. Latest(D) = last
  <2>1. Latest(D) \in D /\ \A j \in D : j <= Latest(D)
    BY <1>3, <1>7, LatestIsLast
  <2>2. Latest(D) \in 1..last /\ last <= Latest(D)
    BY <1>7, <2>1
  <2> QED
    BY <1>3, <2>2
<1>9. Latest(decided)' = Latest(D)
  BY <1>4 DEF Latest
<1>10. LedgerItem(a)' = IF queued' = {} THEN "absent"
                        ELSE IF decided' = {} THEN "pending"
                        ELSE Outcome(ledger'[Latest(decided)'].body)
  BY DEF LedgerItem, Outcome
<1> QED
  BY <1>3, <1>4, <1>7, <1>8, <1>9, <1>10

\* Only a boot brings a process up.
LEMMA UpSteps ==
  ASSUME [Next]_vars, up', ~Restart PROVE up
<1>1. CASE Handler
  BY <1>1, Zenon DEF Handler, Appends, Untraceable, Propose, Cap, Enqueue, Queue,
    Refuse, Decided, Reject, Approve, Execute, Mirror, Settle
<1>2. CASE Request
  BY <1>2, Zenon DEF Request, IngestSignal, Submit, RefuseUntraceable,
    RefuseDecision, Decide, Free
<1>3. CASE \E c \in parked : Relay(c) \/ Resume(c)
  BY <1>3, Zenon DEF Relay, Resume, Free
<1>4. CASE LedgerFails \/ Crash
  BY <1>4, Zenon DEF LedgerFails, Crash
<1>5. CASE UNCHANGED vars
  BY <1>5 DEF vars
<1> QED
  BY <1>1, <1>2, <1>3, <1>4, <1>5, Zenon DEF Next

LEMMA RecordKeptStep ==
  ASSUME TypeOK, PendingUndecided, LoopUndecided, LoopKeeps, RecordKept,
         [Next]_vars
  PROVE  RecordKept'
<1> DEFINE Kept(a) ==
      /\ LedgerItem(a) \in {"approved", "rejected"} => items[a] = LedgerItem(a)
      /\ LedgerItem(a) = "pending" => items[a] # "absent"
<1>1. SUFFICES ASSUME up', NEW a \in Approvals PROVE Kept(a)'
  BY DEF RecordKept, Approvals
<1>2. items \in [Approvals -> States]
  BY DEF TypeOK
<1>3. CASE Restart
  <2>1. PICK cached : items' = [b \in Approvals |-> LoadedItem(b, cached)]
    BY <1>3 DEF Restart
  <2>2. PICK l : /\ l = Line("approvals.alarm", 0, "none", None)
                 /\ ledger' \in {Append(ledger, l), ledger}
    BY <1>3 DEF Restart
  <2>3. l.type \notin {"effect.queued", "approval.decided"}
    BY <2>2 DEF Line
  <2>4. LedgerItem(a)' = LedgerItem(a)
    BY <2>2, <2>3, LedgerItemStays
  <2> QED
    BY <2>1, <2>4 DEF LoadedItem
<1>4. ASSUME ~Restart PROVE Kept(a)
  BY <1>1, <1>4, UpSteps DEF RecordKept
<1>5. CASE items' = items /\ ~Restart
  <2>1. CASE LedgerItem(a)' = LedgerItem(a)
    BY <1>4, <1>5, <2>1
  <2>2. ASSUME loop.at \in DOMAIN Event, ledger' = Append(ledger, NextLine),
               LedgerItem(a)' # LedgerItem(a)
        PROVE  Kept(a)'
    <3>1. NextLine.type \in {"effect.queued", "approval.decided"} /\ NextLine.sub = a
      BY <2>2, LedgerItemStays
    <3>2. /\ NextLine.type = "effect.queued" => loop.at = "queue"
          /\ NextLine.type = "approval.decided" => loop.at = "decided"
          /\ a = loop.n
          /\ NextLine.body = loop.d
      BY <2>2, <3>1 DEF NextLine, Line, Event
    <3>3. CASE loop.at = "queue"
      <4>1. items[a] = "pending"
        BY <3>2, <3>3 DEF LoopUndecided
      <4>2. Undecided(a)
        BY <4>1 DEF PendingUndecided
      <4>3. Undecided(a)'
        BY <3>3, <4>2, UndecidedStays
      <4>4. LedgerItem(a)' \in {"absent", "pending"}
        <5>1. Lines("approval.decided", a)' = {}
          BY <4>3 DEF Undecided, Lines
        <5> QED
          BY <5>1 DEF LedgerItem
      <4> QED
        BY <1>5, <4>1, <4>4
    <3>4. CASE loop.at = "decided"
      <4>1. items[a] = Outcome(loop.d)
        BY <3>2, <3>4 DEF LoopKeeps
      <4>2. NextLine \in LedgerLine /\ NextLine.type = "approval.decided"
        BY <2>2, <3>4, NextLineType DEF NextLine, Line, Event
      <4>3. LedgerItem(a)' \in {"absent", Outcome(loop.d)}
        <5>1. PICK l : l = NextLine
          OBVIOUS
        <5>2. LedgerItem(a)' \in {"absent", Outcome(l.body)}
          BY <2>2, <3>1, <4>2, <5>1, DecisionIsRead
        <5> QED
          BY <3>2, <5>1, <5>2
      <4> QED
        BY <1>5, <4>1, <4>3 DEF Outcome
    <3> QED
      BY <3>1, <3>2, <3>3, <3>4
  <2>3. CASE ledger' = ledger
    BY <2>1, <2>3, LedgerItemStays
  <2>4. ASSUME NEW l, l.type \notin {"approval.decided", "effect.queued"},
               ledger' = Append(ledger, l)
        PROVE  LedgerItem(a)' = LedgerItem(a)
    BY <2>4, LedgerItemStays
  <2> QED
    BY <2>1, <2>2, <2>3, <2>4, DecisionSteps
<1>6. CASE Enqueue
  <2>1. /\ loop.at = "enqueue"
        /\ items' = [items EXCEPT ![loop.n] = "pending"]
        /\ ledger' = ledger
        /\ ~Restart
    BY <1>6 DEF Enqueue, Restart
  <2>2. LedgerItem(a)' = LedgerItem(a)
    BY <2>1, LedgerItemStays
  <2>3. a = loop.n => LedgerItem(a) \in {"absent", "pending"}
    BY <2>1, UndecidedItem DEF LoopUndecided
  <2> QED
    BY <1>2, <1>4, <2>1, <2>2, <2>3
<1>7. ASSUME NEW b \in Submissions, NEW d \in Decisions, Decide(b, d)
      PROVE  Kept(a)'
  <2>1. /\ items[b] = "pending"
        /\ items' = [items EXCEPT ![b] = Outcome(d)]
        /\ ledger' = ledger
        /\ ~Restart
    BY <1>7 DEF Decide, Free, Restart
  <2>2. LedgerItem(a)' = LedgerItem(a)
    BY <2>1, LedgerItemStays
  <2>3. a = b => LedgerItem(a) \in {"absent", "pending"}
    BY <2>1, UndecidedItem DEF PendingUndecided
  <2>4. Outcome(d) # "absent"
    BY DEF Outcome
  <2> QED
    BY <1>2, <1>4, <2>1, <2>2, <2>3, <2>4
<1>8. CASE Crash
  BY <1>1, <1>8 DEF Crash
<1> QED
  BY <1>3, <1>5, <1>6, <1>7, <1>8, ItemsSteps

LEMMA KeepsHolds == Spec => []Keeps
<1>1. Init => Keeps
  BY DEF Init, Keeps, HeldHaveCause, PendingOnRecord, LoopKeeps, RecordKept,
    HoldsAreTraced, PendingHasEffect, LedgerItem, Lines, Submissions, Idle, Coroutine
<1>2. Invariant /\ TypeOK' /\ Spends /\ Keeps /\ [Next]_vars => Keeps'
  BY HeldHaveCauseStep, PendingOnRecordStep, LoopKeepsStep, RecordKeptStep,
     HoldsAreTracedStep, PendingHasEffectStep
  DEF Keeps, Spends, Invariant
<1> QED
  BY <1>1, <1>2, InvariantHolds, SpendsHolds, TypeCorrect, PTL DEF Spec

\* Whatever fails, crashes and boots: a hold in the chain comes after its
\* signal, a pending approval has its effect on record, and a boot brings back
\* every hold and every decision (Gate.submit, Gate._restore,
\* ApprovalQueue._load).
THEOREM NothingHeldIsLost == Spec => []HoldsAreKept
<1>1. Keeps => HoldsAreKept
  BY DEF Keeps, HoldsAreKept, RecordKept, RecordSurvives, Free
<1> QED
  BY <1>1, KeepsHolds, PTL

-----------------------------------------------------------------------------
(* A grant that hands out an escalating role runs on a release.            *)

\* The role a proposal confers by what the chain held before line i.
RoleBefore(p, i) ==
    LET Before == {j \in SignalLines(p.signal_id) : j < i}
    IN IF p.payload_role # "none" \/ Before = {} THEN p.payload_role
       ELSE ledger[Latest(Before)].body.role

Confers(n, i) ==
    /\ content[n].proposal.effect_type \in Conferring
    /\ RoleBefore(content[n].proposal, i) = "escalating"

\* A proposal that confers such a role when its line is written was not
\* classified to execute by itself: between classification and that line
\* nothing else writes.
ProposedHeld ==
    \A i \in DOMAIN ledger :
        (ledger[i].type = "effect.proposed" /\ Confers(ledger[i].sub, i))
        => ClassOf(ledger[i].sub) # "auto"

ProposingHeld ==
    (loop.at = "propose" /\ Confers(loop.n, Len(ledger) + 1))
    => ClassOf(loop.n) # "auto"

LEMMA ConfersStays ==
  ASSUME TypeOK, TypeOK', Grows, NEW n \in Submissions, NEW i \in 1..(Len(ledger) + 1)
  PROVE  /\ Confers(n, i)' <=> Confers(n, i)
         /\ ClassOf(n)' = ClassOf(n)
<1> DEFINE p == content[n].proposal
           B == {j \in SignalLines(p.signal_id) : j < i}
           C == {j \in SignalLines(p.signal_id)' : j < i}
<1>1. content'[n] = content[n]
  BY DEF Grows
<1>2. /\ DOMAIN ledger = 1..Len(ledger) /\ Len(ledger) \in Nat
      /\ DOMAIN ledger' = 1..Len(ledger')
      /\ \A j \in 1..Len(ledger) : j \in DOMAIN ledger' /\ ledger'[j] = ledger[j]
  BY DEF TypeOK, Grows
<1>3. SignalLines(p.signal_id)' = {j \in DOMAIN ledger' :
         ledger'[j].type = "signal.ingested" /\ ledger'[j].body.id = p.signal_id}
  BY <1>1 DEF SignalLines
<1>4. B = C
  <2>1. \A j : j \in B <=> /\ j \in 1..Len(ledger) /\ j < i
                          /\ ledger[j].type = "signal.ingested"
                          /\ ledger[j].body.id = p.signal_id
    BY <1>2 DEF SignalLines
  <2>2. \A j : j \in C <=> /\ j \in 1..Len(ledger') /\ j < i
                          /\ ledger'[j].type = "signal.ingested"
                          /\ ledger'[j].body.id = p.signal_id
    BY <1>2, <1>3
  <2>3. \A j \in 1..Len(ledger') : j < i => j \in 1..Len(ledger)
    BY <1>2
  <2>4. \A j \in 1..Len(ledger) : j \in 1..Len(ledger') /\ ledger'[j] = ledger[j]
    BY <1>2
  <2> HIDE DEF B, C
  <2> QED
    BY <2>1, <2>2, <2>3, <2>4
<1>5. B # {} => Latest(B) \in 1..Len(ledger)
  <2>1. B \subseteq 1..Len(ledger)
    BY <1>2 DEF SignalLines
  <2> HIDE DEF B
  <2> QED
    BY <1>2, <2>1, LatestIsLast
<1>6. RoleBefore(p, i)' = IF p.payload_role # "none" \/ C = {} THEN p.payload_role
                          ELSE ledger'[Latest(C)].body.role
  BY <1>1 DEF RoleBefore, Latest
<1>7. RoleBefore(p, i) = IF p.payload_role # "none" \/ B = {} THEN p.payload_role
                         ELSE ledger[Latest(B)].body.role
  BY DEF RoleBefore
<1>8. RoleBefore(p, i)' = RoleBefore(p, i)
  <2> HIDE DEF B, C
  <2> QED
    BY <1>2, <1>4, <1>5, <1>6, <1>7
<1> QED
  BY <1>1, <1>8 DEF Confers, ClassOf

\* Classification reads the whole chain.
LEMMA ClassifyHolds ==
  ASSUME TypeOK, NEW p, p.effect_type \in Conferring,
         RoleBefore(p, Len(ledger) + 1) = "escalating"
  PROVE  Classify(p) # "auto"
<1>1. {j \in SignalLines(p.signal_id) : j < Len(ledger) + 1} = SignalLines(p.signal_id)
  <2>1. \A j \in SignalLines(p.signal_id) : j \in Nat /\ j < Len(ledger) + 1
    BY DEF SignalLines, TypeOK
  <2> QED
    BY <2>1
<1>2. ConferredRole(p) = "escalating"
  BY <1>1 DEF RoleBefore, ConferredRole
<1> QED
  BY <1>2 DEF Classify

LEMMA ProposedHeldStep ==
  ASSUME TypeOK, TypeOK', Grows, ProposedHeld, ProposingHeld, [Next]_vars
  PROVE  ProposedHeld'
<1> SUFFICES ASSUME NEW i \in DOMAIN ledger', ledger'[i].type = "effect.proposed",
                    Confers(ledger[i].sub, i)'
             PROVE  (ClassOf(ledger[i].sub) # "auto")'
  BY DEF ProposedHeld
<1>0. Len(ledger) \in Nat /\ DOMAIN ledger = 1..Len(ledger)
  BY DEF TypeOK
<1>1. CASE i \in DOMAIN ledger
  <2>1. ledger'[i] = ledger[i]
    BY <1>1 DEF Grows
  <2>2. ledger[i].sub \in Submissions
    BY <1>1, <2>1, LineType DEF LedgerLine, EffectEvents
  <2>3. PICK n \in Submissions : n = ledger[i].sub
    BY <2>2
  <2>4. Confers(n, i)' <=> Confers(n, i)
    BY <1>0, <1>1, ConfersStays
  <2>5. ClassOf(n)' = ClassOf(n)
    BY <1>0, <1>1, ConfersStays
  <2>6. Confers(n, i)'
    BY <2>1, <2>3 DEF Confers, RoleBefore
  <2>7. ClassOf(n) # "auto"
    BY <1>1, <2>1, <2>3, <2>4, <2>6 DEF ProposedHeld
  <2> QED
    BY <2>1, <2>3, <2>5, <2>7 DEF ClassOf
<1>2. CASE i \notin DOMAIN ledger
  <2>1. PICK l : ledger' = Append(ledger, l)
    BY <1>2, LedgerSteps
  <2>2. i = Len(ledger) + 1 /\ ledger'[i] = l
    BY <1>2, <2>1, AppendedLine DEF TypeOK
  <2>3. ledger' # ledger
    BY <1>2
  <2>4. loop.at \in DOMAIN Event /\ ledger' = Append(ledger, NextLine)
    <3>1. ASSUME NEW m, m.type # "effect.proposed", ledger' = Append(ledger, m) PROVE FALSE
      <4>1. ledger'[i] = m
        BY <1>2, <3>1, AppendedLine DEF TypeOK
      <4> QED
        BY <3>1, <4>1
    <3> QED
      BY <2>3, <3>1, DecisionSteps
  <2>5. ledger'[i] = NextLine
    BY <1>2, <2>4, AppendedLine DEF TypeOK
  <2>6. loop.at = "propose" /\ ledger'[i].sub = loop.n
    BY <2>4, <2>5 DEF NextLine, Line, Event
  <2>7. PICK n \in Submissions : n = loop.n
    BY <2>6 DEF TypeOK, Running, Coroutines
  <2>8. Confers(n, i)' <=> Confers(n, i)
    BY <1>0, <2>2, ConfersStays
  <2>9. ClassOf(n)' = ClassOf(n)
    BY <1>0, <2>2, ConfersStays
  <2>10. Confers(n, i)'
    BY <2>6, <2>7 DEF Confers, RoleBefore
  <2>11. ClassOf(n) # "auto"
    BY <2>2, <2>6, <2>7, <2>8, <2>10 DEF ProposingHeld
  <2> QED
    BY <2>6, <2>7, <2>9, <2>11 DEF ClassOf
<1> QED
  BY <1>1, <1>2

LEMMA ProposingHeldStep ==
  ASSUME TypeOK, TypeOK', DownIsIdle, ProposingHeld, [Next]_vars
  PROVE  ProposingHeld'
<1> SUFFICES ASSUME loop'.at = "propose", Confers(loop.n, Len(ledger) + 1)'
             PROVE  (ClassOf(loop.n) # "auto")'
  BY DEF ProposingHeld
<1>1. CASE UNCHANGED vars
  <2>1. UNCHANGED <<ledger, content, loop>>
    BY <1>1 DEF vars, memory
  <2> QED
    BY <2>1 DEF ProposingHeld, Confers, RoleBefore, SignalLines, Latest, ClassOf
<1>2. ASSUME NEW p \in Proposals, Submit(p) PROVE (ClassOf(loop.n) # "auto")'
  <2>1. /\ content' = Append(content, [proposal |-> p, rule |-> Classify(p)])
        /\ loop'.n = Len(content) + 1 /\ ledger' = ledger
    BY <1>2 DEF Submit, Continue, Coroutine
  <2>2. content'[loop'.n] = [proposal |-> p, rule |-> Classify(p)]
    BY <2>1 DEF TypeOK
  <2>3. p.effect_type \in Conferring /\ RoleBefore(p, Len(ledger) + 1) = "escalating"
    <3>1. PICK n, i : n = loop'.n /\ i = Len(ledger')+ 1
      OBVIOUS
    <3>2. Confers(n, i)'
      BY <3>1 DEF Confers, RoleBefore
    <3>3. content'[n].proposal = p /\ i = Len(ledger) + 1
      BY <2>1, <2>2, <3>1
    <3>4. SignalLines(p.signal_id)' = SignalLines(p.signal_id)
      BY <2>1 DEF SignalLines
    <3>5. RoleBefore(p, i)' = RoleBefore(p, i)
      BY <2>1, <3>4 DEF RoleBefore, Latest
    <3>6. p.effect_type \in Conferring /\ RoleBefore(p, i)' = "escalating"
      BY <3>2, <3>3 DEF Confers, RoleBefore, Latest
    <3> QED
      BY <3>3, <3>5, <3>6
  <2>4. Classify(p) # "auto"
    BY <2>3, ClassifyHolds
  <2> QED
    BY <2>2, <2>4 DEF ClassOf
<1>3. ASSUME NEW a \in Submissions, NEW d \in Decisions, Decide(a, d) PROVE FALSE
  BY <1>3 DEF Decide, Return, Continue, Idle, Coroutine
<1>4. CASE Propose \/ Enqueue \/ Decided \/ Approve
  BY <1>4 DEF Propose, Enqueue, Decided, Approve, Continue, Return, Coroutine, Idle,
    Appends, TypeOK, Running, Coroutines
<1> QED
  BY <1>1, <1>2, <1>3, <1>4, LoopArrivals

\* A grant that hands an escalating role out, by its payload or by the signal it
\* names, runs on a release only, whatever the registry says of its type
\* (Gate.classify_with_source).
THEOREM ConferralsAreReleased == Spec => []ConferralIsReleased
<1>1. Init => ProposedHeld /\ ProposingHeld
  BY DEF Init, ProposedHeld, ProposingHeld, Idle, Coroutine
<1>2. TypeOK /\ TypeOK' /\ DownIsIdle /\ ProposedHeld /\ ProposingHeld /\ [Next]_vars
      => (ProposedHeld /\ ProposingHeld)'
  BY AlwaysGrows, ProposedHeldStep, ProposingHeldStep
<1>3. TypeOK /\ ReleasedByDecision /\ ProposedHeld => ConferralIsReleased
  <2> SUFFICES ASSUME TypeOK, ReleasedByDecision, ProposedHeld,
                      NEW k \in DOMAIN ran, NEW i \in Lines("effect.proposed", ran[k].n),
                      Confers(ran[k].n, i)
               PROVE  ran[k].a # 0
    BY DEF ConferralIsReleased, Confers, RoleBefore
  <2>1. i \in DOMAIN ledger /\ ledger[i].type = "effect.proposed" /\ ledger[i].sub = ran[k].n
    BY DEF Lines
  <2>2. ClassOf(ran[k].n) # "auto"
    BY <2>1 DEF ProposedHeld
  <2> QED
    BY <2>2 DEF ReleasedByDecision
<1> QED
  BY <1>1, <1>2, <1>3, TypeCorrect, SpendsHolds, OnlyDecisionsRelease, PTL DEF Spec, Spends

-----------------------------------------------------------------------------
(* As long as no write failed, queue and records are what the chain says.  *)

Matches(a, n) ==
    /\ content[a].proposal.effect_type = content[n].proposal.effect_type
    /\ content[a].proposal.description = content[n].proposal.description

\* What a boot would hold pending, and its near-duplicates.
Awaits(a)  == LoadedItem(a, cache) = "pending"
Waiting(n) == {a \in Submissions : Awaits(a) /\ Matches(a, n)}

\* The queue is what a boot would load, but for the decision being recorded.
QueueIsLoaded ==
    up => \A a \in Approvals :
        \/ items[a] = LoadedItem(a, cache)
        \/ loop.at = "decided" /\ a = loop.n

CacheFollows ==
    /\ loop.at = "queue" => cache[loop.n] = "pending"
    /\ loop.at = "decided" => cache[loop.n] = Outcome(loop.d)

OnlySubmitted ==
    \A a \in Approvals : items[a] # "absent" \/ cache[a] # "absent" => a \in Submissions

CapKept ==
    /\ \A n \in Submissions : Cardinality(Waiting(n)) <= MaxPending
    /\ loop.at = "enqueue" => Cardinality(Waiting(loop.n)) < MaxPending

LEMMA NothingFails ==
  ASSUME faults' = 0, TypeOK PROVE ~Fault
BY DEF Fault, TypeOK

\* Nothing takes a failure back.
LEMMA FaultsOnlyGrow ==
  ASSUME TypeOK, [Next]_vars, faults' = 0
  PROVE  faults = 0
<1>1. Fault => faults' # 0
  BY DEF Fault, TypeOK
<1>2. CASE Handler
  BY <1>1, <1>2 DEF Handler, Appends, Untraceable, Propose, Cap, Enqueue, Queue,
    Refuse, Decided, Reject, Approve, Execute, Mirror, Settle, bounds
<1>3. CASE Request
  BY <1>1, <1>3 DEF Request, IngestSignal, Submit, RefuseUntraceable, RefuseDecision,
    Decide, bounds
<1>4. CASE \E c \in parked : Relay(c) \/ Resume(c)
  BY <1>1, <1>4 DEF Relay, Resume, bounds
<1>5. CASE LedgerFails \/ Crash \/ Restart
  BY <1>1, <1>5 DEF LedgerFails, Crash, Restart
<1>6. CASE UNCHANGED vars
  BY <1>6 DEF vars, bounds
<1> QED
  BY <1>2, <1>3, <1>4, <1>5, <1>6 DEF Next

\* A handler that records a decision records it, unless the process dies.
LEMMA DecidingDecides ==
  ASSUME faults' = 0, TypeOK, DownIsIdle, loop.at = "decided", [Next]_vars
  PROVE  Decided \/ Crash \/ UNCHANGED vars
<1>1. CASE Handler
  <2>1. ~Untraceable /\ ~Propose /\ ~Cap /\ ~Enqueue /\ ~Queue /\ ~Refuse
    BY DEF Untraceable, Propose, Cap, Enqueue, Queue, Refuse, Appends
  <2>2. ~Reject /\ ~Approve /\ ~Execute /\ ~Mirror /\ ~Settle("executed") /\ ~Settle("blocked")
    BY DEF Reject, Approve, Execute, Mirror, Settle, Appends
  <2> QED
    BY <1>1, <2>1, <2>2 DEF Handler
<1>2. CASE Request
  <2>1. Free
    BY <1>2, Zenon DEF Request, IngestSignal, Submit, RefuseUntraceable,
      RefuseDecision, Decide
  <2> QED
    BY <2>1 DEF Free, Idle, Coroutine
<1>3. CASE \E c \in parked : Relay(c) \/ Resume(c)
  BY <1>3 DEF Relay, Resume, Free, Idle, Coroutine
<1>4. CASE LedgerFails
  BY <1>4, NothingFails DEF LedgerFails
<1>5. CASE Restart
  BY <1>5 DEF Restart, DownIsIdle, Idle, Coroutine
<1> QED
  BY <1>1, <1>2, <1>3, <1>4, <1>5 DEF Next

\* What the chain says of an approval changes when it is queued and when its
\* decision is recorded.
LEMMA LedgerItemMoves ==
  ASSUME TypeOK, PendingUndecided, LoopUndecided, [Next]_vars, NEW a \in Approvals
  PROVE  \/ LedgerItem(a)' = LedgerItem(a)
         \/ /\ loop.at = "queue" /\ a = loop.n /\ items[a] = "pending"
            /\ LedgerItem(a) \in {"absent", "pending"}
            /\ LedgerItem(a)' \in {"absent", "pending"}
         \/ /\ loop.at = "decided" /\ a = loop.n
            /\ LedgerItem(a)' \in {"absent", Outcome(loop.d)}
<1> SUFFICES ASSUME LedgerItem(a)' # LedgerItem(a)
             PROVE  \/ /\ loop.at = "queue" /\ a = loop.n /\ items[a] = "pending"
                       /\ LedgerItem(a) \in {"absent", "pending"}
                       /\ LedgerItem(a)' \in {"absent", "pending"}
                    \/ /\ loop.at = "decided" /\ a = loop.n
                       /\ LedgerItem(a)' \in {"absent", Outcome(loop.d)}
  OBVIOUS
<1>1. loop.at \in DOMAIN Event /\ ledger' = Append(ledger, NextLine)
  BY DecisionSteps, LedgerItemStays
<1>2. NextLine.type \in {"effect.queued", "approval.decided"} /\ NextLine.sub = a
  BY <1>1, LedgerItemStays
<1>3. /\ NextLine.type = "effect.queued" => loop.at = "queue"
      /\ NextLine.type = "approval.decided" => loop.at = "decided"
      /\ a = loop.n
      /\ NextLine.body = loop.d
  BY <1>1, <1>2 DEF NextLine, Line, Event
<1>4. CASE loop.at = "queue"
  <2>1. items[a] = "pending"
    BY <1>3, <1>4 DEF LoopUndecided
  <2>2. Undecided(a)
    BY <2>1 DEF PendingUndecided
  <2>3. Undecided(a)'
    BY <1>4, <2>2, UndecidedStays
  <2>4. Lines("approval.decided", a)' = {}
    BY <2>3 DEF Undecided, Lines
  <2>5. LedgerItem(a)' \in {"absent", "pending"}
    BY <2>4 DEF LedgerItem
  <2> QED
    BY <1>3, <1>4, <2>1, <2>2, <2>5, UndecidedItem
<1>5. CASE loop.at = "decided"
  <2>1. PICK l : l = NextLine
    OBVIOUS
  <2>2. l \in LedgerLine /\ l.type = "approval.decided"
    BY <1>1, <1>5, <2>1, NextLineType DEF NextLine, Line, Event
  <2>3. LedgerItem(a)' \in {"absent", Outcome(l.body)}
    BY <1>1, <1>2, <2>1, <2>2, DecisionIsRead
  <2> QED
    BY <1>3, <1>5, <2>1, <2>3
<1> QED
  BY <1>2, <1>3, <1>4, <1>5

\* A boot that can read the cache loads what it says.
LEMMA BootLoads ==
  ASSUME faults' = 0, TypeOK, Restart
  PROVE  /\ items' = [a \in Approvals |-> LoadedItem(a, cache)]
         /\ cache' = cache
         /\ \A a : LedgerItem(a)' = LedgerItem(a)
<1>1. PICK cached \in {cache, [a \in Approvals |-> "absent"]} :
        /\ items' = [a \in Approvals |-> LoadedItem(a, cached)]
        /\ IF cached = cache THEN UNCHANGED <<cache, faults>>
                             ELSE Fault /\ cache' = items'
        /\ ledger' \in {Append(ledger, Line("approvals.alarm", 0, "none", None)), ledger}
  BY DEF Restart
<1>2. cached = cache
  BY <1>1, NothingFails
<1>3. PICK l : /\ l = Line("approvals.alarm", 0, "none", None)
               /\ ledger' \in {Append(ledger, l), ledger}
  BY <1>1
<1>4. l.type \notin {"effect.queued", "approval.decided"}
  BY <1>3 DEF Line
<1>5. ASSUME NEW a PROVE LedgerItem(a)' = LedgerItem(a)
  BY <1>3, <1>4, LedgerItemStays
<1> QED
  BY <1>1, <1>2, <1>5

LEMMA QueueIsLoadedStep ==
  ASSUME faults' = 0, TypeOK, DownIsIdle, PendingUndecided, LoopUndecided,
         LoopKeeps, CacheFollows, QueueIsLoaded, [Next]_vars
  PROVE  QueueIsLoaded'
<1> DEFINE Loads(a) == items[a] = LoadedItem(a, cache)
<1> SUFFICES ASSUME up', NEW a \in Approvals
             PROVE  Loads(a)' \/ (loop'.at = "decided" /\ a = loop'.n)
  BY DEF QueueIsLoaded, Approvals
<1>0. items \in [Approvals -> States]
  BY DEF TypeOK
<1>1. CASE Restart
  <2>1. /\ items'[a] = LoadedItem(a, cache) /\ cache' = cache
        /\ LedgerItem(a)' = LedgerItem(a)
    BY <1>1, BootLoads
  <2> QED
    BY <2>1 DEF LoadedItem
<1>2. ASSUME ~Restart PROVE Loads(a) \/ (loop.at = "decided" /\ a = loop.n)
  BY <1>2, UpSteps DEF QueueIsLoaded
<1>3. CASE items' = items /\ cache' = cache /\ ~Restart
  <2>1. CASE loop.at = "decided" /\ a = loop.n
    <3>1. CASE UNCHANGED vars
      BY <2>1, <3>1 DEF vars, memory
    <3>2. CASE Decided
      <4>1. items[a] = Outcome(loop.d) /\ cache[a] = Outcome(loop.d)
        BY <2>1 DEF LoopKeeps, CacheFollows
      <4>2. LedgerItem(a)' \in {"absent", LedgerItem(a), Outcome(loop.d)}
        BY <2>1, LedgerItemMoves
      <4>3. PICK l : l = NextLine
        OBVIOUS
      <4>4. l \in LedgerLine /\ l.type = "approval.decided" /\ l.sub = a /\ l.body = loop.d
        BY <2>1, <4>3, NextLineType DEF NextLine, Line, Event
      <4>5. ledger' = Append(ledger, l)
        BY <3>2, <4>3 DEF Decided, Appends
      <4>6. LedgerItem(a)' \in {"absent", Outcome(loop.d)}
        BY <4>4, <4>5, DecisionIsRead
      <4> QED
        BY <1>3, <4>1, <4>6 DEF LoadedItem
    <3>3. CASE Crash
      BY <3>3 DEF Crash
    <3> QED
      BY <2>1, <3>1, <3>2, <3>3, DecidingDecides
  <2>2. CASE ~(loop.at = "decided" /\ a = loop.n)
    <3>1. items[a] = LoadedItem(a, cache)
      BY <1>2, <1>3, <2>2
    <3>2. CASE LedgerItem(a)' = LedgerItem(a)
      BY <1>3, <3>1, <3>2 DEF LoadedItem
    <3>3. CASE /\ loop.at = "queue" /\ a = loop.n /\ items[a] = "pending"
               /\ LedgerItem(a)' \in {"absent", "pending"}
      <4>1. cache[a] = "pending"
        BY <3>3 DEF CacheFollows
      <4> QED
        BY <1>3, <3>3, <4>1 DEF LoadedItem
    <3> QED
      BY <2>2, <3>2, <3>3, LedgerItemMoves
  <2> QED
    BY <2>1, <2>2
<1>4. CASE Enqueue
  <2>1. /\ loop.at = "enqueue"
        /\ items' = [items EXCEPT ![loop.n] = "pending"]
        /\ cache' = items' /\ ledger' = ledger /\ ~Restart
    BY <1>4, NothingFails DEF Enqueue, Restart
  <2>2. LedgerItem(a)' = LedgerItem(a)
    BY <2>1, LedgerItemStays
  <2>3. a = loop.n => LedgerItem(a) \in {"absent", "pending"}
    BY <2>1, UndecidedItem DEF LoopUndecided
  <2>4. items[a] = LoadedItem(a, cache)
    BY <1>2, <2>1
  <2> QED
    BY <1>0, <2>1, <2>2, <2>3, <2>4 DEF LoadedItem
<1>5. ASSUME NEW b \in Submissions, NEW d \in Decisions, Decide(b, d)
      PROVE  Loads(a)' \/ (loop'.at = "decided" /\ a = loop'.n)
  <2>1. /\ loop.at = "idle"
        /\ items' = [items EXCEPT ![b] = Outcome(d)]
        /\ cache' = items' /\ ledger' = ledger /\ ~Restart
        /\ loop' = Coroutine("decided", b, b, d)
    BY <1>5, NothingFails DEF Decide, Restart, Free, Idle, Coroutine, Continue
  <2>2. LedgerItem(a)' = LedgerItem(a)
    BY <2>1, LedgerItemStays
  <2>3. items[a] = LoadedItem(a, cache)
    BY <1>2, <2>1
  <2> QED
    BY <1>0, <2>1, <2>2, <2>3 DEF LoadedItem, Coroutine
<1>6. CASE Crash
  BY <1>6 DEF Crash
<1> QED
  BY <1>1, <1>3, <1>4, <1>5, <1>6, ItemsSteps

LEMMA CacheFollowsStep ==
  ASSUME faults' = 0, TypeOK, DownIsIdle, CacheFollows, [Next]_vars
  PROVE  CacheFollows'
<1> SUFFICES ASSUME loop'.at \in {"queue", "decided"}
             PROVE  CacheFollows'
  BY DEF CacheFollows
<1>0. items \in [Approvals -> States] /\ Submissions \subseteq Approvals
  BY SubmissionsAreApprovals DEF TypeOK
<1>1. CASE UNCHANGED vars
  BY <1>1 DEF vars, memory, CacheFollows, Outcome
<1>2. CASE Enqueue
  <2>1. /\ loop.n \in Approvals
        /\ items' = [items EXCEPT ![loop.n] = "pending"]
        /\ cache' = items'
        /\ loop' = [loop EXCEPT !.at = "queue"]
    BY <1>0, <1>2, NothingFails DEF Enqueue, Continue, TypeOK, Running, Coroutines
  <2>2. loop'.n = loop.n /\ loop'.at = "queue"
    BY <2>1 DEF TypeOK, Running, Coroutines
  <2> QED
    BY <1>0, <2>1, <2>2 DEF CacheFollows
<1>3. ASSUME NEW a \in Submissions, NEW d \in Decisions, Decide(a, d)
      PROVE  CacheFollows'
  <2>1. /\ items' = [items EXCEPT ![a] = Outcome(d)]
        /\ cache' = items'
        /\ loop' = Coroutine("decided", a, a, d)
    BY <1>3, NothingFails DEF Decide, Continue
  <2> QED
    BY <1>0, <2>1 DEF CacheFollows, Coroutine, Outcome
<1>4. ASSUME NEW p \in Proposals, Submit(p) PROVE FALSE
  BY <1>4 DEF Submit, Continue, Coroutine
<1>5. CASE Propose \/ Decided \/ Approve
  BY <1>5 DEF Propose, Decided, Approve, Continue, Return, Coroutine, Idle,
    Appends, TypeOK, Running, Coroutines
<1> QED
  BY <1>1, <1>2, <1>3, <1>4, <1>5, LoopArrivals

LEMMA OnlySubmittedStep ==
  ASSUME faults' = 0, TypeOK, OnlySubmitted, [Next]_vars
  PROVE  OnlySubmitted'
<1> SUFFICES ASSUME NEW a \in Approvals, items'[a] # "absent" \/ cache'[a] # "absent"
             PROVE  a \in Submissions
  BY AlwaysGrows DEF OnlySubmitted, Approvals, Grows
<1>0. items \in [Approvals -> States] /\ cache \in [Approvals -> States]
  BY DEF TypeOK
<1>1. CASE items' = items /\ cache' = cache
  BY <1>1 DEF OnlySubmitted
<1>2. CASE Enqueue
  <2>1. /\ items' = [items EXCEPT ![loop.n] = "pending"]
        /\ cache' = items' /\ loop.n \in Submissions
    BY <1>2, NothingFails DEF Enqueue, TypeOK, Running, Coroutines
  <2> QED
    BY <1>0, <2>1 DEF OnlySubmitted
<1>3. ASSUME NEW b \in Submissions, NEW d \in Decisions, Decide(b, d)
      PROVE  a \in Submissions
  <2>1. items' = [items EXCEPT ![b] = Outcome(d)] /\ cache' = items'
    BY <1>3, NothingFails DEF Decide
  <2> QED
    BY <1>0, <2>1 DEF OnlySubmitted
<1>4. CASE Crash
  BY <1>4 DEF Crash, OnlySubmitted
<1>5. CASE Restart
  <2>1. items'[a] = LoadedItem(a, cache) /\ cache' = cache
    BY <1>5, BootLoads
  <2>2. CASE LedgerItem(a) # "absent"
    <3>1. PICK i \in DOMAIN ledger : ledger[i].type = "effect.queued" /\ ledger[i].sub = a
      BY <2>2 DEF LedgerItem, Lines
    <3>2. ledger[i] \in LedgerLine
      BY LineType
    <3> QED
      BY <3>1, <3>2 DEF LedgerLine
  <2> QED
    BY <2>1, <2>2 DEF LoadedItem, OnlySubmitted
<1> QED
  BY <1>1, <1>2, <1>3, <1>4, <1>5, ItemsSteps

LEMMA AwaitingIsSubmitted ==
  ASSUME TypeOK, OnlySubmitted, NEW a \in Approvals, Awaits(a)
  PROVE  a \in Submissions
<1>1. CASE LedgerItem(a) # "absent"
  <2>1. PICK i \in DOMAIN ledger : ledger[i].type = "effect.queued" /\ ledger[i].sub = a
    BY <1>1 DEF LedgerItem, Lines
  <2>2. ledger[i] \in LedgerLine
    BY LineType
  <2> QED
    BY <2>1, <2>2 DEF LedgerLine
<1>2. CASE LedgerItem(a) = "absent"
  BY <1>2 DEF Awaits, LoadedItem, OnlySubmitted
<1> QED
  BY <1>1, <1>2

\* A boot finds one more hold pending only after it was enqueued.
LEMMA AwaitingSteps ==
  ASSUME faults' = 0, TypeOK, PendingUndecided, LoopUndecided, CacheFollows,
         QueueIsLoaded, [Next]_vars, NEW a \in Approvals, Awaits(a)'
  PROVE  Awaits(a) \/ (Enqueue /\ a = loop.n)
<1>0. items \in [Approvals -> States] /\ \A d : Outcome(d) # "pending"
  BY DEF TypeOK, Outcome
<1>1. ASSUME ledger' = ledger, loop.at # "decided", up,
             cache'[a] = items[a]
      PROVE  Awaits(a)
  <2>1. LedgerItem(a)' = LedgerItem(a)
    BY <1>1, LedgerItemStays
  <2>2. items[a] = LoadedItem(a, cache)
    BY <1>1 DEF QueueIsLoaded
  <2> QED
    BY <1>1, <2>1, <2>2 DEF Awaits, LoadedItem
<1>2. CASE items' = items /\ cache' = cache
  <2>1. CASE LedgerItem(a)' = LedgerItem(a)
    BY <1>2, <2>1 DEF Awaits, LoadedItem
  <2>2. CASE /\ loop.at = "queue" /\ a = loop.n
             /\ LedgerItem(a) \in {"absent", "pending"}
    BY <2>2 DEF Awaits, LoadedItem, CacheFollows
  <2>3. CASE /\ loop.at = "decided" /\ a = loop.n
             /\ LedgerItem(a)' \in {"absent", Outcome(loop.d)}
    BY <1>0, <1>2, <2>3 DEF Awaits, LoadedItem, CacheFollows
  <2> QED
    BY <2>1, <2>2, <2>3, LedgerItemMoves
<1>3. CASE Enqueue
  <2>1. /\ up /\ loop.at = "enqueue" /\ ledger' = ledger
        /\ cache' = [items EXCEPT ![loop.n] = "pending"]
    BY <1>3, NothingFails DEF Enqueue
  <2>2. a # loop.n => cache'[a] = items[a]
    BY <1>0, <2>1
  <2> QED
    BY <1>1, <1>3, <2>1, <2>2
<1>4. ASSUME NEW b \in Submissions, NEW d \in Decisions, Decide(b, d)
      PROVE  Awaits(a)
  <2>1. /\ up /\ loop.at = "idle" /\ ledger' = ledger
        /\ cache' = [items EXCEPT ![b] = Outcome(d)]
        /\ items[b] = "pending"
    BY <1>4, NothingFails DEF Decide, Free, Idle, Coroutine
  <2>2. CASE a = b
    BY <2>1, <2>2 DEF QueueIsLoaded, Awaits
  <2>3. CASE a # b
    <3>1. cache'[a] = items[a]
      BY <1>0, <2>1, <2>3
    <3> QED
      BY <1>1, <2>1, <3>1
  <2> QED
    BY <2>2, <2>3
<1>5. CASE Crash
  <2>1. ledger' = ledger /\ cache' = cache
    BY <1>5 DEF Crash
  <2>2. LedgerItem(a)' = LedgerItem(a)
    BY <2>1, LedgerItemStays
  <2> QED
    BY <2>1, <2>2 DEF Awaits, LoadedItem
<1>6. CASE Restart
  <2>1. cache' = cache /\ LedgerItem(a)' = LedgerItem(a)
    BY <1>6, BootLoads
  <2> QED
    BY <2>1 DEF Awaits, LoadedItem
<1> QED
  BY <1>2, <1>3, <1>4, <1>5, <1>6, ItemsSteps

LEMMA WaitingIsFinite ==
  ASSUME TypeOK, NEW n PROVE IsFiniteSet(Waiting(n)) /\ Cardinality(Waiting(n)) \in Nat
<1>1. Submissions = 1..Len(content) /\ Len(content) \in Nat
  BY SubmissionsAreApprovals
<1>2. IsFiniteSet(Submissions)
  BY <1>1, FS_Interval
<1>3. IsFiniteSet(Waiting(n))
  BY <1>2, FS_Subset DEF Waiting
<1> QED
  BY <1>3, FS_CardinalityType

\* The queue counts what a boot would load.
LEMMA PendingIsWaiting ==
  ASSUME TypeOK, QueueIsLoaded, up, loop.at # "decided", NEW n
  PROVE  PendingMatching(n) = Waiting(n)
<1>1. Submissions \subseteq Approvals
  BY SubmissionsAreApprovals
<1> QED
  BY <1>1 DEF PendingMatching, Waiting, Matches, Awaits, QueueIsLoaded

LEMMA CapKeptStep ==
  ASSUME faults' = 0, TypeOK, TypeOK', DownIsIdle, PendingUndecided,
         LoopUndecided, CacheFollows, QueueIsLoaded, OnlySubmitted, CapKept,
         [Next]_vars
  PROVE  CapKept'
<1>0. /\ Submissions \subseteq Approvals
      /\ \A n : IsFiniteSet(Waiting(n)) /\ Cardinality(Waiting(n)) \in Nat
      /\ MaxPending \in Nat \ {0}
  BY SubmissionsAreApprovals, WaitingIsFinite, ConstantsAssumption
<1>1. \A n \in Submissions : n \in Submissions' /\ content'[n] = content[n]
  BY AlwaysGrows DEF Grows
<1>2. ASSUME NEW a \in Submissions', Awaits(a)'
      PROVE  a \in Submissions /\ (Awaits(a) \/ (Enqueue /\ a = loop.n))
  <2>1. a \in Approvals
    <3>1. PICK S : content' \in Seq(S) /\ Len(content') <= MaxSubmits
      BY DEF TypeOK
    <3>2. DOMAIN content' = 1..Len(content') /\ Len(content') \in Nat
      BY <3>1
    <3> QED
      BY <3>1, <3>2, ConstantsAssumption DEF Submissions, Approvals
  <2>2. Awaits(a) \/ (Enqueue /\ a = loop.n)
    BY <1>2, <2>1, AwaitingSteps
  <2>3. Enqueue => loop.n \in Submissions
    BY DEF Enqueue, TypeOK, Running, Coroutines
  <2> QED
    BY <2>1, <2>2, <2>3, AwaitingIsSubmitted
<1>3. ASSUME NEW n \in Submissions
      PROVE  Waiting(n)' \subseteq Waiting(n) \cup
               {a \in {loop.n} : Enqueue /\ Matches(a, n)}
  <2> SUFFICES ASSUME NEW a \in Waiting(n)'
               PROVE  \/ a \in Waiting(n)
                      \/ a = loop.n /\ Enqueue /\ Matches(a, n)
    OBVIOUS
  <2>1. a \in Submissions' /\ Awaits(a)' /\ Matches(a, n)'
    BY DEF Waiting
  <2>2. a \in Submissions /\ (Awaits(a) \/ (Enqueue /\ a = loop.n))
    BY <1>2, <2>1
  <2>3. Matches(a, n)
    BY <1>1, <2>1, <2>2 DEF Matches
  <2> QED
    BY <2>2, <2>3 DEF Waiting
<1>4. ASSUME NEW n \in Submissions PROVE Cardinality(Waiting(n)') <= MaxPending
  <2>1. CASE Enqueue /\ Matches(loop.n, n)
    <3>1. Waiting(n) = Waiting(loop.n)
      BY <2>1 DEF Waiting, Matches
    <3>2. Cardinality(Waiting(n)) < MaxPending
      BY <2>1, <3>1 DEF CapKept, Enqueue
    <3>3. /\ IsFiniteSet(Waiting(n) \cup {loop.n})
          /\ Cardinality(Waiting(n) \cup {loop.n}) =
               IF loop.n \in Waiting(n) THEN Cardinality(Waiting(n))
                                        ELSE Cardinality(Waiting(n)) + 1
      BY <1>0, FS_AddElement
    <3>4. Waiting(n)' \subseteq Waiting(n) \cup {loop.n}
      BY <1>3
    <3>5. /\ IsFiniteSet(Waiting(n)')
          /\ Cardinality(Waiting(n)') <= Cardinality(Waiting(n) \cup {loop.n})
      BY <3>3, <3>4, FS_Subset
    <3>6. Cardinality(Waiting(n)') \in Nat
      BY <3>5, FS_CardinalityType
    <3> QED
      BY <1>0, <3>2, <3>3, <3>5, <3>6
  <2>2. CASE ~(Enqueue /\ Matches(loop.n, n))
    <3>1. Waiting(n)' \subseteq Waiting(n)
      BY <1>3, <2>2
    <3>2. /\ IsFiniteSet(Waiting(n)')
          /\ Cardinality(Waiting(n)') <= Cardinality(Waiting(n))
      BY <1>0, <3>1, FS_Subset
    <3>3. Cardinality(Waiting(n)') \in Nat
      BY <3>2, FS_CardinalityType
    <3>4. Cardinality(Waiting(n)) <= MaxPending
      BY DEF CapKept
    <3> QED
      BY <1>0, <3>2, <3>3, <3>4
  <2> QED
    BY <2>1, <2>2
<1>5. ASSUME NEW n \in Submissions' PROVE Cardinality(Waiting(n)') <= MaxPending
  <2>1. CASE Waiting(n)' = {}
    BY <1>0, <2>1, FS_EmptySet
  <2>2. CASE Waiting(n)' # {}
    <3>1. PICK m : m \in Submissions' /\ Awaits(m)' /\ Matches(m, n)'
      BY <2>2 DEF Waiting
    <3>2. m \in Submissions
      BY <1>2, <3>1
    <3>3. Waiting(n)' = Waiting(m)'
      BY <3>1 DEF Waiting, Matches
    <3> QED
      BY <1>4, <3>2, <3>3
  <2> QED
    BY <2>1, <2>2
<1>6. ASSUME loop'.at = "enqueue" PROVE Cardinality(Waiting(loop.n)') < MaxPending
  <2>1. CASE UNCHANGED vars
    <3>1. loop' = loop
      BY <2>1 DEF vars, memory
    <3>2. UNCHANGED <<content, ledger, cache>>
      BY <2>1 DEF vars
    <3>3. Cardinality(Waiting(loop.n)) < MaxPending
      BY <1>6, <3>1 DEF CapKept
    <3>4. PICK n : n = loop.n
      OBVIOUS
    <3>5. Waiting(n)' = Waiting(n)
      BY <3>2 DEF Waiting, Awaits, Matches, Submissions, LoadedItem, LedgerItem, Lines,
        Latest, Outcome
    <3> QED
      BY <3>1, <3>3, <3>4, <3>5
  <2>2. CASE Propose
    <3>1. /\ up /\ loop.at = "propose" /\ loop.n \in Submissions
          /\ ~Capped(loop.n) /\ loop'.n = loop.n
      BY <1>6, <2>2 DEF Propose, Appends, Continue, TypeOK, Running, Coroutines
    <3>2. PICK n \in Submissions : n = loop.n
      BY <3>1
    <3>3. PendingMatching(n) = Waiting(n)
      BY <3>1, PendingIsWaiting
    <3>4. Cardinality(Waiting(n)) < MaxPending
      BY <1>0, <3>1, <3>2, <3>3 DEF Capped
    <3>5. Waiting(n)' \subseteq Waiting(n)
      <4>1. ~Enqueue
        BY <3>1 DEF Enqueue
      <4> QED
        BY <1>3, <4>1
    <3>6. /\ IsFiniteSet(Waiting(n)')
          /\ Cardinality(Waiting(n)') <= Cardinality(Waiting(n))
      BY <1>0, <3>5, FS_Subset
    <3>7. Cardinality(Waiting(n)') \in Nat
      BY <3>6, FS_CardinalityType
    <3>8. Cardinality(Waiting(n)') < MaxPending
      BY <1>0, <3>4, <3>6, <3>7
    <3> QED
      BY <3>1, <3>2, <3>8
  <2>3. ASSUME NEW p \in Proposals, Submit(p) PROVE FALSE
    BY <1>6, <2>3 DEF Submit, Continue, Coroutine
  <2>4. ASSUME NEW a \in Submissions, NEW d \in Decisions, Decide(a, d) PROVE FALSE
    BY <1>6, <2>4, NothingFails DEF Decide, Continue, Coroutine
  <2>5. CASE Enqueue \/ Decided \/ Approve
    BY <1>6, <2>5, NothingFails DEF Enqueue, Decided, Approve, Continue, Return,
      Coroutine, Idle, Appends, TypeOK, Running, Coroutines
  <2> QED
    BY <1>6, <2>1, <2>2, <2>3, <2>4, <2>5, LoopArrivals
<1> QED
  BY <1>5, <1>6 DEF CapKept

\* What is kept, carried or suspended is on record in the chain.
EffectsRecorded == \A e \in Ids : effects[e] # 0 => EffectLines(e) # {}

CarriedRecorded ==
    /\ \A c \in parked : OnRecord(c.n)
    /\ loop.at = "mirror" => OnRecord(loop.n)

\* The record of an effect says what its last line says.
Said(n) ==
    LET S == EffectLines(IdOf(n)) IN
    S # {} /\ ledger[Latest(S)].type # "effect.refused" =>
        status[n] = ledger[Latest(S)].says

StatusIsSaid == up => \A n \in Submissions : Alone(n) => Said(n)

\* The lines about an effect id change with a line about it only.
LEMMA EffectLinesStay ==
  ASSUME TypeOK, Grows, NEW e, NEW l,
         \/ ledger' = ledger
         \/ /\ ledger' = Append(ledger, l)
            /\ l.type \in EffectEvents /\ l.sub # 0 => content'[l.sub].proposal.id # e
  PROVE  /\ EffectLines(e)' = EffectLines(e)
         /\ \A i \in EffectLines(e) : i \in DOMAIN ledger /\ ledger'[i] = ledger[i]
<1>1. ASSUME NEW i \in DOMAIN ledger
      PROVE  /\ i \in DOMAIN ledger' /\ ledger'[i] = ledger[i]
             /\ ledger[i].sub # 0 => content'[ledger[i].sub] = content[ledger[i].sub]
  <2>1. ledger[i] \in LedgerLine
    BY LineType
  <2>2. ledger[i].sub # 0 => ledger[i].sub \in Submissions
    BY <2>1 DEF LedgerLine
  <2> QED
    BY <2>2 DEF Grows
<1>2. ASSUME NEW i \in DOMAIN ledger'
      PROVE  \/ i \in DOMAIN ledger
             \/ ~(/\ ledger'[i].type \in EffectEvents /\ ledger'[i].sub # 0
                  /\ content'[ledger'[i].sub].proposal.id = e)
  <2>1. PICK S : ledger \in Seq(S)
    BY DEF TypeOK
  <2>2. CASE ledger' = Append(ledger, l)
    BY <2>1, <2>2, AppendedLine
  <2> QED
    BY <2>2
<1>3. EffectLines(e) = {i \in DOMAIN ledger : /\ ledger[i].type \in EffectEvents
                                              /\ ledger[i].sub # 0
                                              /\ content[ledger[i].sub].proposal.id = e}
  BY DEF EffectLines, IdOf
<1>4. EffectLines(e)' = {i \in DOMAIN ledger' : /\ ledger'[i].type \in EffectEvents
                                                /\ ledger'[i].sub # 0
                                                /\ content'[ledger'[i].sub].proposal.id = e}
  BY DEF EffectLines, IdOf, EffectEvents
<1>5. ASSUME NEW i PROVE i \in EffectLines(e)' <=> i \in EffectLines(e)
  BY <1>1, <1>2, <1>3, <1>4
<1> QED
  BY <1>1, <1>3, <1>5

\* A line about an effect id is, once it is down, the last one.
LEMMA LastEffectLine ==
  ASSUME TypeOK, NEW l \in LedgerLine, ledger' = Append(ledger, l),
         l.type \in EffectEvents, l.sub # 0, NEW e, content'[l.sub].proposal.id = e
  PROVE  EffectLines(e)' # {} /\ ledger'[Latest(EffectLines(e)')] = l
<1>1. PICK S : S = LedgerLine /\ ledger \in Seq(S)
  BY DEF TypeOK
<1>2. PICK last : last = Len(ledger) + 1
  OBVIOUS
<1>3. /\ DOMAIN ledger' = 1..last
      /\ ledger'[last] = l
      /\ last \in Nat \ {0}
  BY <1>1, <1>2, AppendProperties
<1>4. PICK D : D = EffectLines(e)'
  OBVIOUS
<1>5. D \subseteq 1..last /\ last \in D
  BY <1>3, <1>4 DEF EffectLines, IdOf, EffectEvents
<1>6. Latest(D) = last
  <2>1. Latest(D) \in D /\ \A j \in D : j <= Latest(D)
    BY <1>3, <1>5, LatestIsLast
  <2>2. Latest(D) \in 1..last /\ last <= Latest(D)
    BY <1>5, <2>1
  <2> QED
    BY <1>3, <2>2
<1> QED
  BY <1>3, <1>4, <1>5, <1>6

\* The last line about an effect id is about the submission alone to have it.
LEMMA RestoredIsTheOne ==
  ASSUME TypeOK, NEW n \in Submissions, Alone(n), EffectLines(IdOf(n)) # {}
  PROVE  /\ Latest(EffectLines(IdOf(n))) \in EffectLines(IdOf(n))
         /\ Restored(IdOf(n)) = n
<1>1. EffectLines(IdOf(n)) \subseteq 1..Len(ledger) /\ Len(ledger) \in Nat
  BY DEF EffectLines, TypeOK
<1>2. PICK i : i = Latest(EffectLines(IdOf(n))) /\ i \in EffectLines(IdOf(n))
  BY <1>1, LatestIsLast
<1>3. i \in DOMAIN ledger /\ ledger[i].sub # 0 /\ IdOf(ledger[i].sub) = IdOf(n)
  BY <1>2 DEF EffectLines
<1>4. ledger[i] \in LedgerLine
  BY <1>3, LineType
<1>5. ledger[i].sub \in Submissions
  BY <1>3, <1>4 DEF LedgerLine
<1>6. ledger[i].sub = n
  BY <1>3, <1>5 DEF Alone
<1> QED
  BY <1>2, <1>6 DEF Restored

Places == DOMAIN Event \ {"untraceable", "refuse", "decided", "mirror"}

\* The line of a handler that is about an effect.
LEMMA PlacesSpeak ==
  ASSUME TypeOK, loop.at \in Places
  PROVE  /\ NextLine \in LedgerLine
         /\ NextLine.type \in EffectEvents
         /\ NextLine.sub = loop.n /\ loop.n \in Submissions /\ loop.n # 0
         /\ NextLine.says = Marked(loop.n)
         /\ (loop.at = "cap" <=> NextLine.type = "effect.refused")
<1>1. loop.at \in DOMAIN Event
  BY DEF Places
<1>2. loop.n \in Submissions
  BY DEF Places, Event, TypeOK, Running, Coroutines
<1>3. loop.n # 0
  BY <1>2, SubmissionsAreApprovals
<1>4. NextLine \in LedgerLine
  BY <1>1, NextLineType
<1> QED
  BY <1>2, <1>3, <1>4 DEF NextLine, Line, Places, Event, EffectEvents

LEMMA SpokenIsOnRecord ==
  ASSUME TypeOK, loop.at \in Places, ledger' = Append(ledger, NextLine), NEW n, n = loop.n
  PROVE  OnRecord(n)'
<1>1. NextLine \in LedgerLine /\ NextLine.type \in EffectEvents /\ NextLine.sub = n
  BY PlacesSpeak
<1>2. Len(ledger) + 1 \in DOMAIN ledger' /\ ledger'[Len(ledger) + 1] = NextLine
  <2>1. ledger \in Seq(LedgerLine)
    BY DEF TypeOK
  <2> QED
    BY <1>1, <2>1, AppendProperties
<1> QED
  BY <1>1, <1>2 DEF OnRecord, EffectEvents

LEMMA OnRecordHasLines ==
  ASSUME NEW n, n # 0, OnRecord(n) PROVE EffectLines(IdOf(n)) # {}
BY DEF OnRecord, EffectLines

\* Where the kept effects change, and what is suspended or resumed.
LEMMA KeepingSteps ==
  ASSUME TypeOK, [Next]_vars
  PROVE  \/ effects' = effects
         \/ /\ loop.n \in Submissions
            /\ effects' = [effects EXCEPT ![IdOf(loop.n)] = loop.n]
            /\ ledger' = Append(ledger, NextLine)
            /\ loop.at \in Places \cup {"mirror"}
         \/ Crash \/ Restart
<1>1. CASE Handler
  <2>1. Untraceable \/ Enqueue \/ Queue \/ Refuse \/ Decided \/ Approve \/ Execute
        => effects' = effects
    BY DEF Untraceable, Enqueue, Queue, Refuse, Decided, Approve, Execute
  <2>2. ASSUME Propose \/ Cap \/ Reject \/ Mirror \/ Settle("executed") \/ Settle("blocked"),
               effects' # effects
        PROVE  /\ loop.n \in Submissions
               /\ effects' = [effects EXCEPT ![IdOf(loop.n)] = loop.n]
               /\ ledger' = Append(ledger, NextLine)
               /\ loop.at \in Places \cup {"mirror"}
    <3>1. /\ effects' = [effects EXCEPT ![IdOf(loop.n)] = loop.n]
          /\ ledger' = Append(ledger, NextLine)
          /\ loop.at \in {"propose", "cap", "reject", "mirror", "executed", "blocked"}
      BY <2>2 DEF Propose, Cap, Reject, Mirror, Settle, Appends
    <3>2. loop.n \in Submissions
      BY <3>1 DEF TypeOK, Running, Coroutines
    <3> QED
      BY <3>1, <3>2 DEF Places, Event
  <2> QED
    BY <1>1, <2>1, <2>2 DEF Handler
<1>2. CASE Request
  BY <1>2 DEF Request, IngestSignal, Submit, RefuseUntraceable, RefuseDecision,
    Decide, memory
<1>3. CASE \E c \in parked : Relay(c) \/ Resume(c)
  BY <1>3 DEF Relay, Resume
<1>4. CASE LedgerFails \/ Crash \/ Restart
  BY <1>4 DEF LedgerFails
<1>5. CASE UNCHANGED vars
  BY <1>5 DEF vars, memory
<1> QED
  BY <1>1, <1>2, <1>3, <1>4, <1>5 DEF Next

LEMMA EffectsRecordedStep ==
  ASSUME TypeOK, EffectsRecorded, CarriedRecorded, [Next]_vars
  PROVE  EffectsRecorded'
<1>0. Grows
  BY AlwaysGrows
<1> SUFFICES ASSUME NEW e \in Ids, effects'[e] # 0 PROVE EffectLines(e)' # {}
  BY DEF EffectsRecorded
<1>1. ASSUME EffectLines(e) # {} PROVE EffectLines(e)' # {}
  <2>1. PICK i \in DOMAIN ledger : /\ ledger[i].type \in EffectEvents
                                   /\ ledger[i].sub # 0
                                   /\ content[ledger[i].sub].proposal.id = e
    BY <1>1 DEF EffectLines, IdOf
  <2>2. ledger[i] \in LedgerLine
    BY LineType
  <2>3. content'[ledger[i].sub] = content[ledger[i].sub]
    BY <1>0, <2>1, <2>2 DEF LedgerLine, Grows
  <2>4. i \in DOMAIN ledger' /\ ledger'[i] = ledger[i]
    BY <1>0 DEF Grows
  <2>5. i \in EffectLines(e)'
    BY <2>1, <2>3, <2>4 DEF EffectLines, IdOf, EffectEvents
  <2> QED
    BY <2>5
<1>2. CASE effects' = effects
  BY <1>1, <1>2 DEF EffectsRecorded
<1>3. CASE /\ loop.n \in Submissions
           /\ effects' = [effects EXCEPT ![IdOf(loop.n)] = loop.n]
           /\ ledger' = Append(ledger, NextLine)
           /\ loop.at \in Places \cup {"mirror"}
  <2>1. CASE e # IdOf(loop.n)
    BY <1>1, <1>3, <2>1 DEF EffectsRecorded, TypeOK
  <2>2. CASE e = IdOf(loop.n)
    <3>1. PICK n \in Submissions : n = loop.n
      BY <1>3
    <3>2. OnRecord(n)'
      <4>1. CASE loop.at \in Places
        BY <1>3, <3>1, <4>1, SpokenIsOnRecord
      <4>2. CASE loop.at = "mirror"
        BY <1>0, <3>1, <4>2, OnRecordStays DEF CarriedRecorded
      <4> QED
        BY <1>3, <4>1, <4>2
    <3>3. n # 0 /\ IdOf(n)' = e
      BY <1>0, <2>2, <3>1, SubmissionsAreApprovals DEF Grows, IdOf
    <3>4. EffectLines(IdOf(n))' # {}
      BY <3>2, <3>3 DEF OnRecord, EffectLines
    <3>5. EffectLines(IdOf(n))' = EffectLines(e)'
      BY <3>3 DEF EffectLines, IdOf
    <3> QED
      BY <3>4, <3>5
  <2> QED
    BY <2>1, <2>2
<1>4. CASE Crash
  BY <1>4 DEF Crash
<1>5. CASE Restart
  <2>1. effects'[e] = Restored(e)
    BY <1>5 DEF Restart
  <2>2. EffectLines(e) # {}
    BY <2>1 DEF Restored
  <2> QED
    BY <1>1, <2>2
<1> QED
  BY <1>2, <1>3, <1>4, <1>5, KeepingSteps

LEMMA CarriedRecordedStep ==
  ASSUME TypeOK, CarriedRecorded, [Next]_vars
  PROVE  CarriedRecorded'
<1> DEFINE Fine == /\ \A c \in parked' : \/ \E b \in parked : b.n = c.n
                                         \/ OnRecord(c.n)'
                   /\ loop'.at = "mirror" =>
                        \/ loop' = loop
                        \/ \E b \in parked : b.n = loop'.n
<1>0. \A n : OnRecord(n) => OnRecord(n)'
  BY AlwaysGrows, OnRecordStays
<1>1. SUFFICES Fine
  <2>1. ASSUME Fine, NEW c \in parked' PROVE OnRecord(c.n)'
    <3>1. PICK n : n = c.n
      OBVIOUS
    <3> QED
      BY <1>0, <2>1, <3>1 DEF CarriedRecorded
  <2>2. ASSUME Fine, loop'.at = "mirror" PROVE OnRecord(loop.n)'
    <3>1. PICK n : n = loop'.n
      OBVIOUS
    <3>2. OnRecord(n)
      BY <2>2, <3>1 DEF CarriedRecorded
    <3>3. OnRecord(n)'
      BY <1>0, <3>2
    <3> QED
      BY <3>1, <3>3 DEF OnRecord
  <2> QED
    BY <2>1, <2>2 DEF CarriedRecorded
<1>2. ASSUME parked' \subseteq parked, loop'.at # "mirror" \/ loop' = loop PROVE Fine
  BY <1>2
<1>3. CASE Handler
  <2>1. CASE Queue \/ Execute
    <3>1. PICK n : n = loop.n
      OBVIOUS
    <3>2. /\ loop.at \in Places
          /\ ledger' = Append(ledger, NextLine)
          /\ parked' \subseteq parked \cup {[loop EXCEPT !.at = "hold"],
                                            [loop EXCEPT !.at = "run"]}
          /\ loop' = Idle
      BY <2>1 DEF Queue, Execute, Appends, Await, Places, Event
    <3>3. OnRecord(n)'
      BY <3>1, <3>2, SpokenIsOnRecord
    <3>4. \A c \in parked' : c \in parked \/ c.n = n
      BY <3>1, <3>2 DEF TypeOK, Running, Coroutines
    <3>5. \A c \in parked' : (\E b \in parked : b.n = c.n) \/ OnRecord(c.n)'
      <4> SUFFICES ASSUME NEW c \in parked', c \notin parked PROVE OnRecord(c.n)'
        OBVIOUS
      <4>1. c.n = n
        BY <3>4
      <4> QED
        BY <3>3, <4>1 DEF OnRecord
    <3> QED
      BY <3>2, <3>5 DEF Idle, Coroutine
  <2>2. CASE Untraceable \/ Propose \/ Cap \/ Enqueue \/ Refuse \/ Decided
    <3>1. parked' \subseteq parked /\ loop'.at # "mirror"
      BY <2>2 DEF Untraceable, Propose, Cap, Enqueue, Refuse, Decided, Appends,
        Return, Continue, Idle, Coroutine, TypeOK, Running, Coroutines
    <3> QED
      BY <1>2, <3>1
  <2>3. CASE Reject \/ Approve \/ Mirror \/ Settle("executed") \/ Settle("blocked")
    <3>1. parked' \subseteq parked /\ loop'.at # "mirror"
      BY <2>3 DEF Reject, Approve, Mirror, Settle, Appends,
        Return, Continue, Idle, Coroutine, TypeOK, Running, Coroutines
    <3> QED
      BY <1>2, <3>1
  <2> QED
    BY <1>3, <2>1, <2>2, <2>3 DEF Handler
<1>4. CASE Request
  <2> DEFINE Calm == parked' \subseteq parked /\ (loop'.at # "mirror" \/ loop' = loop)
  <2>1. ASSUME NEW b \in SignalBodies, IngestSignal(b) PROVE Calm
    BY <2>1 DEF IngestSignal, memory
  <2>2. ASSUME NEW p \in Proposals, Submit(p) \/ RefuseUntraceable(p) PROVE Calm
    BY <2>2 DEF Submit, RefuseUntraceable, Continue, Coroutine
  <2>3. ASSUME NEW a \in Submissions, NEW d \in Decisions,
               Decide(a, d) \/ RefuseDecision(a, d)
        PROVE  Calm
    BY <2>3 DEF Decide, RefuseDecision, Continue, Return, Idle, Coroutine
  <2> QED
    BY <1>2, <1>4, <2>1, <2>2, <2>3 DEF Request
<1>5. ASSUME NEW c \in parked, Relay(c) PROVE Fine
  <2>1. PICK v : /\ parked' = (parked \ {c}) \cup {[c EXCEPT !.verdict = v]}
                 /\ loop' = loop
    BY <1>5 DEF Relay
  <2>2. [c EXCEPT !.verdict = v].n = c.n
    BY DEF TypeOK, Suspended, Coroutines
  <2> QED
    BY <2>1, <2>2
<1>6. ASSUME NEW c \in parked, Resume(c) PROVE Fine
  <2>1. parked' \subseteq parked /\ loop' = [c EXCEPT !.at = "mirror"]
    BY <1>6 DEF Resume
  <2>2. loop'.n = c.n
    BY <2>1 DEF TypeOK, Suspended, Coroutines
  <2> QED
    BY <2>1, <2>2
<1>7. CASE LedgerFails \/ Crash \/ Restart
  <2>1. parked' \subseteq parked /\ (loop'.at # "mirror" \/ loop' = loop)
    BY <1>7 DEF LedgerFails, Crash, Restart, Return, Idle, Coroutine
  <2> QED
    BY <1>2, <2>1
<1>8. CASE UNCHANGED vars
  <2>1. parked' = parked /\ loop' = loop
    BY <1>8 DEF vars, memory
  <2> QED
    BY <1>2, <2>1
<1> QED
  BY <1>3, <1>4, <1>5, <1>6, <1>7, <1>8 DEF Next

\* How a process that stays up writes: every line of a handler comes with the
\* status its effect is given.
LEMMA SpeakingSteps ==
  ASSUME faults' = 0, TypeOK, [Next]_vars, up', ~Restart
  PROVE  \/ UNCHANGED <<ledger, content, status>>
         \/ /\ loop.at \in DOMAIN Event \ {"cap"}
            /\ ledger' = Append(ledger, NextLine)
            /\ SetStatus /\ content' = content
         \/ Cap
         \/ \E b \in SignalBodies : IngestSignal(b)
         \/ \E p \in Proposals : Submit(p)
<1> DEFINE Speaks == /\ loop.at \in DOMAIN Event \ {"cap"}
                     /\ ledger' = Append(ledger, NextLine)
                     /\ SetStatus /\ content' = content
<1>1. ASSUME NEW p \in DOMAIN Event \ {"cap"}, Appends(p) PROVE Speaks
  BY <1>1 DEF Appends
<1>2. CASE Handler
  <2>1. Untraceable \/ Propose \/ Queue \/ Refuse \/ Decided => Speaks
    BY <1>1 DEF Untraceable, Propose, Queue, Refuse, Decided, Event
  <2>2. Reject \/ Approve \/ Execute \/ Mirror => Speaks
    BY <1>1 DEF Reject, Approve, Execute, Mirror, Event
  <2>3. Settle("executed") \/ Settle("blocked") => Speaks
    BY <1>1 DEF Settle, Event
  <2>4. Enqueue => UNCHANGED <<ledger, content, status>>
    BY DEF Enqueue
  <2> QED
    BY <1>2, <2>1, <2>2, <2>3, <2>4 DEF Handler
<1>3. CASE Request
  BY <1>3 DEF Request, RefuseUntraceable, RefuseDecision, Decide
<1>4. CASE \E c \in parked : Relay(c) \/ Resume(c)
  BY <1>4 DEF Relay, Resume
<1>5. CASE LedgerFails \/ Crash
  BY <1>5, NothingFails DEF LedgerFails, Crash
<1>6. CASE UNCHANGED vars
  BY <1>6 DEF vars, memory
<1> QED
  BY <1>2, <1>3, <1>4, <1>5, <1>6 DEF Next

LEMMA SaidStays ==
  ASSUME TypeOK, Grows, NEW n \in Submissions, Said(n), status'[n] = status[n], NEW l,
         \/ ledger' = ledger
         \/ /\ ledger' = Append(ledger, l)
            /\ l.type \in EffectEvents /\ l.sub # 0 => content'[l.sub].proposal.id # IdOf(n)
  PROVE  Said(n)'
<1>1. IdOf(n)' = IdOf(n)
  BY DEF Grows, IdOf
<1> DEFINE S == EffectLines(IdOf(n))
<1>2. S' = EffectLines(IdOf(n)) /\ \A i \in S : ledger'[i] = ledger[i]
  <2>1. PICK e : e = IdOf(n)
    OBVIOUS
  <2>2. EffectLines(e)' = EffectLines(e) /\ \A i \in EffectLines(e) : ledger'[i] = ledger[i]
    BY <2>1, EffectLinesStay
  <2>3. EffectLines(IdOf(n))' = EffectLines(e)'
    BY <1>1, <2>1 DEF EffectLines, IdOf
  <2> QED
    BY <2>1, <2>2, <2>3
<1>3. S # {} => Latest(S) \in S
  <2>1. S \subseteq 1..Len(ledger) /\ Len(ledger) \in Nat
    BY DEF EffectLines, TypeOK
  <2> QED
    BY <2>1, LatestIsLast
<1>4. Latest(S)' = Latest(S)
  BY <1>2 DEF Latest
<1>5. S # {} => ledger'[Latest(S)] = ledger[Latest(S)]
  BY <1>2, <1>3
<1>6. Said(n)' = (S' # {} /\ ledger'[Latest(S)'].type # "effect.refused" =>
                    status'[n] = ledger'[Latest(S)'].says)
  BY DEF Said
<1> QED
  BY <1>2, <1>4, <1>5, <1>6 DEF Said

LEMMA SaidByLine ==
  ASSUME TypeOK, NEW n, NEW l \in LedgerLine, ledger' = Append(ledger, l),
         l.type \in EffectEvents, l.sub = n, n # 0,
         l.type # "effect.refused" => status'[n] = l.says
  PROVE  Said(n)'
<1> DEFINE S == EffectLines(IdOf(n))
<1>1. PICK e : e = IdOf(n)'
  OBVIOUS
<1>2. content'[l.sub].proposal.id = e
  BY <1>1 DEF IdOf
<1>3. ledger'[Latest(EffectLines(e)')] = l
  BY <1>2, LastEffectLine
<1>4. EffectLines(e)' = S'
  BY <1>1 DEF EffectLines, IdOf
<1>5. Latest(S)' = Latest(EffectLines(e)')
  BY <1>4 DEF Latest
<1>6. Said(n)' = (S' # {} /\ ledger'[Latest(S)'].type # "effect.refused" =>
                    status'[n] = ledger'[Latest(S)'].says)
  BY DEF Said
<1> QED
  BY <1>3, <1>5, <1>6

LEMMA StatusIsSaidStep ==
  ASSUME faults' = 0, TypeOK, TypeOK', StatusIsSaid, [Next]_vars
  PROVE  StatusIsSaid'
<1>0. Grows /\ Submissions = 1..Len(content) /\ Len(content) \in Nat
  BY AlwaysGrows, SubmissionsAreApprovals
<1> SUFFICES ASSUME up', NEW n \in Submissions', Alone(n)' PROVE Said(n)'
  BY DEF StatusIsSaid, Submissions, Alone, IdOf
<1>8. n \in Submissions => Alone(n)
  BY <1>0 DEF Alone, Grows, IdOf
<1>1. CASE Restart
  <2>1. /\ content' = content
        /\ status' = [m \in Submissions |-> RestoredStatus(m)]
        /\ ledger' \in {Append(ledger, Line("approvals.alarm", 0, "none", None)), ledger}
    BY <1>1 DEF Restart
  <2>2. n \in Submissions
    BY <2>1 DEF Submissions
  <2>3. PICK l : /\ l.type = "approvals.alarm"
                 /\ ledger' \in {Append(ledger, l), ledger}
    BY <2>1 DEF Line
  <2>4. l.type \notin EffectEvents
    BY <2>3 DEF EffectEvents
  <2>5. PICK e : e = IdOf(n)
    OBVIOUS
  <2>6. EffectLines(e)' = EffectLines(e) /\ \A i \in EffectLines(e) : ledger'[i] = ledger[i]
    BY <1>0, <2>3, <2>4, EffectLinesStay
  <2>7. PICK S : S = EffectLines(e)
    OBVIOUS
  <2>8. Said(n)' = (S # {} /\ ledger'[Latest(S)].type # "effect.refused" =>
                      status'[n] = ledger'[Latest(S)].says)
    <3>1. EffectLines(IdOf(n))' = S
      BY <2>1, <2>5, <2>6, <2>7 DEF EffectLines, IdOf
    <3>2. Latest(EffectLines(IdOf(n)))' = Latest(S)
      BY <3>1 DEF Latest
    <3> QED
      BY <3>1, <3>2 DEF Said
  <2>9. S # {} => status'[n] = ledger[Latest(S)].says /\ ledger'[Latest(S)] = ledger[Latest(S)]
    BY <1>8, <2>1, <2>2, <2>5, <2>6, <2>7, RestoredIsTheOne DEF RestoredStatus
  <2> QED
    BY <2>8, <2>9
<1>2. ASSUME ~Restart PROVE up /\ (n \in Submissions => Said(n))
  BY <1>2, <1>8, UpSteps DEF StatusIsSaid
<1>3. CASE UNCHANGED <<ledger, content, status>>
  BY <1>0, <1>2, <1>3, <1>1, SaidStays DEF Submissions
<1>4. ASSUME loop.at \in DOMAIN Event \ {"cap"}, ledger' = Append(ledger, NextLine),
             SetStatus, content' = content, ~Restart
      PROVE  Said(n)'
  <2>1. n \in Submissions /\ Said(n)
    BY <1>2, <1>4 DEF Submissions
  <2>2. PICK l : l = NextLine
    OBVIOUS
  <2>3. status'[n] = IF n = loop.n THEN Marked(n) ELSE status[n]
    BY <1>4, <2>1 DEF SetStatus
  <2>4. CASE loop.at \in Places
    <3>1. /\ l \in LedgerLine /\ l.type \in EffectEvents /\ l.sub = loop.n
          /\ l.sub \in Submissions /\ l.sub # 0 /\ l.says = Marked(loop.n)
      BY <2>2, <2>4, PlacesSpeak
    <3>2. CASE n = loop.n
      BY <1>4, <2>2, <2>3, <3>1, <3>2, SaidByLine
    <3>3. CASE n # loop.n
      <4>1. content'[l.sub].proposal.id # IdOf(n)
        BY <1>4, <1>8, <2>1, <2>2, <3>1, <3>3 DEF Alone, IdOf
      <4> QED
        BY <1>0, <1>4, <2>1, <2>2, <2>3, <3>3, <4>1, SaidStays
    <3> QED
      BY <3>2, <3>3
  <2>5. CASE loop.at \in {"untraceable", "refuse", "decided", "mirror"}
    <3>1. ~(l.type \in EffectEvents /\ l.sub # 0)
      BY <2>2, <2>5 DEF NextLine, Line, Event, EffectEvents, TypeOK, Running, Coroutines
    <3>2. status'[n] = status[n]
      BY <2>3, <2>5 DEF Marked, Mark
    <3> QED
      BY <1>0, <1>4, <2>1, <2>2, <3>1, <3>2, SaidStays
  <2> QED
    BY <1>4, <2>4, <2>5 DEF Places
<1>5. ASSUME Cap PROVE Said(n)'
  <2>1. /\ loop.at = "cap" /\ ledger' = Append(ledger, NextLine)
        /\ status' = [status EXCEPT ![loop.n] = "rejected"] /\ content' = content
        /\ ~Restart
    BY <1>5 DEF Cap, Restart
  <2>2. n \in Submissions /\ Said(n)
    BY <1>2, <2>1 DEF Submissions
  <2>3. PICK l : l = NextLine
    OBVIOUS
  <2>4. loop.at \in Places
    BY <2>1 DEF Places, Event
  <2>5. /\ l \in LedgerLine /\ l.type \in EffectEvents /\ l.sub = loop.n
        /\ l.sub \in Submissions /\ l.sub # 0 /\ l.type = "effect.refused"
    BY <2>1, <2>3, <2>4, PlacesSpeak
  <2>6. CASE n = loop.n
    BY <2>1, <2>3, <2>5, <2>6, SaidByLine
  <2>7. CASE n # loop.n
    <3>1. content'[l.sub].proposal.id # IdOf(n)
      BY <1>8, <2>1, <2>2, <2>5, <2>7 DEF Alone, IdOf
    <3>2. status'[n] = status[n]
      BY <2>1, <2>2, <2>7 DEF TypeOK
    <3> QED
      BY <1>0, <2>1, <2>2, <2>3, <3>1, <3>2, SaidStays
  <2> QED
    BY <2>6, <2>7
<1>6. ASSUME NEW b \in SignalBodies, IngestSignal(b) PROVE Said(n)'
  <2>1. PICK l : /\ l.type = "signal.ingested" /\ ledger' = Append(ledger, l)
                 /\ content' = content /\ status' = status /\ ~Restart
    BY <1>6 DEF IngestSignal, Line, memory, Free, Restart
  <2>2. n \in Submissions /\ Said(n)
    BY <1>2, <2>1 DEF Submissions
  <2>3. l.type \notin EffectEvents
    BY <2>1 DEF EffectEvents
  <2> QED
    BY <1>0, <2>1, <2>2, <2>3, SaidStays
<1>7. ASSUME NEW p \in Proposals, Submit(p) PROVE Said(n)'
  <2>1. /\ ledger' = ledger /\ ~Restart
        /\ status' = [m \in 1..(Len(content) + 1) |->
                        IF m = Len(content) + 1 THEN "proposed" ELSE status[m]]
        /\ Len(content') = Len(content) + 1
    <3>1. content \in Seq([proposal : Proposals, rule : Rules])
      BY DEF TypeOK
    <3> QED
      BY <1>7, <3>1 DEF Submit, Free, Restart
  <2>2. CASE n \in Submissions
    <3>1. n # Len(content) + 1 /\ n \in 1..(Len(content) + 1)
      BY <1>0, <2>2
    <3>2. status'[n] = status[n]
      BY <2>1, <3>1
    <3> QED
      BY <1>0, <1>2, <2>1, <2>2, <3>2, SaidStays
  <2>3. CASE n \notin Submissions
    <3>1. ASSUME NEW i \in EffectLines(IdOf(n))' PROVE FALSE
      <4>1. /\ i \in DOMAIN ledger /\ ledger[i].sub # 0
            /\ content'[ledger[i].sub].proposal.id = content'[n].proposal.id
        BY <2>1, <3>1 DEF EffectLines, IdOf
      <4>2. ledger[i] \in LedgerLine
        BY <4>1, LineType
      <4>3. ledger[i].sub \in Submissions
        BY <4>1, <4>2 DEF LedgerLine
      <4>4. ledger[i].sub \in Submissions'
        BY <1>0, <4>3 DEF Grows
      <4>5. ledger[i].sub = n
        BY <4>1, <4>4 DEF Alone, IdOf
      <4> QED
        BY <2>3, <4>3, <4>5
    <3> QED
      BY <3>1 DEF Said
  <2> QED
    BY <2>2, <2>3
<1> QED
  BY <1>1, <1>3, <1>4, <1>5, <1>6, <1>7, SpeakingSteps

QueueFollows  == QueueIsLoaded /\ CacheFollows /\ OnlySubmitted /\ CapKept
RecordsFollow == EffectsRecorded /\ CarriedRecorded /\ StatusIsSaid

QueueFollowsWhole  == faults = 0 => QueueFollows
RecordsFollowWhole == faults = 0 => RecordsFollow

LEMMA QueueFollowsHolds == Spec => []QueueFollowsWhole
<1>1. Init => QueueFollowsWhole
  <2> SUFFICES ASSUME Init PROVE QueueFollows
    BY DEF QueueFollowsWhole
  <2>1. ledger = <<>> /\ Submissions = {} /\ loop.at = "idle"
    BY DEF Init, Submissions, Idle, Coroutine
  <2>2. \A a \in Approvals : items[a] = "absent" /\ cache[a] = "absent"
    BY DEF Init
  <2>3. \A a : LedgerItem(a) = "absent"
    BY <2>1 DEF LedgerItem, Lines
  <2> QED
    BY <2>1, <2>2, <2>3 DEF QueueFollows, QueueIsLoaded, LoadedItem, CacheFollows,
      OnlySubmitted, CapKept
<1>2. TypeOK /\ TypeOK' /\ Spends /\ Keeps /\ QueueFollowsWhole /\ [Next]_vars
      => QueueFollowsWhole'
  <2> SUFFICES ASSUME TypeOK, TypeOK', Spends, Keeps, QueueFollowsWhole, [Next]_vars,
                      faults' = 0
               PROVE  QueueFollows'
    BY DEF QueueFollowsWhole
  <2>1. QueueFollows
    BY FaultsOnlyGrow DEF QueueFollowsWhole
  <2> QED
    BY <2>1, QueueIsLoadedStep, CacheFollowsStep, OnlySubmittedStep, CapKeptStep
    DEF QueueFollows, Spends, Keeps
<1> QED
  BY <1>1, <1>2, TypeCorrect, SpendsHolds, KeepsHolds, PTL DEF Spec

LEMMA RecordsFollowHolds == Spec => []RecordsFollowWhole
<1>1. Init => RecordsFollowWhole
  BY DEF Init, Submissions, Idle, Coroutine, RecordsFollow, RecordsFollowWhole, EffectsRecorded,
    CarriedRecorded, StatusIsSaid
<1>2. TypeOK /\ TypeOK' /\ RecordsFollowWhole /\ [Next]_vars => RecordsFollowWhole'
  <2> SUFFICES ASSUME TypeOK, TypeOK', RecordsFollowWhole, [Next]_vars, faults' = 0
               PROVE  RecordsFollow'
    BY DEF RecordsFollowWhole
  <2>1. RecordsFollow
    BY FaultsOnlyGrow DEF RecordsFollowWhole
  <2> QED
    BY <2>1, EffectsRecordedStep, CarriedRecordedStep, StatusIsSaidStep DEF RecordsFollow
<1> QED
  BY <1>1, <1>2, TypeCorrect, PTL DEF Spec

\* As long as no write failed, through every crash and also with ids posted
\* twice: whenever the loop is free the queue is what the chain says, and no more
\* near-duplicates are pending than the cap allows (ApprovalQueue._load,
\* Gate.submit).
THEOREM QueueIsFollowed == Spec => [](faults = 0 => QueueAgreesWithLedger /\ CapHolds)
<1>1. TypeOK /\ QueueFollows => QueueAgreesWithLedger /\ CapHolds
  <2> SUFFICES ASSUME TypeOK, QueueFollows PROVE QueueAgreesWithLedger /\ CapHolds
    OBVIOUS
  <2>1. Free => loop.at = "idle" /\ up
    BY DEF Free, Idle, Coroutine
  <2>2. QueueAgreesWithLedger
    BY <2>1 DEF QueueAgreesWithLedger, QueueFollows, QueueIsLoaded, LoadedItem
  <2>3. CapHolds
    <3> SUFFICES ASSUME Free, NEW n \in Submissions
                 PROVE  Cardinality(PendingMatching(n)) <= MaxPending
      BY DEF CapHolds
    <3>1. PendingMatching(n) = Waiting(n)
      BY <2>1, PendingIsWaiting DEF QueueFollows
    <3> QED
      BY <3>1 DEF QueueFollows, CapKept
  <2> QED
    BY <2>2, <2>3
<1> QED
  BY <1>1, TypeCorrect, QueueFollowsHolds, PTL DEF QueueFollowsWhole

\* And the record of every effect whose id was posted once is, unless its last
\* line is a refusal, the one a boot would rebuild, whatever became of ids that
\* were posted again (Gate._restore).
THEOREM ChainIsFollowed == Spec => []FollowsTheLedger
<1>1. TypeOK /\ RecordsFollow => UnrefusedMatchesLedger
  <2> SUFFICES ASSUME TypeOK, RecordsFollow, up, NEW n \in Submissions, Alone(n),
                      effects[IdOf(n)] = n,
                      ledger[Latest(EffectLines(IdOf(n)))].type # "effect.refused"
               PROVE  status[n] = RestoredStatus(n)
    BY DEF UnrefusedMatchesLedger, Quiet, Free
  <2>1. IdOf(n) \in Ids /\ n # 0
    BY SubmissionsAreApprovals DEF TypeOK
  <2>2. EffectLines(IdOf(n)) # {}
    BY <2>1 DEF RecordsFollow, EffectsRecorded
  <2>3. Restored(IdOf(n)) = n
    BY <2>2, RestoredIsTheOne
  <2>4. Said(n)
    BY DEF RecordsFollow, StatusIsSaid
  <2> QED
    BY <2>2, <2>3, <2>4 DEF Said, RestoredStatus
<1>2. (faults = 0 => QueueAgreesWithLedger /\ CapHolds) /\ (faults = 0 => UnrefusedMatchesLedger)
      => FollowsTheLedger
  BY DEF FollowsTheLedger
<1> QED
  BY <1>1, <1>2, TypeCorrect, RecordsFollowHolds, QueueIsFollowed, PTL
     DEF RecordsFollowWhole

=============================================================================
