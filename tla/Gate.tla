-------------------------------- MODULE Gate --------------------------------
(***************************************************************************)
(* throughline's effect gate: Gate.submit, Gate.decide and Gate._execute,  *)
(* with the three things they drive: the provenance ledger, the approval   *)
(* queue with its JSON cache, and the Relay guardrail every effect passes. *)
(*                                                                         *)
(* The service is one asyncio event loop.  A handler runs until it awaits, *)
(* and the only await that suspends is RelayGateMirror.execute, so "loop"  *)
(* is the coroutine that holds the loop and "parked" the ones suspended in *)
(* Relay.  Inside a handler there is one step per durable write, because   *)
(* the process can die between two of them and any ledger append can raise *)
(* LedgerUnwritable.                                                       *)
(*                                                                         *)
(* A submission is numbered by the order in which it arrived; its number   *)
(* stands for the Effect object it creates and, when it is queued, for the *)
(* approval id minted for it (a fresh uuid in the code).                   *)
(***************************************************************************)
EXTENDS Integers, Sequences, FiniteSets

CONSTANTS
    Ids,              \* effect ids callers choose
    EffectTypes,      \* effect types a proposal may name
    Conferring,       \* AUTHZ_CONFERRING_EFFECT_TYPES
    Signals,          \* signal ids
    Texts,            \* effect descriptions
    None,             \* Python's None
    Proposals,        \* the EffectProposals callers may post
    SignalBodies,     \* the signals callers may post
    Decisions,        \* the Decisions callers may post
    Registry,         \* the running registry: a rule or "none" for each type
    MaxPending,       \* max_pending_duplicates
    MaxSubmits,       \* bound: submissions
    MaxSignals,       \* bound: signals ingested
    MaxRefusals,      \* bound: refused submissions and refused decisions
    MaxFaults,        \* bound: failed writes, executor errors, lost caches
    MaxCrashes        \* bound: crashes

Rules == {"auto", "held", "irreversible"}
Roles == {"none", "plain", "escalating"}

ProposalBody ==
    [id : Ids \cup {None}, effect_type : EffectTypes \cup {None},
     claim : {"reversible", "irreversible", "none"}, payload_role : Roles,
     signal_id : Signals \cup {None}, description : Texts \cup {None}]

SignalBody == [id : Signals, role : Roles]

DecisionBody ==
    [decision : {"approve", "reject"},
     caller_role : {"human", "agent", "missing", "unrecognised"},
     subject : {"person", "agent"},
     attestation : {"none", "no-issuer", "full"}]

ASSUME ConstantsAssumption ==
    /\ Proposals \subseteq ProposalBody
    /\ SignalBodies \subseteq SignalBody
    /\ Decisions \subseteq DecisionBody
    /\ Conferring \subseteq EffectTypes
    /\ Registry \in [EffectTypes -> Rules \cup {"none"}]
    /\ None \notin Ids \cup EffectTypes \cup Signals \cup Texts \cup Decisions
    /\ MaxPending \in Nat \ {0}
    /\ MaxSubmits \in Nat
    /\ MaxSignals \in Nat
    /\ MaxRefusals \in Nat
    /\ MaxFaults \in Nat
    /\ MaxCrashes \in Nat

VARIABLES
    registry,   \* config_store.current, seen by effect type
    ledger,     \* the lines of the chain, oldest first
    content,    \* submission -> its proposal and the rule it was classified by
    status,     \* submission -> status of its Effect object in memory
    effects,    \* Gate._effects: effect id -> submission of its record, or 0
    items,      \* ApprovalQueue._items: approval -> state
    cache,      \* approvals.json, what a boot reads
    loop,       \* the coroutine that holds the event loop
    parked,     \* the coroutines suspended in Relay
    ran,        \* the executor's runs, in order
    told,       \* handlers answered 503, effect_executed: false, as <<n, a>>
    up,         \* the process is running
    refusals, faults, crashes

memory  == <<status, effects, items, loop, parked>>
bounds  == <<refusals, faults, crashes>>
vars    == <<registry, ledger, content, memory, cache, ran, told, up, bounds>>

-----------------------------------------------------------------------------
Submissions == DOMAIN content
Statuses    == {"proposed", "queued", "approved", "rejected", "executed"}
States      == {"absent", "pending", "approved", "rejected"}
Approvals   == 1..MaxSubmits

\* A line: its type, the submission it is about (0: none), the status or
\* verdict in its body, and the decision or signal it records.
Line(t, n, s, b) == [type |-> t, sub |-> n, says |-> s, body |-> b]

EffectEvents == {"effect.proposed", "effect.refused", "effect.queued",
                 "effect.rejected", "effect.approved", "effect.executing",
                 "effect.blocked", "effect.executed"}

\* Where a coroutine stands: the write it makes next, or how far its Relay
\* call has come.  n is the Effect object it carries, a the approval that
\* released it (0: none), verdict Relay's answer, d the decision to record.
Coroutine(p, n, a, d) ==
    [at |-> p, n |-> n, a |-> a, verdict |-> "none", d |-> d]
Idle == Coroutine("idle", 0, 0, None)

IdOf(n)    == content[n].proposal.id
ClassOf(n) == content[n].rule

Lines(t, n) == {i \in DOMAIN ledger : ledger[i].type = t /\ ledger[i].sub = n}
Latest(S)   == CHOOSE i \in S : \A j \in S : j <= i

-----------------------------------------------------------------------------
(* Classification: whether an effect runs at once or waits for a human.    *)

RuleFor(t) == IF t = None THEN "none" ELSE registry[t]

SignalLines(g) ==
    {i \in DOMAIN ledger : /\ ledger[i].type = "signal.ingested"
                           /\ ledger[i].body.id = g}

\* Mutant: a caller who omits the payload escapes the check.
ConferredInline(p) == p.payload_role

\* The inlined payload first, then the latest signal the proposal names.
ConferredRole(p) ==
    IF p.payload_role # "none" THEN p.payload_role
    ELSE IF SignalLines(p.signal_id) = {} THEN "none"
    ELSE ledger[Latest(SignalLines(p.signal_id))].body.role

Classify(p) ==
    IF p.effect_type \in Conferring /\ ConferredRole(p) = "escalating"
      THEN "irreversible"
    ELSE IF RuleFor(p.effect_type) # "none" THEN RuleFor(p.effect_type)
    ELSE IF p.effect_type = None /\ p.claim = "reversible" THEN "auto"
    ELSE "irreversible"

\* Mutant: any signal id will do, ingested or not.
TraceableByName(p) ==
    /\ p.id # None
    /\ Classify(p) # "auto" =>
         p.signal_id # None /\ p.effect_type # None /\ p.description # None

\* Only what would be queued has to name its cause, a type and a description.
Traceable(p) ==
    /\ p.id # None
    /\ Classify(p) # "auto" =>
         /\ SignalLines(p.signal_id) # {}
         /\ p.effect_type # None
         /\ p.description # None

PendingMatching(n) ==
    {a \in Submissions :
        /\ items[a] = "pending"
        /\ content[a].proposal.effect_type = content[n].proposal.effect_type
        /\ content[a].proposal.description = content[n].proposal.description}

\* Mutant: the cap is off by one.
CappedLate(n) == Cardinality(PendingMatching(n)) > MaxPending
Capped(n) == Cardinality(PendingMatching(n)) >= MaxPending

-----------------------------------------------------------------------------
(* Refusals of a decision.                                                 *)

RoleRefused(d, rule) ==
    \/ d.caller_role \notin {"human", "agent"}
    \/ d.caller_role = "human" /\ d.subject = "agent"
    \/ /\ d.caller_role = "agent"
       /\ d.decision = "approve"
       /\ rule = "irreversible"

\* Mutant: a denylist where the code has an allowlist.
AttestationDenied(d, rule) ==
    /\ d.decision = "approve"
    /\ rule = "irreversible"
    /\ d.attestation = "none"

AttestationRefused(d, rule) ==
    /\ d.decision = "approve"
    /\ rule = "irreversible"
    /\ d.attestation # "full"

Refused(d, rule) == RoleRefused(d, rule) \/ AttestationRefused(d, rule)

\* Mutant: the word on the wire is stored as the state.
OutcomeUnmapped(d) == d.decision
Outcome(d) == IF d.decision = "approve" THEN "approved" ELSE "rejected"

-----------------------------------------------------------------------------
(* One append.  The handler sets the effect's status, then appends.        *)

Event ==
    [untraceable |-> "effect.refused",   propose  |-> "effect.proposed",
     cap         |-> "effect.refused",   queue    |-> "effect.queued",
     refuse      |-> "approval.refused", decided  |-> "approval.decided",
     reject      |-> "effect.rejected",  approve  |-> "effect.approved",
     execute     |-> "effect.executing", executed |-> "effect.executed",
     blocked     |-> "effect.blocked",   mirror   |-> "relay.guardrail"]

Mark == [queue |-> "queued", reject |-> "rejected", approve |-> "approved",
         executed |-> "executed", blocked |-> "queued"]

Marked(n) == IF loop.at \in DOMAIN Mark THEN Mark[loop.at] ELSE status[n]

NextLine ==
    Line(Event[loop.at], loop.n,
         IF loop.at \in {"untraceable", "refuse", "decided", "mirror"}
         THEN loop.verdict ELSE Marked(loop.n), loop.d)

\* Mutant: the line says the new status, the record keeps the old one.
StatusUnset == status' = status
SetStatus == status' = [n \in Submissions |-> IF n = loop.n THEN Marked(n)
                                                            ELSE status[n]]

\* The running handler is at the append named p, and the append succeeds.
Appends(p) ==
    /\ up
    /\ loop.at = p
    /\ ledger' = Append(ledger, NextLine)
    /\ SetStatus
    /\ UNCHANGED <<registry, content, ran, told, up, bounds>>

Continue(c) == loop' = c /\ UNCHANGED parked
Return      == loop' = Idle /\ UNCHANGED parked
Await(c)    == loop' = Idle /\ parked' = parked \cup {c}
Fault       == faults < MaxFaults /\ faults' = faults + 1

\* LedgerUnwritable out of whichever append is next: an OSError before the
\* line is down, or from fsync after it is.  The handler ends with a 503.
LedgerFails ==
    /\ up
    /\ loop.at \in DOMAIN Event
    /\ Fault
    /\ ledger' \in {ledger, Append(ledger, NextLine)}
    /\ SetStatus
    /\ told' = told \cup {<<loop.n, loop.a>>}
    /\ Return
    /\ UNCHANGED <<registry, content, effects, items, cache, ran, up,
                   refusals, crashes>>

-----------------------------------------------------------------------------
(* Gate.submit                                                             *)

Free == up /\ loop = Idle

IngestSignal(b) ==
    /\ Free
    /\ Cardinality({i \in DOMAIN ledger : ledger[i].type = "signal.ingested"})
         < MaxSignals
    /\ ledger' = Append(ledger, Line("signal.ingested", 0, "none", b))
    /\ UNCHANGED <<registry, content, memory, cache, ran, told, up, bounds>>

Submit(p) ==
    /\ Free
    /\ Traceable(p)
    /\ Len(content) < MaxSubmits
    /\ content' = Append(content, [proposal |-> p, rule |-> Classify(p)])
    /\ LET n == Len(content) + 1 IN
         /\ status' = [m \in 1..n |-> IF m = n THEN "proposed" ELSE status[m]]
         /\ Continue(Coroutine("propose", n, 0, None))
    /\ UNCHANGED <<registry, ledger, effects, items, cache, ran, told, up, bounds>>

RefuseUntraceable(p) ==
    /\ Free
    /\ ~Traceable(p)
    /\ refusals < MaxRefusals
    /\ refusals' = refusals + 1
    /\ Continue(Coroutine("untraceable", 0, 0, None))
    /\ UNCHANGED <<registry, ledger, content, status, effects, items, cache,
                   ran, told, up, faults, crashes>>

Untraceable ==
    /\ Appends("untraceable")
    /\ Return
    /\ UNCHANGED <<effects, items, cache>>

\* effect.proposed is down; an auto-executing effect goes straight to
\* _execute, a near-duplicate past the cap is refused, the rest is queued.
Propose ==
    /\ Appends("propose")
    /\ effects' = [effects EXCEPT ![IdOf(loop.n)] = loop.n]
    /\ Continue([loop EXCEPT !.at =
           IF ClassOf(loop.n) = "auto" THEN "execute"
           ELSE IF Capped(loop.n) THEN "cap"
           ELSE "enqueue"])
    /\ UNCHANGED <<items, cache>>

Cap ==
    /\ up
    /\ loop.at = "cap"
    /\ ledger' = Append(ledger, NextLine)
    /\ status' = [status EXCEPT ![loop.n] = "rejected"]
    /\ effects' = [effects EXCEPT ![IdOf(loop.n)] = loop.n]
    /\ Return
    /\ UNCHANGED <<registry, content, items, cache, ran, told, up, bounds>>

\* ApprovalQueue.enqueue: the item is in memory, then the cache is rewritten.
Enqueue ==
    /\ up
    /\ loop.at = "enqueue"
    /\ items' = [items EXCEPT ![loop.n] = "pending"]
    /\ \/ cache' = items' /\ Continue([loop EXCEPT !.at = "queue"])
                          /\ UNCHANGED faults
       \/ Fault /\ Return /\ UNCHANGED cache
    /\ UNCHANGED <<registry, ledger, content, status, effects, ran, told, up,
                   refusals, crashes>>

Queue ==
    /\ Appends("queue")
    /\ Await([loop EXCEPT !.at = "hold"])
    /\ UNCHANGED <<effects, items, cache>>

-----------------------------------------------------------------------------
(* Gate.decide                                                             *)

RefuseDecision(a, d) ==
    /\ Free
    /\ items[a] # "absent"
    /\ Refused(d, ClassOf(a))
    /\ refusals < MaxRefusals
    /\ refusals' = refusals + 1
    /\ Continue(Coroutine("refuse", a, 0, d))
    /\ UNCHANGED <<registry, ledger, content, status, effects, items, cache,
                   ran, told, up, faults, crashes>>

Refuse ==
    /\ Appends("refuse")
    /\ Return
    /\ UNCHANGED <<effects, items, cache>>

\* Mutant: a settled approval may be decided again.
DecideAgain(a, d) ==
    /\ Free
    /\ items[a] # "absent"
    /\ ~Refused(d, ClassOf(a))
    /\ items' = [items EXCEPT ![a] = Outcome(d)]
    /\ \/ cache' = items' /\ Continue(Coroutine("decided", a, a, d))
                          /\ UNCHANGED faults
       \/ Fault /\ Return /\ UNCHANGED cache
    /\ UNCHANGED <<registry, ledger, content, status, effects, ran, told, up,
                   refusals, crashes>>

\* ApprovalQueue.decide: the item is settled in memory, then in the cache.
\* A settled item raises AlreadyDecided, which changes nothing.
Decide(a, d) ==
    /\ Free
    /\ items[a] = "pending"
    /\ ~Refused(d, ClassOf(a))
    /\ items' = [items EXCEPT ![a] = Outcome(d)]
    /\ \/ cache' = items' /\ Continue(Coroutine("decided", a, a, d))
                          /\ UNCHANGED faults
       \/ Fault /\ Return /\ UNCHANGED cache
    /\ UNCHANGED <<registry, ledger, content, status, effects, ran, told, up,
                   refusals, crashes>>

\* approval.decided is down; the effect is looked up by id, whichever
\* submission holds that id now.
Decided ==
    LET n == effects[IdOf(loop.a)] IN
    /\ Appends("decided")
    /\ IF n = 0 THEN Return
       ELSE Continue(Coroutine(IF Outcome(loop.d) = "approved" THEN "approve"
                                                               ELSE "reject",
                               n, loop.a, None))
    /\ UNCHANGED <<effects, items, cache>>

Reject ==
    /\ Appends("reject")
    /\ effects' = [effects EXCEPT ![IdOf(loop.n)] = loop.n]
    /\ Return
    /\ UNCHANGED <<items, cache>>

\* Mutant: the approval is recorded and nothing is executed.
ApproveOnly ==
    /\ Appends("approve")
    /\ Return
    /\ UNCHANGED <<effects, items, cache>>

Approve ==
    /\ Appends("approve")
    /\ Continue([loop EXCEPT !.at = "execute"])
    /\ UNCHANGED <<effects, items, cache>>

-----------------------------------------------------------------------------
(* Gate._execute and RelayGateMirror.execute                               *)

\* Mutant: Relay is called before anything is in the chain.
ExecuteUnledgered ==
    /\ up
    /\ loop.at = "execute"
    /\ Await([loop EXCEPT !.at = "run"])
    /\ UNCHANGED <<registry, ledger, content, status, effects, items, cache,
                   ran, told, up, bounds>>

Execute ==
    /\ Appends("execute")
    /\ Await([loop EXCEPT !.at = "run"])
    /\ UNCHANGED <<effects, items, cache>>

\* Mutant: the guardrail lets everything through to the executor.
VerdictsUnguarded(c) == {"allowed"}

\* The guardrail rejects an irreversible effect nobody approved.  What it
\* lets through is called back: the executor, which may raise, or, for a
\* held effect, the assertion that it is never called.  Relay hands either
\* exception back as a RuntimeError, which counts as a rejection.
Verdicts(c) ==
    IF ClassOf(c.n) = "irreversible" /\ c.a = 0 THEN {"held"}
    ELSE IF c.at = "hold" THEN {"bypassed"}
    ELSE {"allowed", "error"}

Relay(c) ==
    /\ Free
    /\ c \in parked
    /\ c.verdict = "none"
    /\ \E v \in Verdicts(c) :
          /\ IF v = "error" THEN Fault ELSE UNCHANGED faults
          /\ parked' = (parked \ {c}) \cup {[c EXCEPT !.verdict = v]}
          /\ ran' = IF v \in {"allowed", "error"}
                    THEN Append(ran, [n |-> c.n, a |-> c.a, seq |-> Len(ledger)])
                    ELSE ran
    /\ UNCHANGED <<registry, ledger, content, status, effects, items, cache,
                   loop, told, up, refusals, crashes>>

Resume(c) ==
    /\ Free
    /\ c \in parked
    /\ c.verdict # "none"
    /\ parked' = parked \ {c}
    /\ loop' = [c EXCEPT !.at = "mirror"]
    /\ UNCHANGED <<registry, ledger, content, status, effects, items, cache,
                   ran, told, up, bounds>>

\* A hold ends its submit here; a run goes on to record its outcome.
Mirror ==
    /\ Appends("mirror")
    /\ IF loop.a = 0 /\ ClassOf(loop.n) # "auto"
         THEN /\ effects' = [effects EXCEPT ![IdOf(loop.n)] = loop.n]
              /\ Return
         ELSE /\ Continue(Coroutine(IF loop.verdict = "allowed" THEN "executed"
                                                          ELSE "blocked",
                                    loop.n, loop.a, None))
              /\ UNCHANGED effects
    /\ UNCHANGED <<items, cache>>

Settle(p) ==
    /\ Appends(p)
    /\ effects' = [effects EXCEPT ![IdOf(loop.n)] = loop.n]
    /\ Return
    /\ UNCHANGED <<items, cache>>

-----------------------------------------------------------------------------
(* A crash loses the process; a boot rebuilds it from what is on disk.     *)

Crash ==
    /\ up
    /\ crashes < MaxCrashes
    /\ crashes' = crashes + 1
    /\ up' = FALSE
    /\ loop' = Idle
    /\ parked' = {}
    /\ items' = [a \in Approvals |-> "absent"]
    /\ effects' = [e \in Ids |-> 0]
    /\ status' = [n \in Submissions |-> "lost"]
    /\ UNCHANGED <<registry, ledger, content, cache, ran, told, refusals, faults>>

\* Mutant: the replay forgets approval.decided.
LedgerItemUndecided(a) ==
    IF Lines("effect.queued", a) = {} THEN "absent" ELSE "pending"

\* ApprovalQueue._read_ledger: the hold effect.queued made, settled by a
\* later approval.decided.
LedgerItem(a) ==
    LET queued  == Lines("effect.queued", a)
        decided == {i \in Lines("approval.decided", a) :
                      \A j \in queued : j < i}
    IN IF queued = {} THEN "absent"
       ELSE IF decided = {} THEN "pending"
       ELSE Outcome(ledger[Latest(decided)].body)

\* Mutant: the cache is the queue.
CachedItem(a, cached) == cached[a]

\* ApprovalQueue._load: the ledger wins, the cache only adds.
LoadedItem(a, cached) ==
    IF LedgerItem(a) # "absent" THEN LedgerItem(a) ELSE cached[a]

\* Mutant: only effects that got past their proposal are restored.
QueuedEffectLines(e) ==
    {i \in DOMAIN ledger : /\ ledger[i].type \in EffectEvents \ {"effect.proposed"}
                           /\ ledger[i].sub # 0
                           /\ IdOf(ledger[i].sub) = e}

\* Gate._restore: the last line about an effect id is its record.
EffectLines(e) ==
    {i \in DOMAIN ledger : /\ ledger[i].type \in EffectEvents
                           /\ ledger[i].sub # 0
                           /\ IdOf(ledger[i].sub) = e}

Restored(e) == IF EffectLines(e) = {} THEN 0
               ELSE ledger[Latest(EffectLines(e))].sub

RestoredStatus(n) ==
    IF Restored(IdOf(n)) = n THEN ledger[Latest(EffectLines(IdOf(n)))].says
    ELSE "lost"

\* A cache that cannot be read counts as empty and is rewritten; that, or a
\* cache at odds with the ledger, is an alarm, which is appended if it can be.
Restart ==
    /\ ~up
    /\ up' = TRUE
    /\ \E cached \in {cache, [a \in Approvals |-> "absent"]} :
         LET loaded == [a \in Approvals |-> LoadedItem(a, cached)]
             alarm  == \/ cached # cache
                       \/ \E a \in Approvals : cached[a] \notin {"absent", loaded[a]}
         IN /\ items' = loaded
            /\ IF cached = cache THEN UNCHANGED <<cache, faults>>
                                 ELSE Fault /\ cache' = loaded
            /\ ledger' \in {Append(ledger, Line("approvals.alarm", 0, "none", None)), ledger}
            /\ ~alarm => ledger' = ledger
    /\ effects' = [e \in Ids |-> Restored(e)]
    /\ status' = [n \in Submissions |-> RestoredStatus(n)]
    /\ UNCHANGED <<registry, content, loop, parked, ran, told, refusals, crashes>>

-----------------------------------------------------------------------------
Init ==
    /\ registry = Registry
    /\ ledger = <<>>
    /\ content = <<>>
    /\ status = <<>>
    /\ effects = [e \in Ids |-> 0]
    /\ items = [a \in Approvals |-> "absent"]
    /\ cache = [a \in Approvals |-> "absent"]
    /\ loop = Idle
    /\ parked = {}
    /\ ran = <<>>
    /\ told = {}
    /\ up = TRUE
    /\ refusals = 0
    /\ faults = 0
    /\ crashes = 0

\* The steps the event loop takes on its own, once a request is in.
Handler ==
    \/ Untraceable \/ Propose \/ Cap \/ Enqueue \/ Queue
    \/ Refuse \/ Decided \/ Reject \/ Approve
    \/ Execute \/ Mirror \/ Settle("executed") \/ Settle("blocked")

Request ==
    \/ \E b \in SignalBodies : IngestSignal(b)
    \/ \E p \in Proposals : Submit(p) \/ RefuseUntraceable(p)
    \/ \E a \in Submissions, d \in Decisions : Decide(a, d) \/ RefuseDecision(a, d)

Next ==
    \/ Request
    \/ Handler
    \/ \E c \in parked : Relay(c) \/ Resume(c)
    \/ LedgerFails
    \/ Crash
    \/ Restart

Spec == Init /\ [][Next]_vars

\* The loop runs what is ready and Relay answers every call; nobody owes a
\* signal, a proposal or a decision, and nothing makes a write fail.
FairSpec ==
    /\ Spec
    /\ WF_vars(Handler)
    /\ WF_vars(\E c \in parked : Resume(c))
    /\ WF_vars(\E c \in parked : Relay(c))

-----------------------------------------------------------------------------
(* Properties                                                              *)

Verdict == {"held", "bypassed", "allowed", "error"}
Anyone  == {0} \cup Submissions

Coroutines(S, v, d) ==
    [at : S, n : Submissions, a : Anyone, verdict : v, d : d]

\* What may hold the loop, and what may be suspended in Relay.
Running ==
    [at : {"idle", "untraceable"}, n : {0}, a : {0}, verdict : {"none"}, d : {None}]
    \cup Coroutines({"propose", "cap", "enqueue", "queue", "reject", "approve",
                     "execute", "executed", "blocked"}, {"none"}, {None})
    \cup Coroutines({"refuse", "decided"}, {"none"}, Decisions)
    \cup Coroutines({"mirror"}, Verdict, {None})
Suspended == Coroutines({"hold", "run"}, Verdict \cup {"none"}, {None})

LedgerLine ==
    [type : EffectEvents, sub : Submissions, says : Statuses \cup {"lost"},
     body : {None}]
    \cup [type : {"effect.refused", "approvals.alarm"}, sub : {0},
          says : {"none"}, body : {None}]
    \cup [type : {"signal.ingested"}, sub : {0}, says : {"none"},
          body : SignalBodies]
    \cup [type : {"approval.refused", "approval.decided"}, sub : Submissions,
          says : {"none"}, body : Decisions]
    \cup [type : {"relay.guardrail"}, sub : Submissions, says : Verdict,
          body : {None}]

\* The values the variables take.
TypeOK ==
    /\ registry \in [EffectTypes -> Rules \cup {"none"}]
    /\ content \in Seq([proposal : Proposals, rule : Rules])
    /\ Len(content) <= MaxSubmits
    /\ \A n \in Submissions : IdOf(n) \in Ids
    /\ ledger \in Seq(LedgerLine)
    /\ status \in [Submissions -> Statuses \cup {"lost"}]
    /\ effects \in [Ids -> Anyone]
    /\ items \in [Approvals -> States]
    /\ cache \in [Approvals -> States]
    /\ loop \in Running
    /\ loop.at = "decided" => loop.a # 0
    /\ parked \subseteq Suspended
    /\ ran \in Seq([n : Submissions, a : Anyone, seq : Nat])
    /\ told \subseteq Anyone \X Anyone
    /\ up \in BOOLEAN
    /\ refusals \in 0..MaxRefusals
    /\ faults \in 0..MaxFaults
    /\ crashes \in 0..MaxCrashes

\* The ledger comes first: when the executor runs an effect the line that
\* says so is already in the chain, whatever failed or crashed before
\* (gate.py: "the ledger entry is written before the effect executes").
WriteAhead ==
    \A k \in DOMAIN ran :
        \E i \in Lines("effect.executing", ran[k].n) : i <= ran[k].seq

\* Only a decision releases a held effect: a run of an effect that was not
\* auto-executing follows an approve, in the chain, of an approval for that
\* effect id (Gate.decide, "the only path from queued to executed").
ReleasedByDecision ==
    \A k \in DOMAIN ran : ClassOf(ran[k].n) # "auto" =>
        /\ ran[k].a # 0
        /\ IdOf(ran[k].a) = IdOf(ran[k].n)
        /\ \E i \in Lines("approval.decided", ran[k].a) :
              i <= ran[k].seq /\ ledger[i].body.decision = "approve"

\* An approval releases one run and an auto-executing submission is one run,
\* across failed appends, lost caches, crashes and boots.
RunsOnce ==
    \A j, k \in DOMAIN ran :
        j # k /\ ran[j].a = ran[k].a => ran[j].a = 0 /\ ran[j].n # ran[k].n

\* An irreversible effect runs on an approval only, and an approval that was
\* asked for one, as the person who decided it was shown, releases a run only if
\* a human's attested decision is in the chain (Gate._check_role and
\* Gate._check_attestation).  The ids are the callers': what runs is the record
\* that has the id by then, which need not be the submission that was shown.
AttestedRelease ==
    \A k \in DOMAIN ran :
        /\ ClassOf(ran[k].n) = "irreversible" => ran[k].a # 0
        /\ ran[k].a # 0 /\ ClassOf(ran[k].a) = "irreversible" =>
            \E i \in Lines("approval.decided", ran[k].a) :
                /\ i <= ran[k].seq
                /\ ledger[i].body.decision = "approve"
                /\ ledger[i].body.caller_role = "human"
                /\ ledger[i].body.subject = "person"
                /\ ledger[i].body.attestation = "full"

\* No irreversible effect runs on a decision nobody attested (gate.py:33,
\* "Releasing a queued IRREVERSIBLE effect takes more than a well-formed body").
\* One does: posted under the id of a reversible effect that is held, it is what
\* the unattested approval of that one releases (Gate.decide).
IrreversibleIsAttested ==
    \A k \in DOMAIN ran : ClassOf(ran[k].n) = "irreversible" =>
        \E i \in Lines("approval.decided", ran[k].a) :
            /\ ledger[i].body.decision = "approve"
            /\ ledger[i].body.caller_role = "human"
            /\ ledger[i].body.attestation = "full"

\* A grant that, by its payload or by the latest signal of that id when it was
\* proposed, hands somebody an escalating role runs on a release only, though
\* the registry lets its type run at once (Gate.classify_with_source, "the
\* payload decides, the type string does not").
ConferralIsReleased ==
    \A k \in DOMAIN ran : \A i \in Lines("effect.proposed", ran[k].n) :
        LET p == content[ran[k].n].proposal
            Before == {j \in SignalLines(p.signal_id) : j < i}
            role == IF p.payload_role # "none" \/ Before = {} THEN p.payload_role
                    ELSE ledger[Latest(Before)].body.role
        IN p.effect_type \in Conferring /\ role = "escalating" => ran[k].a # 0

\* What waits for a human can be traced: a hold in the chain comes after the
\* signal it names (Gate.submit refuses an effect with no ingested cause).
HoldsAreTraced ==
    \A i \in DOMAIN ledger : ledger[i].type = "effect.queued" =>
        \E j \in 1..(i - 1) :
            /\ ledger[j].type = "signal.ingested"
            /\ ledger[j].body.id = content[ledger[i].sub].proposal.signal_id

\* A pending approval can be decided: its effect is on record, also after a
\* boot that took the approval from the cache and the effect from the ledger,
\* so Gate.decide does not settle the approval and then find no effect.
PendingHasEffect ==
    \A a \in Submissions : items[a] = "pending" => effects[IdOf(a)] # 0

\* A decision in the chain stands and a hold in the chain is never lost,
\* whatever failed since (approvals.py: the queue is rebuilt from the ledger).
RecordSurvives ==
    Free => \A a \in Approvals :
        /\ LedgerItem(a) \in {"approved", "rejected"} => items[a] = LedgerItem(a)
        /\ LedgerItem(a) = "pending" => items[a] # "absent"

\* The queue in memory says what the chain says of every hold the chain has;
\* a decision the chain lacks leaves the effect held (approvals.py).
QueueAgreesWithLedger ==
    Free => \A a \in Approvals :
        LedgerItem(a) # "absent" => items[a] = LedgerItem(a)

\* No more near-duplicates are pending than the cap allows, across boots
\* (Gate.submit counts and enqueues without an await between).
CapHolds ==
    Free => \A n \in Submissions : Cardinality(PendingMatching(n)) <= MaxPending

Quiet == Free /\ parked = {}

\* Nobody else posted the effect id of submission n.
Alone(n) == \A m \in Submissions : IdOf(m) = IdOf(n) => m = n

\* Between requests the record of an effect whose id was posted once is what a
\* boot would rebuild from the chain (Gate._restore: "it is the source of
\* truth"), unless its last line is a refusal: that line is written before the
\* record turns rejected.
UnrefusedMatchesLedger ==
    Quiet => \A n \in Submissions :
        /\ Alone(n)
        /\ effects[IdOf(n)] = n
        /\ ledger[Latest(EffectLines(IdOf(n)))].type # "effect.refused"
        => status[n] = RestoredStatus(n)

\* Whoever is told effect_executed: false was told the truth (app.py, the
\* LedgerUnwritable handler).  It is not, where the append after the executor
\* failed.
ToldTheTruth ==
    \A k \in DOMAIN ran : <<ran[k].n, ran[k].a>> \notin told

\* With no fault and no crash, what was approved runs and what executes on
\* its own runs, whatever else the loop is given meanwhile.
CarriedOut ==
    \A n \in Approvals :
        (\/ n \in Submissions /\ ClassOf(n) = "auto"
         \/ \E i \in Lines("approval.decided", n) :
               ledger[i].body.decision = "approve")
        ~> \E k \in DOMAIN ran : n \in {ran[k].a, ran[k].n}

\* Nothing a human still has to decide gets lost or comes from nowhere: holds
\* are traced, pending approvals have their effect, records come back at a boot.
HoldsAreKept == HoldsAreTraced /\ PendingHasEffect /\ RecordSurvives

\* As long as no write failed: whenever the loop is free, queue and records are
\* what the chain says, and the duplicate cap holds over both (_restore, submit).
FollowsTheLedger ==
    faults = 0 => QueueAgreesWithLedger /\ UnrefusedMatchesLedger /\ CapHolds

=============================================================================
