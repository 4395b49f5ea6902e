------------------------------- MODULE Console -------------------------------
(***************************************************************************)
(* helm's decision desk: Console.decide with the two routes that lead to   *)
(* it (POST /approvals/{id}/decide and MCP approve_effect), the client     *)
(* that forwards a decision to throughline, and the refusal helm ledgers   *)
(* afterwards; and Console.reload_class with its cached health reading.    *)
(*                                                                         *)
(* A call is a thread of helm's pool: it reads the queue, rules on what it *)
(* read, forwards, and answers in separate steps, so another decision can  *)
(* land between any two.  A request may be lost on the way out or its      *)
(* answer on the way back; throughline's own verdict is modelled by what   *)
(* Gate proves of it and siren's by what HotReload answers.                *)
(***************************************************************************)
EXTENDS Integers, Sequences, FiniteSets

CONSTANTS Callers,       \* request threads that may ask for a decision
          Approvals,     \* the records in throughline's queue
          Irreversible,  \* those of the irreversible class
          Tokens,        \* what the caller token helm holds may be
          MaxFaults,     \* bound: requests or answers that get lost
          None

ASSUME ConsoleAssumption ==
    /\ Irreversible \subseteq Approvals
    /\ Tokens \subseteq {"good", "bad"}
    /\ MaxFaults \in Nat
    /\ None \notin Callers \cup Approvals

VARIABLES
    queue,    \* throughline: a record's state and the call that decided it
    chain,    \* throughline: the lines that name a call, and their principal
    call,     \* what a thread is doing, and what it answered
    token,    \* the caller token, read once when the client is built
    faults,   \* requests or answers lost so far
    flowed    \* siren: the calls whose reload swapped the class and emitted

deskVars == <<queue, chain, call, token, faults, flowed>>

-----------------------------------------------------------------------------
(* Who asks                                                                *)

Sessions == {"operator", "unattested", "viewer", "anonymous", "agent", "liar"}
Paths    == {"http", "mcp", "clerk"}

\* What a caller is to the desk.  Over HTTP the role is the session's unless
\* the body says agent; over MCP everybody is an agent but a session that
\* names nobody, and a claimed name can only demote.
Acts(who, path) ==
    IF path = "clerk" THEN "agent"
    ELSE CASE who \in {"operator", "unattested"} -> "human"
           [] who = "viewer"                     -> "viewer"
           [] who = "agent"                      -> "agent"
           [] who = "anonymous" -> IF path = "mcp" THEN "agent" ELSE "nobody"
           [] who = "liar"      -> IF path = "mcp" THEN "agent" ELSE "liar"

NoAnswer  == [status |-> "none", ledgered |-> FALSE]
Refusal   == [status |-> "refused", ledgered |-> FALSE]
OnRecord  == [status |-> "refused", ledgered |-> TRUE]
Answer(s) == [status |-> s, ledgered |-> FALSE]
Idle == [pc |-> "idle", who |-> None, path |-> None, a |-> None,
         d |-> None, by |-> None, out |-> NoAnswer]

Role(c) == Acts(call[c].who, call[c].path)

Goto(c, pc) == call' = [call EXCEPT ![c].pc = pc]

Close(c, out) == call' = [call EXCEPT ![c].pc = "closed", ![c].out = out]

\* Both routes ledger a refusal that is not on the chain; the clerk's own
\* turn has no such call.
Refuse(c, out) ==
    call' = [call EXCEPT ![c].pc  = IF call[c].path = "clerk" THEN "closed"
                                                              ELSE "note",
                         ![c].out = out]

Line(kind, c) == [kind |-> kind, call |-> c, by |-> call[c].by]

Fault ==
    /\ faults < MaxFaults
    /\ faults' = faults + 1

-----------------------------------------------------------------------------
(* Deciding                                                                *)

\* A request arrives; by is the principal it will be recorded under.
Order(c, who, path, a, d, by) ==
    /\ call[c].pc = "idle"
    /\ call' = [call EXCEPT ![c] = [pc |-> "fetch", who |-> who, path |-> path,
                                    a |-> a, d |-> d, by |-> by,
                                    out |-> NoAnswer]]

\* approval(): the record looked for in the whole queue.  A queue that cannot
\* be read is an empty one here, so an outage answers 404.
Fetch(c) ==
    /\ call[c].pc = "fetch"
    /\ \/ Goto(c, "rule") /\ UNCHANGED faults
       \/ Fault /\ Close(c, Answer("missing"))
    /\ UNCHANGED <<queue, chain, token, flowed>>

\* Mutant: only the gate's own rule, which stops an agent at the irreversible.
RefusedHereByClass(c) == Role(c) \in {"liar", "nobody", "viewer"}

\* What helm refuses without asking the gate: somebody else's name, no
\* session, a viewer, and an agent whatever the class of the effect.
RefusedHere(c) ==
    \/ Role(c) \in {"liar", "nobody", "viewer"}
    \/ Role(c) = "agent" /\ call[c].a \notin Irreversible

Rule(c) ==
    /\ call[c].pc = "rule"
    /\ IF RefusedHere(c) THEN Refuse(c, Refusal) ELSE Goto(c, "forward")
    /\ UNCHANGED <<queue, chain, token, faults, flowed>>

\* The gate's verdict on a request that reached it with a good token: it turns
\* away approvals of the irreversible class only, so a reject is anybody's.
GateRefuses(c) ==
    /\ call[c].a \in Irreversible
    /\ call[c].d = "approve"
    /\ Role(c) = "agent" \/ call[c].who = "unattested"

GateDecides(c) == ~GateRefuses(c) /\ queue[call[c].a].state = "pending"

Gate(c) ==
    IF GateRefuses(c)
    THEN /\ chain' = chain \cup {Line("approval.refused", c)}
         /\ UNCHANGED queue
    ELSE IF GateDecides(c)
    THEN /\ queue' = [queue EXCEPT ![call[c].a] = [state |-> call[c].d, by |-> c]]
         /\ chain' = chain \cup {Line("approval.decided", c)}
    ELSE UNCHANGED <<queue, chain>>

\* Mutant: an agent's attempt is called ledgered because it was forwarded.
HeardByAgentAssumed(c, answer) == OnRecord

\* The agent's branch forwards the decision as it came and answers refused
\* whatever the gate did with it; ledgered when the gate was the one that
\* refused.
HeardByAgent(c, answer) ==
    [status |-> "refused", ledgered |-> answer = "refused"]

\* Mutant: whatever is not a success is shown as a refusal.
HeardByHumanOrRefused(c, answer) ==
    IF answer = "decided" THEN Answer("ok") ELSE Refusal

\* A refusal is the gate's 403 alone; a missing token, a conflict and a
\* request that got no answer are each something else.
HeardByHuman(c, answer) ==
    CASE answer = "decided"         -> Answer("ok")
      [] answer = "refused"         -> Refusal
      [] answer = "unauthenticated" -> Answer("unauthenticated")
      [] OTHER                      -> Answer("error")

Heard(c, answer) ==
    IF Role(c) = "agent"
    THEN Refuse(c, HeardByAgent(c, answer))
    ELSE IF answer = "refused"
         THEN Refuse(c, HeardByHuman(c, answer))
         ELSE Close(c, HeardByHuman(c, answer))

\* Throughline.decide: never sent without a token, turned away with a wrong
\* one, else judged; the way there or the way back may fail.
Forward(c) ==
    /\ call[c].pc = "forward"
    /\ \/ /\ token = "bad"
          /\ Heard(c, "unauthenticated")
          /\ UNCHANGED <<queue, chain, faults>>
       \/ /\ Fault
          /\ Heard(c, "unreachable")
          /\ UNCHANGED <<queue, chain>>
       \/ /\ token = "good"
          /\ Gate(c)
          /\ \/ /\ Heard(c, IF GateRefuses(c) THEN "refused"
                            ELSE IF GateDecides(c) THEN "decided" ELSE "conflict")
                /\ UNCHANGED faults
             \/ Fault /\ Heard(c, "unreachable")
    /\ UNCHANGED <<token, flowed>>

\* ledger_refusal: a refusal not yet on the chain goes there as a signal.
Note(c) ==
    /\ call[c].pc = "note"
    /\ \/ /\ call[c].out.ledgered
          /\ Goto(c, "closed")
          /\ UNCHANGED <<chain, faults>>
       \/ /\ ~call[c].out.ledgered
          /\ chain' = chain \cup {Line("helm.refusal", c)}
          /\ \/ /\ Close(c, OnRecord)
                /\ UNCHANGED faults
             \/ Fault /\ Close(c, call[c].out)
       \/ /\ ~call[c].out.ledgered
          /\ Fault /\ Close(c, call[c].out)
          /\ UNCHANGED chain
    /\ UNCHANGED <<queue, token, flowed>>

-----------------------------------------------------------------------------
(* Reloading a class                                                       *)

\* service_statuses serves a reading for max_age and two refreshes may cross,
\* so what it says of siren is what siren was at some other time.
ReloadAsked(c) ==
    /\ call[c].pc = "idle"
    /\ \E online \in BOOLEAN :
          call' = [call EXCEPT ![c] = [Idle EXCEPT
                      !.pc  = IF online THEN "reload" ELSE "closed",
                      !.out = Answer(IF online THEN "none" ELSE "offline")]]
    /\ UNCHANGED <<queue, chain, token, faults, flowed>>

SirenAnswers == {"flowing", "idle", "drift", "held", "refused"}

\* Mutant: a 200 is a success.
ReportedByStatus(answer) ==
    IF answer \in {"flowing", "idle", "drift"} THEN "performed"
    ELSE IF answer = "held" THEN "held" ELSE "refused"

\* reload_class on siren's body: held first, then any refused step (a config
\* that siren's own pre-flight refused has one although it was registered),
\* then performed only if every step is ok.
Reported(answer) ==
    CASE answer = "flowing" -> "performed"
      [] answer = "idle"    -> "incomplete"
      [] answer = "held"    -> "held"
      [] OTHER              -> "refused"

\* POST /hot-reload; no answer at all is reported as a refused step too.
ReloadPosted(c) ==
    /\ call[c].pc = "reload"
    /\ \/ \E answer \in SirenAnswers :
             /\ flowed' = IF answer = "flowing" THEN flowed \cup {c} ELSE flowed
             /\ \/ Close(c, Answer(Reported(answer))) /\ UNCHANGED faults
                \/ Close(c, Answer("refused")) /\ Fault
       \/ /\ Close(c, Answer("refused"))
          /\ UNCHANGED <<flowed, faults>>
    /\ UNCHANGED <<queue, chain, token>>

-----------------------------------------------------------------------------

DeskInit ==
    /\ queue  = [a \in Approvals |-> [state |-> "pending", by |-> None]]
    /\ chain  = {}
    /\ call   = [c \in Callers |-> Idle]
    /\ token \in Tokens
    /\ faults = 0
    /\ flowed = {}

DeskStep(c) == Fetch(c) \/ Rule(c) \/ Forward(c) \/ Note(c) \/ ReloadPosted(c)

-----------------------------------------------------------------------------
(* Properties                                                              *)

\* What somebody may decide: a human anything, an agent nothing but the
\* withdrawal of an irreversible effect, which helm forwards and the gate takes.
MayDecide(c, a, d) ==
    \/ Role(c) = "human"
    \/ Role(c) = "agent" /\ a \in Irreversible /\ d = "reject"

\* No agent releases anything: not over MCP, not by a claimed name, not by the
\* clerk, and nothing at all of the reversible class, which the gate itself
\* would let an agent decide; nor does a viewer, a stranger or somebody under
\* another's name decide.  (console.py, decide: "The role gate is helm's, and
\* it does not depend on a config file".)
AgentsReleaseNothing ==
    \A a \in Approvals : queue[a].by # None =>
        MayDecide(queue[a].by, a, queue[a].state)

\* No approval is decided by an agent, the claim of the refusal an agent is
\* given.  It is false of an agent's reject of an irreversible effect, which
\* the desk forwards unchanged and then calls refused.  (console.py: "deciding
\* a queued effect requires a human signet role".)
AgentsDecideNothing ==
    \A a \in Approvals : queue[a].by # None => Role(queue[a].by) = "human"

\* A decision answered ok is this call's and stands as asked.  One answered
\* refused was not taken, unless it was an agent's reject, and released
\* nothing in any case, even when requests and answers get lost on the way.
\* (console.py: "refused means the GATE declined".)
AnswersAreTrue ==
    \A c \in Callers :
        /\ call[c].out.status = "ok" =>
               queue[call[c].a] = [state |-> call[c].d, by |-> c]
        /\ call[c].out.status = "refused" =>
               \A a \in Approvals : queue[a].by = c =>
                   Role(c) = "agent" /\ queue[a].state = "reject"

\* A refusal that says it is ledgered is a line of the chain under the
\* principal of the call, whether the gate or helm wrote it.  (console.py:
\* "The attempt is only ON THE RECORD if the substrate actually ledgered it".)
LedgeredIsOnTheChain ==
    \A c \in Callers : call[c].out.ledgered =>
        \E kind \in {"approval.refused", "helm.refusal"} : Line(kind, c) \in chain

\* A reload reported as performed swapped the class and its signals flowed.
\* (console.py: "performed means it HAPPENED, not the call returned 200".)
PerformedHappened ==
    \A c \in Callers : call[c].out.status = "performed" => c \in flowed

\* Whatever gets lost on the way, what a caller is told of a decision, of the
\* record of a refusal and of a reload is what happened (Console.decide,
\* reload_class).
TellsTheTruth == AnswersAreTrue /\ LedgeredIsOnTheChain /\ PerformedHappened

=============================================================================
