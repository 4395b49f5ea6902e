---------------------------- MODULE ConsoleProofs ----------------------------
(***************************************************************************)
(* Who decides and who answered: for any number of turns, requests,        *)
(* approvals and rungs, and whatever gets lost, nothing is released by an  *)
(* agent, what a caller is told is what happened, and a rung is named for  *)
(* a turn that it served.                                                  *)
(***************************************************************************)
EXTENDS NemoClerk, SequenceTheorems, WellFoundedInduction, TLAPS

Decisions == {"approve", "reject"}

\* A request takes a thread of the pool.
Ordered(c) ==
    /\ \E path, by : \E who \in Sessions, a \in Approvals, d \in Decisions :
          Order(c, who, path, a, d, by)
    /\ UNCHANGED <<queue, flowed>>
    /\ chain \subseteq chain'

\* What a step of helm may do to the desk.
DeskMoves ==
    \/ \E c \in Callers : DeskStep(c) \/ Ordered(c) \/ ReloadAsked(c)
    \/ UNCHANGED <<queue, call, flowed>> /\ chain \subseteq chain'

Asking  == {"fetch", "rule", "forward"}
Answers == {"note", "closed"}

\* Every thread is in one of its states and a request comes from somebody.
Shape ==
    /\ DOMAIN call = Callers
    /\ \A c \in Callers :
          /\ call[c].pc \in Asking \cup Answers \cup {"idle", "reload"}
          /\ DOMAIN call[c] = {"pc", "who", "path", "a", "d", "by", "out"}
          /\ call[c].pc \in Asking \cup {"note"} =>
                call[c].who \in Sessions /\ call[c].d \in Decisions

\* Whoever is about to ask the gate was let through by helm, whoever decided
\* was too, and nobody decides before asking.
LetThrough ==
    /\ \A c \in Callers : call[c].pc = "forward" => ~RefusedHere(c)
    /\ \A a \in Approvals : queue[a].by # None =>
          /\ queue[a].by \in Callers
          /\ MayDecide(queue[a].by, a, queue[a].state)
          /\ call[queue[a].by].pc \in Answers
          /\ queue[a].state # "pending"

\* A thread says nothing before it closes, and then the truth.
Said ==
    /\ DOMAIN queue = Approvals
    /\ \A c \in Callers :
          /\ call[c].pc \notin Answers => call[c].out.status = "none" /\ ~call[c].out.ledgered
          /\ call[c].pc \in Asking \/ call[c].out.status = "ok" => call[c].a \in Approvals
          /\ call[c].pc = "note" => call[c].out.status = "refused"

Invariant == Shape /\ LetThrough /\ Said /\ TellsTheTruth

LEMMA Moves ==
  ASSUME [Next]_vars
  PROVE  DeskMoves
<1>1. CASE UNCHANGED vars
  BY <1>1 DEF DeskMoves, vars, deskVars
<1>2. ASSUME NEW t \in Turns, Turn(t)
      PROVE  DeskMoves
  <2>1. t \in Callers
    BY ClerkAssumption
  <2>2. CASE ListPending(t)
    <3>1. UNCHANGED <<queue, chain, flowed>>
      BY <2>2 DEF ListPending
    <3>2. \/ UNCHANGED call
          \/ \E a \in Approvals, d \in Decisions :
                Order(t, "agent", "clerk", a, d, Principal(serving, reported))
      BY <2>2 DEF ListPending, Attempts, Decisions
    <3>3. "agent" \in Sessions
      BY DEF Sessions
    <3> QED
      BY <2>1, <3>1, <3>2, <3>3 DEF DeskMoves, Ordered
  <2>3. CASE \E q \in Questions : Ask(t, q)
    BY <2>3 DEF Ask, DeskMoves, deskVars
  <2>4. CASE Clear(t) \/ ClearName(t) \/ Wait(t) \/ Chat(t) \/ Rung(t)
    BY <2>4 DEF Clear, ClearName, Wait, Chat, Rung, DeskMoves, deskVars
  <2>5. CASE Put(t) \/ PutName(t) \/ Approved(t) \/ Answered(t) \/ Sign(t)
    BY <2>5 DEF Put, PutName, Approved, Answered, Sign, DeskMoves, deskVars
  <2>6. CASE CloseTurn(t)
    BY <2>6 DEF CloseTurn, DeskMoves
  <2> QED
    BY <1>2, <2>2, <2>3, <2>4, <2>5, <2>6 DEF Turn
<1>3. CASE \E i \in DOMAIN probes : Probe(i)
  BY <1>3 DEF Probe, DeskMoves, deskVars
<1>4. CASE (\E r \in Tiers : RungFlips(r)) \/ (\E s \in Subjects : SignOut(s))
  BY <1>4 DEF RungFlips, SignOut, DeskMoves, deskVars
<1>5. CASE DeskNext
  BY <1>5 DEF DeskNext, Desk, DeskMoves, Ordered, Decisions
<1> QED
  BY <1>1, <1>2, <1>3, <1>4, <1>5 DEF Next

LEMMA InitInvariant ==
  ASSUME Init
  PROVE  Invariant
<1>1. \A c \in Callers : call[c] = Idle
  BY DEF Init, DeskInit
<1>2. \A a \in Approvals : queue[a].by = None
  BY DEF Init, DeskInit
<1>3. DOMAIN call = Callers /\ DOMAIN queue = Approvals
  BY DEF Init, DeskInit
<1>4. /\ Idle.pc = "idle" /\ Idle.out.status = "none" /\ Idle.out.ledgered = FALSE
      /\ DOMAIN Idle = {"pc", "who", "path", "a", "d", "by", "out"}
  BY DEF Idle, NoAnswer
<1>5. Shape /\ LetThrough /\ Said
  BY <1>1, <1>2, <1>3, <1>4 DEF Shape, LetThrough, Said, Asking, Answers
<1>6. TellsTheTruth
  BY <1>1, <1>2, <1>4 DEF TellsTheTruth, AnswersAreTrue, LedgeredIsOnTheChain, PerformedHappened
<1> QED
  BY <1>5, <1>6 DEF Invariant

\* A thread goes on with its request: nobody else moves, and the request is
\* the same.
Advances(c) ==
    /\ DOMAIN call' = Callers
    /\ \A b \in Callers : b # c => call'[b] = call[b]
    /\ DOMAIN call'[c] = DOMAIN call[c]
    /\ call'[c].who = call[c].who /\ call'[c].path = call[c].path
    /\ call'[c].a = call[c].a /\ call'[c].d = call[c].d /\ call'[c].by = call[c].by

LEMMA GoesOn ==
  ASSUME Shape, NEW c \in Callers, NEW pc, Goto(c, pc)
  PROVE  Advances(c) /\ call'[c].pc = pc /\ call'[c].out = call[c].out
<1>1. DOMAIN call[c] = {"pc", "who", "path", "a", "d", "by", "out"} /\ DOMAIN call = Callers
  BY DEF Shape
<1> DEFINE r == [call[c] EXCEPT !.pc = pc]
<1>2. call' = [call EXCEPT ![c] = r]
  BY DEF Goto
<1>3. /\ DOMAIN r = DOMAIN call[c] /\ r.pc = pc /\ r.who = call[c].who /\ r.path = call[c].path
      /\ r.a = call[c].a /\ r.d = call[c].d /\ r.by = call[c].by /\ r.out = call[c].out
  BY <1>1, Zenon
<1> HIDE DEF r
<1> QED
  BY <1>1, <1>2, <1>3 DEF Advances

LEMMA Closes ==
  ASSUME Shape, NEW c \in Callers, NEW out, Close(c, out) \/ Refuse(c, out)
  PROVE  Advances(c) /\ call'[c].pc \in Answers /\ call'[c].out = out
<1>1. DOMAIN call[c] = {"pc", "who", "path", "a", "d", "by", "out"} /\ DOMAIN call = Callers
  BY DEF Shape
<1>2. PICK pc \in Answers : call' = [call EXCEPT ![c] = [call[c] EXCEPT !.pc = pc, !.out = out]]
  <2>1. CASE Close(c, out)
    BY <2>1 DEF Close, Answers
  <2>2. CASE Refuse(c, out)
    BY <2>2 DEF Refuse, Answers
  <2> QED
    BY <2>1, <2>2
<1> DEFINE r == [call[c] EXCEPT !.pc = pc, !.out = out]
<1>3. /\ DOMAIN r = DOMAIN call[c] /\ r.pc = pc /\ r.who = call[c].who /\ r.path = call[c].path
      /\ r.a = call[c].a /\ r.d = call[c].d /\ r.by = call[c].by /\ r.out = out
  BY <1>1, Zenon
<1>4. call' = [call EXCEPT ![c] = r]
  BY <1>2
<1> HIDE DEF r
<1> QED
  BY <1>1, <1>2, <1>3, <1>4 DEF Advances


\* An answer says what the queue, the chain and siren hold.
Honest(c, out) ==
    /\ out.status = "ok" =>
          call[c].a \in Approvals /\ queue'[call[c].a] = [state |-> call[c].d, by |-> c]
    /\ out.status = "refused" =>
          \A a \in Approvals : queue'[a].by = c =>
              Role(c) = "agent" /\ queue'[a].state = "reject"
    /\ out.ledgered => \E kind \in {"approval.refused", "helm.refusal"} :
                           [kind |-> kind, call |-> c, by |-> call[c].by] \in chain'
    /\ out.status = "performed" => c \in flowed'

\* What each step of a request under way keeps to.
LEMMA RequestKeeps ==
  ASSUME Invariant, NEW c \in Callers, Advances(c),
         DOMAIN queue' = Approvals, chain \subseteq chain', flowed \subseteq flowed',
         \A a \in Approvals :
            \/ queue'[a] = queue[a]
            \/ /\ queue[a].by = None /\ queue'[a].by = c /\ queue'[a].state # "pending"
               /\ MayDecide(c, a, queue'[a].state) /\ call'[c].pc \in Answers,
         call[c].pc \in Answers => call'[c].pc \in Answers,
         \/ call'[c].pc = "closed"
         \/ /\ call[c].pc \in Asking \cup {"note"}
            /\ call'[c].pc \in Answers \cup {"rule", "forward"},
         call'[c].pc \in Asking => call[c].pc \in Asking,
         call'[c].pc = "forward" => ~RefusedHere(c),
         call'[c].pc \notin Answers => call'[c].out.status = "none" /\ ~call'[c].out.ledgered,
         call'[c].pc = "note" => call'[c].out.status = "refused",
         Honest(c, call'[c].out)
  PROVE  Invariant'
<1>1. \A b \in Callers : /\ DOMAIN call'[b] = DOMAIN call[b]
                         /\ call'[b].who = call[b].who /\ call'[b].path = call[b].path
                         /\ call'[b].a = call[b].a /\ call'[b].d = call[b].d
                         /\ call'[b].by = call[b].by
  BY DEF Advances
<1>2. \A b \in Callers : Role(b)' = Role(b) /\ RefusedHere(b)' = RefusedHere(b)
  BY <1>1 DEF Role, RefusedHere
<1>3. None \notin Callers
  BY ConsoleAssumption
<1>4. Shape'
  BY <1>1 DEF Invariant, Shape, Advances, Asking, Answers
<1>5. LetThrough'
  <2>1. \A b \in Callers : call'[b].pc = "forward" => ~RefusedHere(b)
    BY DEF Invariant, LetThrough, Advances
  <2>2. \A b \in Callers : call[b].pc \in Answers => call'[b].pc \in Answers
    BY DEF Advances
  <2>3. ASSUME NEW a \in Approvals, queue'[a].by # None
        PROVE  /\ queue'[a].by \in Callers
               /\ MayDecide(queue'[a].by, a, queue'[a].state)
               /\ call'[queue'[a].by].pc \in Answers
               /\ queue'[a].state # "pending"
    <3>1. CASE queue'[a] = queue[a]
      BY <2>2, <2>3, <3>1 DEF Invariant, LetThrough
    <3>2. CASE queue'[a] # queue[a]
      BY <3>2
    <3> QED
      BY <3>1, <3>2
  <2> QED
    BY <1>2, <2>1, <2>3 DEF LetThrough, MayDecide
<1>6. Said'
  BY <1>1 DEF Invariant, Said, Advances, Answers, Asking, Honest
<1>7. TellsTheTruth'
  <2>1. \A b \in Callers : b # c => call'[b].out = call[b].out
    BY DEF Advances
  <2>2. AnswersAreTrue'
    <3>1. ASSUME NEW b \in Callers, b # c, call[b].out.status = "ok"
          PROVE  queue'[call[b].a] = [state |-> call[b].d, by |-> b]
      <4>1. call[b].a \in Approvals /\ queue[call[b].a] = [state |-> call[b].d, by |-> b]
        BY <3>1 DEF Invariant, Said, TellsTheTruth, AnswersAreTrue
      <4>2. queue[call[b].a].by # None
        BY <4>1, <1>3
      <4> QED
        BY <4>1, <4>2
    <3>2. ASSUME NEW b \in Callers, b # c, call[b].out.status = "refused",
                 NEW a \in Approvals
          PROVE  queue'[a].by = b => Role(b) = "agent" /\ queue'[a].state = "reject"
      <4>1. queue[a].by = b => Role(b) = "agent" /\ queue[a].state = "reject"
        BY <3>2 DEF Invariant, TellsTheTruth, AnswersAreTrue
      <4>2. queue'[a] = queue[a] \/ queue'[a].by = c
        OBVIOUS
      <4> QED
        BY <3>2, <4>1, <4>2
    <3> QED
      BY <1>1, <1>2, <2>1, <3>1, <3>2 DEF AnswersAreTrue, Honest
  <2>3. LedgeredIsOnTheChain'
    <3>1. ASSUME NEW b \in Callers, call'[b].out.ledgered
          PROVE  \E kind \in {"approval.refused", "helm.refusal"} :
                    [kind |-> kind, call |-> b, by |-> call[b].by] \in chain'
      BY <2>1, <3>1 DEF Invariant, TellsTheTruth, LedgeredIsOnTheChain, Line, Honest
    <3> QED
      BY <1>1, <3>1 DEF LedgeredIsOnTheChain, Line
  <2>4. PerformedHappened'
    BY <2>1 DEF Invariant, TellsTheTruth, PerformedHappened, Honest
  <2> QED
    BY <2>2, <2>3, <2>4 DEF TellsTheTruth
<1> QED
  BY <1>4, <1>5, <1>6, <1>7 DEF Invariant

\* The thread of an idle caller takes something new to do.
LEMMA StartKeeps ==
  ASSUME Invariant, NEW c \in Callers, call[c].pc = "idle",
         UNCHANGED <<queue, flowed>>, chain \subseteq chain',
         NEW r, call' = [call EXCEPT ![c] = r],
         DOMAIN r = {"pc", "who", "path", "a", "d", "by", "out"},
         \/ r.pc = "fetch" /\ r.who \in Sessions /\ r.d \in Decisions /\ r.a \in Approvals
            /\ r.out.status = "none"
         \/ r.pc = "reload" /\ r.out.status = "none"
         \/ r.pc = "closed" /\ r.out.status = "offline",
         r.out.ledgered = FALSE
  PROVE  Invariant'
<1>1. call'[c] = r /\ DOMAIN call' = Callers /\ \A b \in Callers : b # c => call'[b] = call[b]
  BY DEF Invariant, Shape
<1>2. \A a \in Approvals : queue[a].by # None => queue[a].by \in Callers \ {c}
  BY DEF Invariant, LetThrough, Answers
<1>3. Shape'
  BY <1>1 DEF Invariant, Shape, Asking, Answers
<1>4. LetThrough'
  <2>1. \A b \in Callers : b # c => Role(b)' = Role(b) /\ RefusedHere(b)' = RefusedHere(b)
    BY <1>1 DEF Role, RefusedHere
  <2> QED
    BY <1>1, <1>2, <2>1 DEF Invariant, LetThrough, MayDecide
<1>5. Said'
  BY <1>1 DEF Invariant, Said, Answers, Asking
<1>6. TellsTheTruth'
  <2>1. \A b \in Callers : b # c => /\ \A kind : Line(kind, b)' = Line(kind, b)
                                   /\ Role(b)' = Role(b)
    BY <1>1 DEF Line, Role
  <2> QED
    <3>1. AnswersAreTrue'
      BY <1>1, <1>2, <2>1 DEF Invariant, TellsTheTruth, AnswersAreTrue, Said
    <3>2. LedgeredIsOnTheChain' /\ PerformedHappened'
      BY <1>1, <2>1 DEF Invariant, TellsTheTruth, LedgeredIsOnTheChain, PerformedHappened
    <3> QED
      BY <3>1, <3>2 DEF TellsTheTruth
<1> QED
  BY <1>3, <1>4, <1>5, <1>6 DEF Invariant


\* A request is answered, or closed by the refusal its caller is told.
LEMMA AnswerKeeps ==
  ASSUME Invariant, NEW c \in Callers, NEW out,
         \/ call[c].pc \in Asking \cup Answers \cup {"reload"} /\ Close(c, out)
         \/ call[c].pc \in Asking \cup {"note"} /\ Refuse(c, out) /\ out.status = "refused",
         DOMAIN queue' = Approvals, chain \subseteq chain', flowed \subseteq flowed',
         \A a \in Approvals :
            \/ queue'[a] = queue[a]
            \/ /\ queue[a].by = None /\ queue'[a].by = c /\ queue'[a].state # "pending"
               /\ MayDecide(c, a, queue'[a].state),
         Honest(c, out)
  PROVE  Invariant'
<1>1. Advances(c) /\ call'[c].pc \in Answers /\ call'[c].out = out
  BY Closes DEF Invariant
<1>2. Close(c, out) => call'[c].pc = "closed"
  BY DEF Close, Invariant, Shape
<1> QED
  BY <1>1, <1>2, RequestKeeps DEF Asking, Answers

\* A request goes on to the next question.
LEMMA AskingKeeps ==
  ASSUME Invariant, NEW c \in Callers, call[c].pc \in Asking,
         NEW pc \in {"rule", "forward"}, Goto(c, pc), pc = "forward" => ~RefusedHere(c),
         UNCHANGED <<queue, chain, flowed>>
  PROVE  Invariant'
<1>1. Advances(c) /\ call'[c].pc = pc /\ call'[c].out = call[c].out
  BY GoesOn DEF Invariant
<1>2. call[c].out.status = "none" /\ ~call[c].out.ledgered
  BY DEF Invariant, Said, Asking, Answers
<1>3. Honest(c, call'[c].out)
  BY <1>1, <1>2 DEF Honest
<1>4. DOMAIN queue' = Approvals
  BY DEF Invariant, Said
<1> QED
  BY <1>1, <1>2, <1>3, <1>4, RequestKeeps DEF Asking, Answers

\* Who has not been answered has decided nothing.
LEMMA NotYet ==
  ASSUME Invariant, NEW c \in Callers, call[c].pc \notin Answers
  PROVE  \A a \in Approvals : queue[a].by # c
<1>1. None \notin Callers
  BY ConsoleAssumption
<1> QED
  BY <1>1 DEF Invariant, LetThrough

LEMMA FetchKeeps ==
  ASSUME Invariant, NEW c \in Callers, Fetch(c)
  PROVE  Invariant'
<1>1. call[c].pc = "fetch" /\ UNCHANGED <<queue, chain, flowed>> /\ DOMAIN queue' = Approvals
  BY DEF Fetch, Invariant, Said
<1>2. CASE Goto(c, "rule")
  BY <1>1, <1>2, AskingKeeps DEF Asking
<1>3. CASE Close(c, Answer("missing"))
  <2>1. Honest(c, Answer("missing"))
    BY DEF Honest, Answer
  <2> QED
    BY <1>1, <1>3, <2>1, AnswerKeeps DEF Asking
<1> QED
  BY <1>2, <1>3 DEF Fetch

LEMMA RuleKeeps ==
  ASSUME Invariant, NEW c \in Callers, Rule(c)
  PROVE  Invariant'
<1>1. call[c].pc = "rule" /\ UNCHANGED <<queue, chain, flowed>> /\ DOMAIN queue' = Approvals
  BY DEF Rule, Invariant, Said
<1>2. CASE RefusedHere(c) /\ Refuse(c, Refusal)
  <2>1. Honest(c, Refusal)
    BY <1>1, NotYet DEF Honest, Refusal, Answers
  <2> QED
    BY <1>1, <1>2, <2>1, AnswerKeeps DEF Asking, Refusal
<1>3. CASE ~RefusedHere(c) /\ Goto(c, "forward")
  BY <1>1, <1>3, AskingKeeps DEF Asking
<1> QED
  BY <1>2, <1>3 DEF Rule

\* Helm lets a human through, and an agent to an irreversible effect, whose
\* approval the gate refuses.
LEMMA GateSeparates ==
  ASSUME Invariant, NEW c \in Callers, call[c].pc = "forward"
  PROVE  /\ Role(c) = "human" \/ Role(c) = "agent"
         /\ Role(c) = "agent" =>
               call[c].a \in Irreversible /\ (call[c].d = "approve" => GateRefuses(c))
<1>1. ~RefusedHere(c) /\ call[c].who \in Sessions
  BY DEF Invariant, LetThrough, Shape, Asking
<1>2. Role(c) \in {"human", "viewer", "agent", "nobody", "liar"}
  BY <1>1 DEF Role, Acts, Sessions
<1> QED
  BY <1>1, <1>2 DEF RefusedHere, GateRefuses

\* What the gate does to the queue and the chain.
LEMMA GateKeeps ==
  ASSUME Invariant, NEW c \in Callers, call[c].pc = "forward", Gate(c)
  PROVE  /\ DOMAIN queue' = Approvals /\ chain \subseteq chain'
         /\ GateRefuses(c) => queue' = queue /\ Line("approval.refused", c) \in chain'
         /\ ~GateDecides(c) => queue' = queue
         /\ GateDecides(c) => queue'[call[c].a] = [state |-> call[c].d, by |-> c]
         /\ \A a \in Approvals :
               \/ queue'[a] = queue[a]
               \/ /\ queue[a].by = None /\ queue'[a].by = c /\ queue'[a].state # "pending"
                  /\ MayDecide(c, a, queue'[a].state)
<1>1. call[c].a \in Approvals /\ DOMAIN queue = Approvals /\ call[c].d \in Decisions
  BY DEF Invariant, Said, Shape, Asking
<1>2. CASE GateRefuses(c)
  BY <1>1, <1>2 DEF Gate, GateDecides
<1>3. CASE GateDecides(c)
  <2>1. ~GateRefuses(c) /\ queue[call[c].a].state = "pending"
    BY <1>3 DEF GateDecides
  <2>2. MayDecide(c, call[c].a, call[c].d)
    BY <1>1, <2>1, GateSeparates DEF Decisions, MayDecide
  <2>3. queue[call[c].a].by = None
    BY <1>1, <2>1 DEF Invariant, LetThrough
  <2>4. queue' = [queue EXCEPT ![call[c].a] = [state |-> call[c].d, by |-> c]]
        /\ chain \subseteq chain'
    BY <1>3, <2>1 DEF Gate
  <2>5. [state |-> call[c].d, by |-> c].by = c /\ [state |-> call[c].d, by |-> c].state # "pending"
    BY <1>1 DEF Decisions
  <2> DEFINE r == [state |-> call[c].d, by |-> c]
  <2>6. queue' = [queue EXCEPT ![call[c].a] = r] /\ r.by = c /\ r.state # "pending"
    BY <2>4, <2>5
  <2> HIDE DEF r
  <2>7. /\ DOMAIN queue' = Approvals /\ queue'[call[c].a] = r
        /\ \A a \in Approvals : a # call[c].a => queue'[a] = queue[a]
    BY <1>1, <2>6
  <2>8. \A a \in Approvals :
           \/ queue'[a] = queue[a]
           \/ /\ queue[a].by = None /\ queue'[a].by = c /\ queue'[a].state # "pending"
              /\ MayDecide(c, a, queue'[a].state)
    <3>1. r.state = call[c].d
      BY DEF r
    <3> QED
      BY <2>2, <2>3, <2>6, <2>7, <3>1
  <2> QED
    BY <1>3, <2>1, <2>4, <2>7, <2>8 DEF r
<1>4. CASE ~GateRefuses(c) /\ ~GateDecides(c)
  BY <1>1, <1>4 DEF Gate
<1> QED
  BY <1>2, <1>3, <1>4


LEMMA ForwardKeeps ==
  ASSUME Invariant, NEW c \in Callers, Forward(c)
  PROVE  Invariant'
<1>1. call[c].pc = "forward" /\ flowed' = flowed
  BY DEF Forward
<1>2. Role(c) = "human" \/ Role(c) = "agent"
  BY <1>1, GateSeparates
<1>3. \A a \in Approvals : queue[a].by # c
  BY <1>1, NotYet DEF Answers
<1>4. DOMAIN queue = Approvals /\ call[c].a \in Approvals
  BY <1>1 DEF Invariant, Said, Asking
<1>5. ASSUME NEW answer \in {"unauthenticated", "unreachable"}, Heard(c, answer),
             UNCHANGED <<queue, chain>>
      PROVE  Invariant'
  <2>1. CASE Role(c) = "agent"
    <3>1. Refuse(c, HeardByAgent(c, answer))
      BY <1>5, <2>1 DEF Heard
    <3>2. Honest(c, HeardByAgent(c, answer))
      BY <1>3, <1>5 DEF Honest, HeardByAgent
    <3> QED
      BY <1>1, <1>4, <1>5, <3>1, <3>2, AnswerKeeps DEF Asking, HeardByAgent
  <2>2. CASE Role(c) = "human"
    <3>1. Close(c, HeardByHuman(c, answer))
      BY <1>5, <2>2 DEF Heard
    <3>2. Honest(c, HeardByHuman(c, answer))
      BY <1>5 DEF Honest, HeardByHuman, Answer
    <3> QED
      BY <1>1, <1>4, <1>5, <3>1, <3>2, AnswerKeeps DEF Asking
  <2> QED
    BY <1>2, <2>1, <2>2
<1>6. ASSUME NEW answer, Gate(c), Heard(c, answer),
             \/ answer = "unreachable"
             \/ answer = IF GateRefuses(c) THEN "refused"
                         ELSE IF GateDecides(c) THEN "decided" ELSE "conflict"
      PROVE  Invariant'
  <2>1. /\ DOMAIN queue' = Approvals /\ chain \subseteq chain'
        /\ GateRefuses(c) => queue' = queue /\ Line("approval.refused", c) \in chain'
        /\ GateDecides(c) => queue'[call[c].a] = [state |-> call[c].d, by |-> c]
        /\ \A a \in Approvals :
              \/ queue'[a] = queue[a]
              \/ /\ queue[a].by = None /\ queue'[a].by = c /\ queue'[a].state # "pending"
                 /\ MayDecide(c, a, queue'[a].state)
    BY <1>1, <1>6, GateKeeps
  <2>2. CASE Role(c) = "agent"
    <3>1. Refuse(c, HeardByAgent(c, answer))
      BY <1>6, <2>2 DEF Heard
    <3>2. Honest(c, HeardByAgent(c, answer))
      <4>1. \A a \in Approvals : queue'[a].by = c => queue'[a].state = "reject"
        BY <1>3, <2>1, <2>2 DEF MayDecide
      <4>2. answer = "refused" => GateRefuses(c)
        BY <1>6
      <4> QED
        BY <2>1, <2>2, <4>1, <4>2 DEF Honest, HeardByAgent, Line
    <3> QED
      BY <1>1, <2>1, <3>1, <3>2, AnswerKeeps DEF Asking, HeardByAgent
  <2>3. CASE Role(c) = "human"
    <3>1. HeardByHuman(c, answer).status = "ok" => GateDecides(c)
      BY <1>6 DEF HeardByHuman, Answer, Refusal
    <3>2. HeardByHuman(c, answer).status = "refused" => answer = "refused"
      BY DEF HeardByHuman, Answer, Refusal
    <3>3. answer = "refused" => GateRefuses(c)
      BY <1>6
    <3>4. /\ ~HeardByHuman(c, answer).ledgered
          /\ HeardByHuman(c, answer).status # "performed"
      BY DEF HeardByHuman, Answer, Refusal
    <3>5. Honest(c, HeardByHuman(c, answer))
      <4> DEFINE out == HeardByHuman(c, answer)
      <4> HIDE DEF out
      <4>1. /\ out.status = "ok" => GateDecides(c)
            /\ out.status = "refused" => queue' = queue
            /\ ~out.ledgered /\ out.status # "performed"
        BY <2>1, <3>1, <3>2, <3>3, <3>4 DEF out
      <4>2. Honest(c, out)
        BY <1>3, <1>4, <2>1, <4>1 DEF Honest
      <4> QED
        BY <4>2 DEF out
    <3>6. \/ Close(c, HeardByHuman(c, answer))
          \/ Refuse(c, HeardByHuman(c, answer)) /\ HeardByHuman(c, answer).status = "refused"
      BY <1>6, <2>3 DEF Heard, HeardByHuman, Refusal
    <3> QED
      BY <1>1, <2>1, <3>5, <3>6, AnswerKeeps DEF Asking
  <2> QED
    BY <1>2, <2>2, <2>3
<1> QED
  BY <1>5, <1>6 DEF Forward

LEMMA NoteKeeps ==
  ASSUME Invariant, NEW c \in Callers, Note(c)
  PROVE  Invariant'
<1>1. call[c].pc = "note" /\ UNCHANGED <<queue, flowed>> /\ DOMAIN queue' = Approvals
      /\ chain \subseteq chain'
  BY DEF Note, Invariant, Said
<1>2. Honest(c, call[c].out)
  BY <1>1 DEF Invariant, Said, TellsTheTruth, AnswersAreTrue, LedgeredIsOnTheChain,
              PerformedHappened, Honest, Line
<1>3. CASE Goto(c, "closed")
  <2>1. Advances(c) /\ call'[c].pc = "closed" /\ call'[c].out = call[c].out
    BY <1>3, GoesOn DEF Invariant
  <2> QED
    BY <1>1, <1>2, <2>1, RequestKeeps DEF Asking, Answers
<1>4. CASE Close(c, call[c].out)
  BY <1>1, <1>2, <1>4, AnswerKeeps DEF Answers
<1>5. CASE Line("helm.refusal", c) \in chain' /\ ~call[c].out.ledgered /\ Close(c, OnRecord)
  <2>1. \A a \in Approvals : queue'[a].by = c => Role(c) = "agent" /\ queue'[a].state = "reject"
    BY <1>1 DEF Invariant, Said, TellsTheTruth, AnswersAreTrue
  <2>2. Honest(c, OnRecord)
    BY <1>5, <2>1 DEF Honest, OnRecord, Line
  <2> QED
    BY <1>1, <1>5, <2>2, AnswerKeeps DEF Answers
<1> QED
  BY <1>3, <1>4, <1>5 DEF Note


LEMMA ReloadKeeps ==
  ASSUME Invariant, NEW c \in Callers, ReloadPosted(c)
  PROVE  Invariant'
<1>1. call[c].pc = "reload" /\ UNCHANGED <<queue, chain>> /\ DOMAIN queue' = Approvals
  BY DEF ReloadPosted, Invariant, Said
<1>2. \A a \in Approvals : queue'[a].by # c
  BY <1>1, NotYet DEF Answers, Asking
<1>3. Honest(c, Answer("refused"))
  BY <1>2 DEF Honest, Answer
<1>4. ASSUME NEW answer \in SirenAnswers,
             flowed' = IF answer = "flowing" THEN flowed \cup {c} ELSE flowed
      PROVE  Honest(c, Answer(Reported(answer)))
  BY <1>2, <1>4 DEF Honest, Answer, Reported, SirenAnswers
<1>5. PICK out : Close(c, out) /\ Honest(c, out) /\ flowed \subseteq flowed'
  <2>1. CASE \E answer \in SirenAnswers :
             /\ flowed' = IF answer = "flowing" THEN flowed \cup {c} ELSE flowed
             /\ \/ Close(c, Answer(Reported(answer))) /\ UNCHANGED faults
                \/ Close(c, Answer("refused")) /\ Fault
    BY <2>1, <1>3, <1>4
  <2>2. CASE Close(c, Answer("refused")) /\ UNCHANGED <<flowed, faults>>
    BY <2>2, <1>3
  <2> QED
    BY <2>1, <2>2 DEF ReloadPosted
<1> QED
  BY <1>1, <1>5, AnswerKeeps

LEMMA AskKeeps ==
  ASSUME Invariant, NEW c \in Callers, Ordered(c) \/ ReloadAsked(c)
  PROVE  Invariant'
<1>1. CASE Ordered(c)
  <2>1. PICK path, by : \E who \in Sessions, a \in Approvals, d \in Decisions :
                Order(c, who, path, a, d, by)
    BY <1>1 DEF Ordered
  <2>2. PICK who \in Sessions, a \in Approvals, d \in Decisions :
                Order(c, who, path, a, d, by)
    BY <2>1
  <2> DEFINE r == [pc |-> "fetch", who |-> who, path |-> path, a |-> a, d |-> d,
                   by |-> by, out |-> NoAnswer]
  <2>3. call[c].pc = "idle" /\ call' = [call EXCEPT ![c] = r]
    BY <2>2 DEF Order
  <2>4. /\ DOMAIN r = {"pc", "who", "path", "a", "d", "by", "out"}
        /\ r.pc = "fetch" /\ r.who \in Sessions /\ r.d \in Decisions /\ r.a \in Approvals
        /\ r.out.status = "none" /\ r.out.ledgered = FALSE
    BY DEF NoAnswer
  <2> HIDE DEF r
  <2> QED
    BY <1>1, <2>3, <2>4, StartKeeps DEF Ordered
<1>2. CASE ReloadAsked(c)
  <2>1. PICK online \in BOOLEAN :
          call' = [call EXCEPT ![c] = [Idle EXCEPT
                      !.pc  = IF online THEN "reload" ELSE "closed",
                      !.out = Answer(IF online THEN "none" ELSE "offline")]]
    BY <1>2 DEF ReloadAsked
  <2> DEFINE pc  == IF online THEN "reload" ELSE "closed"
             out == Answer(IF online THEN "none" ELSE "offline")
             r   == [Idle EXCEPT !.pc = pc, !.out = out]
  <2>2. DOMAIN Idle = {"pc", "who", "path", "a", "d", "by", "out"}
    BY DEF Idle
  <2>3. /\ out.ledgered = FALSE
        /\ (pc = "reload" /\ out.status = "none") \/ (pc = "closed" /\ out.status = "offline")
    BY DEF Answer
  <2>4. call' = [call EXCEPT ![c] = r]
    BY <2>1
  <2> HIDE DEF pc, out
  <2>5. /\ DOMAIN r = {"pc", "who", "path", "a", "d", "by", "out"}
        /\ r.pc = pc /\ r.out = out
    BY <2>2, Zenon
  <2> HIDE DEF r
  <2>6. call[c].pc = "idle" /\ UNCHANGED <<queue, chain, flowed>>
    BY <1>2 DEF ReloadAsked
  <2> QED
    BY <2>3, <2>4, <2>5, <2>6, StartKeeps
<1> QED
  BY <1>1, <1>2

LEMMA NextInvariant ==
  ASSUME Invariant, [Next]_vars
  PROVE  Invariant'
<1>1. CASE \E c \in Callers : DeskStep(c) \/ Ordered(c) \/ ReloadAsked(c)
  BY <1>1, FetchKeeps, RuleKeeps, ForwardKeeps, NoteKeeps, ReloadKeeps, AskKeeps DEF DeskStep
<1>2. CASE UNCHANGED <<queue, call, flowed>> /\ chain \subseteq chain'
  <2>1. Shape' /\ Said'
    BY <1>2 DEF Invariant, Shape, Said
  <2>2. LetThrough'
    <3>1. \A c : Role(c)' = Role(c) /\ RefusedHere(c)' = RefusedHere(c)
      BY <1>2 DEF Role, RefusedHere
    <3> QED
      BY <1>2, <3>1 DEF Invariant, LetThrough, MayDecide
  <2>3. TellsTheTruth'
    BY <1>2 DEF Invariant, TellsTheTruth, AnswersAreTrue, LedgeredIsOnTheChain,
                PerformedHappened, Line, Role
  <2> QED
    BY <2>1, <2>2, <2>3 DEF Invariant
<1> QED
  BY <1>1, <1>2, Moves DEF DeskMoves

\* Nothing is released by an agent, and nothing of the reversible class decided
\* by one, over any route, under any claimed name, whatever the clerk's model
\* asks for, however many requests and turns overlap and whatever gets lost; a
\* viewer, a stranger and a liar decide nothing at all (console.py, decide).
THEOREM OnlyHumansRelease == Spec => []AgentsReleaseNothing
<1>1. Invariant => AgentsReleaseNothing
  BY DEF Invariant, LetThrough, AgentsReleaseNothing
<1> QED
  BY <1>1, InitInvariant, NextInvariant, PTL DEF Spec

\* An answer of the desk is what happened: a decision called ok stands and is
\* the caller's, one called refused was not taken or was an agent's reject, a
\* refusal called ledgered is on the chain under the caller's principal and a
\* reload called performed flowed, whatever gets lost on the way (console.py,
\* decide, ledger_refusal, reload_class).
THEOREM AnswersAreTold == Spec => []TellsTheTruth
<1>1. Invariant => TellsTheTruth
  BY DEF Invariant
<1> QED
  BY <1>1, InitInvariant, NextInvariant, PTL DEF Spec

-----------------------------------------------------------------------------
(* The turns and what served them                                          *)

Flying == {"name", "wait", "chat", "rung", "put", "putname",
           "list", "approve", "answer", "sign"}
Over   == {"close", "done", "gone"}

ServingType == [kind : {"none", "cache", "model"}, rung : 0..Rungs]

TurnType ==
    [pc : {"new", "clear"} \cup Flying \cup Over, q : Questions \cup {None},
     tier : 0..Rungs, rung : 0..Rungs, left : SUBSET Tiers, round : {0, 1},
     phase : {"tools", "phrase"}, cached : BOOLEAN,
     result : {"none", "data", "refused"}, text : BOOLEAN,
     source : {"model", "mock", "cache"}, served : ServedType,
     principal : PrincipalType, last : ServingType \X Models,
     gave : SUBSET ServingType, met : SUBSET Turns]

\* A step of a turn that nobody served in meanwhile.
Continues(f, g) ==
    /\ g \in TurnType
    /\ g.met = f.met /\ g.gave = f.gave /\ g.last = f.last
    /\ g.served = f.served /\ g.principal = f.principal

LEMMA Moved ==
  ASSUME NEW f \in TurnType, NEW pc \in {"new", "clear"} \cup Flying \cup Over
  PROVE  Continues(f, [f EXCEPT !.pc = pc]) /\ [f EXCEPT !.pc = pc].pc = pc
  BY DEF TurnType, Continues

LEMMA Grounded ==
  ASSUME NEW f0 \in TurnType
  PROVE  Continues(f0, Ground(f0)) /\ Ground(f0).pc \in {"answer", "chat"}
<1> DEFINE e == [f0 EXCEPT !.result = "data", !.text = FALSE]
           f == IF f0.result = "none" /\ f0.q = "data" THEN e ELSE f0
<1>1. f \in TurnType /\ Continues(f0, f)
  <2>1. Continues(f0, e)
    BY DEF TurnType, Continues
  <2> HIDE DEF e
  <2>2. f = e \/ f = f0
    OBVIOUS
  <2> QED
    BY <2>1, <2>2 DEF Continues
<1> DEFINE a == [f EXCEPT !.pc = "answer", !.source = "model"]
           b == [f EXCEPT !.pc = "chat", !.phase = "phrase"]
           c == [f EXCEPT !.pc = "answer"]
<1>2. \/ Ground(f0) = a
      \/ Ground(f0) = b
      \/ Ground(f0) = c
  <2>1. CASE f.result = "none"
    BY <2>1 DEF Ground
  <2>2. CASE f.result # "none" /\ (f.result = "data" /\ ~f.text)
    BY <2>2 DEF Ground
  <2>3. CASE f.result # "none" /\ ~(f.result = "data" /\ ~f.text)
    BY <2>3 DEF Ground
  <2> QED
    BY <2>1, <2>2, <2>3
<1> HIDE DEF f
<1>3. Continues(f, a) /\ a.pc = "answer"
  BY <1>1 DEF TurnType, Continues, Flying
<1>4. Continues(f, b) /\ b.pc = "chat"
  BY <1>1 DEF TurnType, Continues, Flying
<1>5. Continues(f, c) /\ c.pc = "answer"
  BY <1>1 DEF TurnType, Continues, Flying
<1> HIDE DEF a, b, c
<1> QED
  BY <1>1, <1>2, <1>3, <1>4, <1>5 DEF Continues

LEMMA Rounded ==
  ASSUME NEW f \in TurnType
  PROVE  Continues(f, NextRound(f)) /\ NextRound(f).pc \in {"answer", "chat"}
<1>1. /\ Continues(f, [f EXCEPT !.pc = "chat", !.round = 1])
      /\ [f EXCEPT !.pc = "chat", !.round = 1].pc = "chat"
  BY DEF TurnType, Continues, Flying
<1> QED
  BY <1>1, Grounded DEF NextRound

LEMMA Least ==
  ASSUME NEW X \in SUBSET Nat, X # {}
  PROVE  \E r \in X : \A q \in X : r <= q
<1>1. IsWellFoundedOn(OpToRel(<, Nat), Nat)
  BY NatLessThanWellFounded
<1>2. PICK r \in X : \A q \in X : ~(<<q, r>> \in OpToRel(<, Nat))
  BY <1>1, WFMin
<1>3. ASSUME NEW q \in X
      PROVE  r <= q
  <2>1. q \in Nat /\ r \in Nat
    OBVIOUS
  <2>2. ~(q < r)
    BY <1>2, <2>1 DEF OpToRel
  <2> QED
    BY <2>1, <2>2
<1> QED
  BY <1>3

LEMMA FirstOf ==
  ASSUME NEW X \in SUBSET Tiers
  PROVE  /\ First(X) \in 0..Rungs
         /\ X = {} => First(X) = 0
         /\ X # {} => First(X) \in X /\ \A q \in X : First(X) <= q
         /\ \A r \in X : (\A q \in X : r <= q) => First(X) = r
<1>1. Rungs \in Nat /\ X \in SUBSET Nat
  BY ClerkAssumption DEF Tiers
<1>2. CASE X = {}
  BY <1>1, <1>2 DEF First
<1>3. CASE X # {}
  <2>1. \E r \in X : \A q \in X : r <= q
    BY <1>1, <1>3, Least
  <2>2. First(X) = CHOOSE r \in X : \A q \in X : r <= q
    BY <1>3 DEF First
  <2>3. First(X) \in X /\ \A q \in X : First(X) <= q
    BY <2>1, <2>2
  <2>4. First(X) \in 1..Rungs
    BY <2>3 DEF Tiers
  <2>5. First(X) \in 0..Rungs
    BY <1>1, <2>4
  <2>6. \A r \in X : (\A q \in X : r <= q) => First(X) = r
    <3> SUFFICES ASSUME NEW r \in X, \A q \in X : r <= q PROVE First(X) = r
      OBVIOUS
    <3>1. r \in Nat /\ First(X) \in Nat /\ r <= First(X) /\ First(X) <= r
      BY <1>1, <2>3
    <3> QED
      BY <3>1
  <2> QED
    BY <1>3, <2>3, <2>5, <2>6
<1> QED
  BY <1>2, <1>3

LEMMA WentDown ==
  ASSUME NEW f0 \in TurnType
  PROVE  /\ Continues(f0, Down(f0))
         /\ Down(f0).pc \in {f0.pc, "answer", "chat"}
<1> DEFINE next == First(f0.left)
<1>1. f0.left \in SUBSET Tiers /\ f0.phase \in {"tools", "phrase"}
  BY DEF TurnType
<1>2. next \in 0..Rungs
  BY <1>1, FirstOf
<1> DEFINE f == [f0 EXCEPT !.rung = next, !.left = @ \ {next}]
<1> DEFINE a == [f EXCEPT !.pc = "answer", !.source = "mock"]
<1> HIDE DEF next
<1>3. f \in TurnType /\ Continues(f0, f) /\ f.pc = f0.pc /\ f.phase = f0.phase
  BY <1>2 DEF TurnType, Continues
<1>4. \/ Down(f0) = f
      \/ Down(f0) = Ground(f)
      \/ Down(f0) = a
  <2>1. CASE next # 0
    BY <2>1 DEF Down, next
  <2>2. CASE next = 0 /\ f.phase = "tools"
    BY <2>2 DEF Down, next
  <2>3. CASE next = 0 /\ f.phase = "phrase"
    BY <2>3 DEF Down, next
  <2> QED
    BY <1>1, <1>3, <2>1, <2>2, <2>3
<1> HIDE DEF f
<1>5. Continues(f, a) /\ a.pc = "answer"
  BY <1>3 DEF TurnType, Continues, Flying
<1>6. Continues(f, Ground(f)) /\ Ground(f).pc \in {"answer", "chat"}
  BY <1>3, Grounded
<1> HIDE DEF a
<1> QED
  BY <1>3, <1>4, <1>5, <1>6 DEF Continues

LEMMA AfterReply ==
  ASSUME NEW t \in Turns, NEW f0 \in TurnType, Replied(t, f0)
  PROVE  \E g : /\ Set(t, g) /\ Continues(f0, g)
                /\ g.pc \in {"answer", "chat", "list"}
<1> DEFINE f == [f0 EXCEPT !.source = IF f0.cached THEN "cache" ELSE "model"]
<1>1. f \in TurnType /\ Continues(f0, f)
  BY DEF TurnType, Continues
<1> DEFINE a == [f EXCEPT !.pc = "answer", !.text = TRUE]
           b == [f EXCEPT !.text = TRUE]
           c == [f EXCEPT !.result = IF @ = "refused" THEN @ ELSE "data"]
           d == [f EXCEPT !.pc = "list"]
<1>2. \/ Set(t, a)
      \/ Set(t, Ground(b))
      \/ Set(t, NextRound(c))
      \/ Set(t, d)
  BY DEF Replied
<1> HIDE DEF f
<1>3. /\ Continues(f, a) /\ a.pc = "answer"
      /\ Continues(f, d) /\ d.pc = "list"
      /\ Continues(f, b) /\ Continues(f, c)
  <2>1. Continues(f, a) /\ a.pc = "answer"
    BY <1>1 DEF TurnType, Continues, Flying
  <2>2. Continues(f, d) /\ d.pc = "list"
    BY <1>1 DEF TurnType, Continues, Flying
  <2>3. Continues(f, b)
    BY <1>1 DEF TurnType, Continues
  <2>4. Continues(f, c)
    BY <1>1 DEF TurnType, Continues
  <2> QED
    BY <2>1, <2>2, <2>3, <2>4
<1> HIDE DEF a, b, c, d
<1>4. /\ Continues(b, Ground(b)) /\ Ground(b).pc \in {"answer", "chat"}
      /\ Continues(c, NextRound(c)) /\ NextRound(c).pc \in {"answer", "chat"}
  BY <1>3, Grounded, Rounded DEF Continues
<1> QED
  BY <1>1, <1>2, <1>3, <1>4 DEF Continues

LEMMA AfterAttempt ==
  ASSUME NEW f \in TurnType, NEW result \in {"data", "refused"}
  PROVE  /\ Continues(f, Attempted(f, result))
         /\ Attempted(f, result).pc \in {"answer", "chat"}
<1> DEFINE a == [f EXCEPT !.pc = "answer", !.result = result]
           b == [f EXCEPT !.result = result]
<1>1. Continues(f, a) /\ a.pc = "answer" /\ Continues(f, b)
  BY DEF TurnType, Continues, Flying
<1>2. Attempted(f, result) = a \/ Attempted(f, result) = NextRound(b)
  BY DEF Attempted
<1> HIDE DEF a, b
<1>3. Continues(b, NextRound(b)) /\ NextRound(b).pc \in {"answer", "chat"}
  BY <1>1, Rounded DEF Continues
<1> QED
  BY <1>1, <1>2, <1>3 DEF Continues

\* Nobody has answered a turn that is waiting for the ladder.
Fresh(t) ==
    turn[t].pc \in {"new", "clear", "name", "wait"} => turn[t].last = <<Nothing, 0>>

\* Between the two attributes of a live answer, the second is known.
Halfway(t) ==
    turn[t].pc = "putname" =>
        turn[t].last = <<[kind |-> "model", rung |-> turn[t].rung],
                         ModelName(turn[t].rung)>>

\* A turn in flight that met nobody finds in the attributes what it put there.
Alone(t) ==
    turn[t].pc \in Flying /\ turn[t].met = {} =>
        /\ serving = turn[t].last[1]
        /\ turn[t].pc \notin {"name", "putname"} /\ turn[t].last[1].kind = "model" =>
               reported = turn[t].last[2]

\* What a turn and those it met were served by.
Given(t) == UNION {turn[u].gave : u \in turn[t].met \cup {t}}

\* What is read for the answer is what the properties ask of it.
Answering(t) ==
    turn[t].pc \in {"sign"} \cup Over =>
        /\ turn[t].met = {} =>
               turn[t].served = Served(turn[t].last[1], turn[t].last[2])
        /\ turn[t].served.source # "none" =>
               [kind |-> turn[t].served.source, rung |-> turn[t].served.rung] \in Given(t)

Signing(t) ==
    turn[t].pc \in Over /\ turn[t].met = {} =>
        turn[t].principal = Principal(turn[t].last[1], turn[t].last[2])

Own(t) == Fresh(t) /\ Halfway(t) /\ Alone(t) /\ Answering(t) /\ Signing(t)

\* Two turns in flight have met, and what serves now was given to one of those
\* every turn in flight has met.
TurnsAgree ==
    /\ turn \in [Turns -> TurnType]
    /\ serving \in ServingType /\ reported \in Models
    /\ \A t, u \in Turns :
          t # u /\ turn[t].pc \in Flying /\ turn[u].pc \in Flying => u \in turn[t].met
    /\ \A t \in Turns :
          turn[t].pc \in Flying /\ serving.kind # "none" => serving \in Given(t)
    /\ \A t \in Turns : Own(t)

\* No step but a sign-out takes a turn from its user.
NobodyLeaves ==
    \A u \in Turns : turn'[u].pc = "gone" => turn[u].pc = "gone"

LEMMA OthersAgree ==
  ASSUME TurnsAgree, NEW t \in Turns, NEW g \in TurnType, Set(t, g),
         g.met = turn[t].met, turn[t].gave \subseteq g.gave,
         g.pc # "gone", g.pc \in Flying => turn[t].pc \in Flying,
         serving' \in ServingType, reported' \in Models,
         turn[t].pc \in Flying \/ (serving' = serving /\ reported' = reported),
         serving' = serving \/ serving' \in g.gave,
         Own(t)'
  PROVE  TurnsAgree' /\ NobodyLeaves
<1>1. /\ turn' \in [Turns -> TurnType] /\ turn'[t] = g
      /\ \A u \in Turns : u # t => turn'[u] = turn[u]
      /\ \A u \in Turns : turn'[u].met = turn[u].met /\ turn[u].gave \subseteq turn'[u].gave
      /\ \A u \in Turns : turn'[u].pc \in Flying => turn[u].pc \in Flying
  BY DEF TurnsAgree, Set
<1>2. \A u \in Turns : turn[u].met \subseteq Turns
  BY DEF TurnsAgree, TurnType
<1>3. \A u, v \in Turns :
         u # v /\ turn'[u].pc \in Flying /\ turn'[v].pc \in Flying => v \in turn'[u].met
  BY <1>1 DEF TurnsAgree
<1>4. \A u \in Turns : Given(u) \subseteq Given(u)'
  <2> SUFFICES ASSUME NEW u \in Turns, NEW s \in Given(u) PROVE s \in Given(u)'
    OBVIOUS
  <2>1. PICK v \in turn[u].met \cup {u} : s \in turn[v].gave
    BY DEF Given
  <2>2. v \in Turns /\ s \in turn'[v].gave /\ v \in turn'[u].met \cup {u}
    BY <1>1, <1>2, <2>1
  <2> QED
    BY <2>2 DEF Given
<1>5. ASSUME NEW u \in Turns, turn'[u].pc \in Flying, serving'.kind # "none"
      PROVE  serving' \in Given(u)'
  <2>1. CASE serving' = serving
    BY <1>1, <1>4, <1>5, <2>1 DEF TurnsAgree
  <2>2. CASE serving' # serving
    <3>1. serving' \in turn'[t].gave /\ turn[t].pc \in Flying
      BY <1>1, <2>2
    <3>2. t \in turn'[u].met \cup {u}
      BY <1>1, <1>5, <3>1 DEF TurnsAgree
    <3> QED
      BY <3>1, <3>2 DEF Given
  <2> QED
    BY <2>1, <2>2
<1>6. ASSUME NEW u \in Turns, u # t
      PROVE  Own(u)'
  <2>1. turn'[u] = turn[u] /\ Own(u)
    BY <1>1, <1>6 DEF TurnsAgree
  <2>2. Fresh(u)' /\ Halfway(u)' /\ Signing(u)'
    BY <2>1 DEF Own, Fresh, Halfway, Signing
  <2>3. Answering(u)'
    BY <1>4, <2>1 DEF Own, Answering
  <2>4. Alone(u)'
    <3>1. CASE serving' = serving /\ reported' = reported
      BY <2>1, <3>1 DEF Own, Alone
    <3>2. CASE turn[t].pc \in Flying
      <4>1. turn[u].pc \in Flying => t \in turn[u].met
        BY <1>6, <3>2 DEF TurnsAgree
      <4> QED
        BY <2>1, <4>1 DEF Alone
    <3> QED
      BY <3>1, <3>2
  <2> QED
    BY <2>2, <2>3, <2>4 DEF Own
<1>7. \A u \in Turns : Own(u)'
  BY <1>6
<1>8. NobodyLeaves
  BY <1>1 DEF NobodyLeaves
<1> HIDE DEF Flying
<1> QED
  BY <1>1, <1>3, <1>5, <1>7, <1>8 DEF TurnsAgree

\* A step of a turn in flight that leaves the attributes alone.
LEMMA FliesOn ==
  ASSUME TurnsAgree, NEW t \in Turns, NEW g, Set(t, g), Continues(turn[t], g),
         turn[t].pc \in Flying \ {"name", "putname", "sign"},
         g.pc \in {"chat", "rung", "put", "list", "approve", "answer"},
         serving' = serving, reported' = reported
  PROVE  TurnsAgree' /\ NobodyLeaves
<1>1. turn'[t] = g /\ g \in TurnType
  BY DEF TurnsAgree, Set, Continues
<1>2. /\ g.met = turn[t].met /\ g.last = turn[t].last
      /\ turn[t].pc \in Flying /\ turn[t].pc \notin {"name", "putname"}
      /\ g.pc \in Flying /\ g.pc \notin {"new", "clear", "name", "wait", "putname", "sign"}
      /\ g.pc \notin Over /\ g.pc # "gone"
  BY DEF Continues, Flying, Over
<1>3. Alone(t)
  BY DEF TurnsAgree, Own
<1>4. Alone(t)'
  BY <1>1, <1>2, <1>3 DEF Alone
<1>5. Own(t)'
  BY <1>1, <1>2, <1>4 DEF Own, Fresh, Halfway, Answering, Signing
<1>6. turn[t].gave \subseteq g.gave /\ serving' \in ServingType /\ reported' \in Models
  BY DEF Continues, TurnsAgree
<1> QED
  BY <1>1, <1>2, <1>5, <1>6, OthersAgree

LEMMA ServedAsKind ==
  ASSUME NEW s \in ServingType, NEW name \in Models
  PROVE  /\ Served(s, name) \in ServedType
         /\ Principal(s, name) \in PrincipalType
         /\ Served(s, name).source = s.kind
         /\ s.kind # "none" => Served(s, name).rung = s.rung
         /\ s.kind # "model" => \A n : Served(s, n) = Served(s, name)
                                    /\ Principal(s, n) = Principal(s, name)
<1>1. /\ s.kind \in {"none", "cache", "model"} /\ s.rung \in 0..Rungs
      /\ 0 \in 0..Rungs /\ 0..Rungs \subseteq Models
  BY ClerkAssumption DEF ServingType, Models
<1>2. CASE s.kind = "none"
  BY <1>1, <1>2 DEF Served, Principal, Blank, ServedType, PrincipalType
<1>3. CASE s.kind = "cache"
  BY <1>1, <1>3 DEF Served, Principal, ServedType, PrincipalType
<1>4. CASE s.kind = "model"
  BY <1>1, <1>4 DEF Served, Principal, ServedType, PrincipalType
<1> QED
  BY <1>1, <1>2, <1>3, <1>4

LEMMA AskAgrees ==
  ASSUME TurnsAgree, NEW t \in Turns, NEW q \in Questions, Ask(t, q)
  PROVE  TurnsAgree' /\ NobodyLeaves
<1> DEFINE g == [turn[t] EXCEPT !.pc = "clear", !.q = q]
<1>1. turn[t] \in TurnType /\ turn[t].pc = "new" /\ Set(t, g)
      /\ serving' = serving /\ reported' = reported /\ Own(t)
  BY DEF Ask, At, TurnsAgree
<1>2. g \in TurnType /\ g.pc = "clear" /\ g.met = turn[t].met /\ g.gave = turn[t].gave
      /\ g.last = turn[t].last
  BY <1>1 DEF TurnType
<1> HIDE DEF g
<1>3. turn'[t] = g
  BY <1>1 DEF Set, TurnsAgree
<1>4. Own(t)'
  BY <1>1, <1>2, <1>3 DEF Own, Fresh, Halfway, Alone, Answering, Signing, Flying, Over
<1>5. g.pc \notin Flying
  BY <1>2 DEF Flying
<1> QED
  BY <1>1, <1>2, <1>4, <1>5, OthersAgree DEF TurnsAgree

LEMMA ClearAgrees ==
  ASSUME TurnsAgree, NEW t \in Turns, Clear(t)
  PROVE  TurnsAgree' /\ NobodyLeaves
<1> DEFINE M == {v \in Turns \ {t} : InFlight(v)}
<1> DEFINE g == [turn[t] EXCEPT !.pc = "name", !.met = M]
<1> DEFINE h(u) == [turn[u] EXCEPT !.met = @ \cup {t}]
<1>1. /\ turn[t].pc = "clear" /\ serving' = Cleared /\ reported' = reported
      /\ turn' = [u \in Turns |-> IF u = t THEN g
                                  ELSE IF InFlight(u) THEN h(u) ELSE turn[u]]
  BY DEF Clear, At
<1>2. \A u \in Turns : /\ turn[u] \in TurnType
                       /\ (InFlight(u) <=> turn[u].pc \in Flying)
                       /\ Own(u)
  BY DEF TurnsAgree, InFlight, Flying
<1>3. M \in SUBSET Turns
  OBVIOUS
<1>4. /\ g \in TurnType /\ g.pc = "name" /\ g.met = M /\ g.gave = turn[t].gave
      /\ g.last = turn[t].last
  <2>1. turn[t] \in TurnType
    BY <1>2
  <2> HIDE DEF M
  <2> QED
    BY <1>3, <2>1 DEF TurnType, Flying
<1>5. ASSUME NEW u \in Turns
      PROVE  /\ h(u) \in TurnType /\ h(u).pc = turn[u].pc
             /\ h(u).met = turn[u].met \cup {t} /\ h(u).gave = turn[u].gave
             /\ h(u).last = turn[u].last /\ h(u).served = turn[u].served
             /\ h(u).principal = turn[u].principal /\ h(u).rung = turn[u].rung
  BY <1>2 DEF TurnType
<1> HIDE DEF g, h
<1>6. /\ turn' \in [Turns -> TurnType]
      /\ turn'[t] = g
      /\ \A u \in Turns : u # t /\ turn[u].pc \in Flying => turn'[u] = h(u)
      /\ \A u \in Turns : u # t /\ turn[u].pc \notin Flying => turn'[u] = turn[u]
  BY <1>1, <1>2, <1>4, <1>5
<1>7. \A u \in Turns : /\ turn'[u].gave = turn[u].gave
                       /\ u # t => turn'[u].pc = turn[u].pc /\ turn[u].met \subseteq turn'[u].met
                       /\ u # t /\ turn[u].pc \in Flying => t \in turn'[u].met
  BY <1>4, <1>5, <1>6
<1>8. \A u, v \in Turns :
         u # v /\ turn'[u].pc \in Flying /\ turn'[v].pc \in Flying => v \in turn'[u].met
  <2> SUFFICES ASSUME NEW u \in Turns, NEW v \in Turns, u # v,
                      turn'[u].pc \in Flying, turn'[v].pc \in Flying
      PROVE v \in turn'[u].met
    OBVIOUS
  <2>1. CASE u = t
    <3>1. InFlight(v) /\ v \in M
      BY <1>2, <1>7, <2>1
    <3> QED
      BY <1>4, <1>6, <2>1, <3>1
  <2>2. CASE u # t /\ v = t
    BY <1>7, <2>2
  <2>3. CASE u # t /\ v # t
    BY <1>7, <2>3 DEF TurnsAgree
  <2> QED
    BY <2>1, <2>2, <2>3
<1>9. serving' = Nothing /\ serving' \in ServingType /\ serving'.kind = "none"
  BY <1>1, ClerkAssumption DEF Cleared, Nothing, ServingType
<1>10. \A u \in Turns : u # t => Given(u) \subseteq Given(u)'
  <2> SUFFICES ASSUME NEW u \in Turns, u # t, NEW s \in Given(u) PROVE s \in Given(u)'
    OBVIOUS
  <2>1. PICK v \in turn[u].met \cup {u} : s \in turn[v].gave
    BY DEF Given
  <2>2. v \in Turns
    BY <1>2, <2>1 DEF TurnType
  <2>3. s \in turn'[v].gave /\ v \in turn'[u].met \cup {u}
    BY <1>7, <2>1, <2>2
  <2> QED
    BY <2>3 DEF Given
<1>11. Own(t)'
  <2>1. turn[t].last = <<Nothing, 0>>
    BY <1>1, <1>2 DEF Own, Fresh
  <2> QED
    BY <1>4, <1>6, <1>9, <2>1 DEF Own, Fresh, Halfway, Alone, Answering, Signing, Flying, Over
<1>12. ASSUME NEW u \in Turns, u # t, turn[u].pc \in Flying
       PROVE  Own(u)'
  <2>1. turn'[u] = h(u) /\ turn'[u].met # {}
    BY <1>5, <1>6, <1>12
  <2>2. Own(u)
    BY <1>2
  <2>3. turn[u].pc \notin Over
    BY <1>12 DEF Flying, Over
  <2> QED
    BY <1>5, <1>10, <1>12, <2>1, <2>2, <2>3 DEF Own, Fresh, Halfway, Alone, Answering, Signing
<1>13. ASSUME NEW u \in Turns, u # t, turn[u].pc \notin Flying
       PROVE  Own(u)'
  <2>1. turn'[u] = turn[u]
    BY <1>6, <1>13
  <2>2. Own(u)
    BY <1>2
  <2> QED
    BY <1>10, <1>13, <2>1, <2>2 DEF Own, Fresh, Halfway, Alone, Answering, Signing
<1>14. NobodyLeaves
  BY <1>4, <1>5, <1>6 DEF NobodyLeaves
<1> QED
  BY <1>1, <1>6, <1>14, <1>8, <1>9, <1>11, <1>12, <1>13 DEF TurnsAgree

LEMMA ClearNameAgrees ==
  ASSUME TurnsAgree, NEW t \in Turns, ClearName(t)
  PROVE  TurnsAgree' /\ NobodyLeaves
<1> DEFINE g == [turn[t] EXCEPT !.pc = "wait"]
<1>1. turn[t] \in TurnType /\ turn[t].pc = "name" /\ Set(t, g)
      /\ serving' = serving /\ reported' = 0 /\ Own(t)
  BY DEF ClearName, At, TurnsAgree
<1>2. g \in TurnType /\ g.pc = "wait" /\ g.met = turn[t].met /\ g.gave = turn[t].gave
      /\ g.last = turn[t].last
  BY <1>1 DEF TurnType, Flying
<1> HIDE DEF g
<1>3. turn'[t] = g
  BY <1>1 DEF Set, TurnsAgree
<1>4. turn[t].last = <<Nothing, 0>> /\ Nothing.kind = "none"
  BY <1>1 DEF Own, Fresh, Nothing
<1>5. turn[t].pc \in Flying /\ reported' \in Models
  BY <1>1, ClerkAssumption DEF Flying, Models
<1>6. Own(t)'
  BY <1>1, <1>2, <1>3, <1>4, <1>5 DEF Own, Fresh, Halfway, Alone, Answering, Signing, Over
<1> QED
  BY <1>1, <1>2, <1>5, <1>6, OthersAgree DEF TurnsAgree

LEMMA NamedIsModel ==
  ASSUME NEW r \in 0..Rungs
  PROVE  ModelName(r) \in Models
  BY DEF ModelName, Models

LEMMA PutAgrees ==
  ASSUME TurnsAgree, NEW t \in Turns, Put(t)
  PROVE  TurnsAgree' /\ NobodyLeaves
<1> DEFINE f == turn[t]
           s == [kind |-> IF f.cached THEN "cache" ELSE "model", rung |-> f.rung]
           n == IF f.cached THEN 0 ELSE ModelName(s.rung)
           g == [f EXCEPT !.gave = @ \cup {s}, !.last = <<s, n>>]
           h == [g EXCEPT !.pc = "putname"]
<1>1. /\ f \in TurnType /\ f.pc = "put" /\ serving' = s /\ reported' = reported
      /\ f.cached => Replied(t, g)
      /\ ~f.cached => Set(t, h)
  BY DEF Put, At, TurnsAgree
<1>2. f.cached \in BOOLEAN /\ f.rung \in 0..Rungs
  BY <1>1 DEF TurnType
<1>3. /\ s \in ServingType /\ s.rung = f.rung
      /\ f.cached => s.kind = "cache"
      /\ ~f.cached => s = [kind |-> "model", rung |-> f.rung] /\ n = ModelName(f.rung)
  BY <1>2 DEF ServingType
<1>4. n \in Models
  BY <1>2, <1>3, NamedIsModel, ClerkAssumption DEF Models
<1> HIDE DEF s, n
<1>5. /\ g \in TurnType /\ g.met = f.met /\ g.gave = f.gave \cup {s}
      /\ g.last = <<s, n>> /\ g.rung = f.rung
  BY <1>1, <1>3, <1>4 DEF TurnType
<1> HIDE DEF g
<1>6. h \in TurnType /\ h.pc = "putname" /\ h.met = g.met /\ h.gave = g.gave
      /\ h.last = g.last /\ h.rung = g.rung
  BY <1>5 DEF TurnType, Flying
<1> HIDE DEF h
<1>7. turn[t].pc \in Flying /\ reported' \in Models
  BY <1>1 DEF Flying, TurnsAgree
<1>8. CASE f.cached
  <2>1. PICK z : /\ Set(t, z) /\ Continues(g, z) /\ z.pc \in {"answer", "chat", "list"}
    BY <1>1, <1>5, <1>8, AfterReply
  <2>2. /\ z \in TurnType /\ turn'[t] = z /\ z.met = turn[t].met /\ z.gave = turn[t].gave \cup {s}
        /\ z.last = <<s, n>>
    BY <1>5, <2>1 DEF Continues, Set, TurnsAgree
  <2>3. z.last[1] = s /\ s.kind = "cache"
    BY <1>3, <1>8, <2>2
  <2>4. Own(t)'
    BY <1>1, <2>1, <2>2, <2>3 DEF Own, Fresh, Halfway, Alone, Answering, Signing, Over
  <2>5. turn[t].gave \subseteq z.gave /\ serving' \in z.gave /\ serving' \in ServingType
    BY <1>1, <1>3, <2>2
  <2> QED
    BY <1>7, <2>1, <2>2, <2>4, <2>5, OthersAgree
<1>9. CASE ~f.cached
  <2>1. /\ Set(t, h) /\ turn'[t] = h /\ h.met = turn[t].met /\ h.gave = turn[t].gave \cup {s}
        /\ h.last = <<s, n>> /\ h.rung = f.rung
    BY <1>1, <1>5, <1>6, <1>9 DEF Set, TurnsAgree
  <2>2. h.last[1] = s /\ h.last = <<[kind |-> "model", rung |-> h.rung], ModelName(h.rung)>>
    BY <1>3, <1>9, <2>1
  <2>3. Own(t)'
    BY <1>1, <1>6, <2>1, <2>2 DEF Own, Fresh, Halfway, Alone, Answering, Signing, Over
  <2>4. turn[t].gave \subseteq h.gave /\ serving' \in h.gave /\ serving' \in ServingType
    BY <1>1, <1>3, <2>1
  <2> QED
    BY <1>6, <1>7, <2>1, <2>3, <2>4, OthersAgree
<1> QED
  BY <1>2, <1>8, <1>9

LEMMA PutNameAgrees ==
  ASSUME TurnsAgree, NEW t \in Turns, PutName(t)
  PROVE  TurnsAgree' /\ NobodyLeaves
<1>1. /\ turn[t] \in TurnType /\ turn[t].pc = "putname" /\ serving' = serving
      /\ reported' = ModelName(turn[t].rung) /\ Replied(t, turn[t]) /\ Own(t)
  BY DEF PutName, At, TurnsAgree
<1>2. PICK z : /\ Set(t, z) /\ Continues(turn[t], z) /\ z.pc \in {"answer", "chat", "list"}
  BY <1>1, AfterReply
<1>3. /\ z \in TurnType /\ turn'[t] = z /\ z.met = turn[t].met /\ z.gave = turn[t].gave
      /\ z.last = turn[t].last
  BY <1>2 DEF Continues, Set, TurnsAgree
<1>4. turn[t].pc \in Flying /\ serving' \in ServingType /\ reported' \in Models
  BY <1>1, NamedIsModel DEF Flying, TurnsAgree, TurnType
<1>5. turn[t].last[2] = ModelName(turn[t].rung)
  BY <1>1 DEF Own, Halfway
<1>6. Own(t)'
  BY <1>1, <1>2, <1>3, <1>4, <1>5 DEF Own, Fresh, Halfway, Alone, Answering, Signing, Over
<1> QED
  BY <1>1, <1>2, <1>3, <1>4, <1>6, OthersAgree

LEMMA AnsweredAgrees ==
  ASSUME TurnsAgree, NEW t \in Turns, Answered(t)
  PROVE  TurnsAgree' /\ NobodyLeaves
<1> DEFINE s == AnsweredBy(t)
           w == IF s.source = "none" /\ turn[t].source = "model" THEN "mock" ELSE turn[t].source
           g == [turn[t] EXCEPT !.pc = "sign", !.served = s, !.source = w]
<1>1. /\ turn[t] \in TurnType /\ turn[t].pc = "answer" /\ Set(t, g)
      /\ serving' = serving /\ reported' = reported /\ Own(t)
  BY DEF Answered, At, TurnsAgree
<1>2. /\ s = Served(serving, reported) /\ s \in ServedType /\ s.source = serving.kind
      /\ serving.kind # "none" => s.rung = serving.rung
      /\ serving.kind # "model" => \A n : Served(serving, n) = s
  BY ServedAsKind DEF TurnsAgree, AnsweredBy
<1> HIDE DEF s
<1>3. w \in {"model", "mock", "cache"}
  BY <1>1 DEF TurnType
<1> HIDE DEF w
<1>4. /\ g \in TurnType /\ g.pc = "sign" /\ g.met = turn[t].met /\ g.gave = turn[t].gave
      /\ g.last = turn[t].last /\ g.served = s
  BY <1>1, <1>2, <1>3 DEF TurnType, Flying
<1> HIDE DEF g
<1>5. turn'[t] = g /\ \A u \in Turns : turn'[u].gave = turn[u].gave
  BY <1>1, <1>4 DEF Set, TurnsAgree
<1>6. turn[t].pc \in Flying /\ turn[t].pc \notin {"name", "putname"}
  BY <1>1 DEF Flying
<1>7. turn[t].met = {} => s = Served(turn[t].last[1], turn[t].last[2])
  BY <1>1, <1>2, <1>6 DEF Own, Alone
<1>8. s.source # "none" => [kind |-> s.source, rung |-> s.rung] \in Given(t)
  <2>1. serving \in ServingType /\ (serving.kind # "none" => serving \in Given(t))
    BY <1>6 DEF TurnsAgree
  <2>2. serving = [kind |-> serving.kind, rung |-> serving.rung]
    BY <2>1 DEF ServingType
  <2> QED
    BY <1>2, <2>1, <2>2
<1>9. Given(t)' = Given(t)
  <2>1. turn[t].met \subseteq Turns /\ turn'[t].met = turn[t].met
    BY <1>1, <1>4, <1>5 DEF TurnType
  <2> QED
    BY <1>5, <2>1 DEF Given
<1>10. Alone(t)'
  BY <1>1, <1>4, <1>5, <1>6 DEF Own, Alone
<1>11. Answering(t)'
  BY <1>4, <1>5, <1>7, <1>8, <1>9 DEF Answering
<1>12. Own(t)'
  BY <1>4, <1>5, <1>10, <1>11 DEF Own, Fresh, Halfway, Signing, Over
<1> QED
  BY <1>1, <1>4, <1>6, <1>12, OthersAgree DEF TurnsAgree

LEMMA SignAgrees ==
  ASSUME TurnsAgree, NEW t \in Turns, Sign(t)
  PROVE  TurnsAgree' /\ NobodyLeaves
<1> DEFINE p == Principal(serving, reported)
           g == [turn[t] EXCEPT !.pc = "close", !.principal = p]
<1>1. /\ turn[t] \in TurnType /\ turn[t].pc = "sign" /\ Set(t, g)
      /\ serving' = serving /\ reported' = reported /\ Own(t)
  BY DEF Sign, At, TurnsAgree
<1>2. /\ p \in PrincipalType
      /\ serving.kind # "model" => \A n : Principal(serving, n) = p
  BY ServedAsKind DEF TurnsAgree
<1>3. turn[t].pc \in Flying /\ turn[t].pc \notin {"name", "putname"}
  BY <1>1 DEF Flying
<1>4. turn[t].met = {} => p = Principal(turn[t].last[1], turn[t].last[2])
  BY <1>1, <1>2, <1>3 DEF Own, Alone
<1> HIDE DEF p
<1>5. /\ g \in TurnType /\ g.pc = "close" /\ g.met = turn[t].met /\ g.gave = turn[t].gave
      /\ g.last = turn[t].last /\ g.served = turn[t].served /\ g.principal = p
  BY <1>1, <1>2 DEF TurnType, Over
<1> HIDE DEF g
<1>6. turn'[t] = g /\ \A u \in Turns : turn'[u].gave = turn[u].gave
  BY <1>1, <1>5 DEF Set, TurnsAgree
<1>7. Given(t)' = Given(t)
  <2>1. turn[t].met \subseteq Turns /\ turn'[t].met = turn[t].met
    BY <1>1, <1>5, <1>6 DEF TurnType
  <2> QED
    BY <1>6, <2>1 DEF Given
<1>8. Answering(t)'
  BY <1>1, <1>5, <1>6, <1>7 DEF Own, Answering
<1>9. Signing(t)'
  BY <1>4, <1>5, <1>6 DEF Signing
<1>10. Own(t)'
  BY <1>5, <1>6, <1>8, <1>9 DEF Own, Fresh, Halfway, Alone, Flying
<1> QED
  BY <1>1, <1>3, <1>5, <1>10, OthersAgree DEF TurnsAgree

LEMMA CloseAgrees ==
  ASSUME TurnsAgree, NEW t \in Turns, CloseTurn(t)
  PROVE  TurnsAgree' /\ NobodyLeaves
<1> DEFINE g == [turn[t] EXCEPT !.pc = "done"]
<1>1. /\ turn[t] \in TurnType /\ turn[t].pc = "close" /\ Set(t, g)
      /\ serving' = serving /\ reported' = reported /\ Own(t)
  BY DEF CloseTurn, At, TurnsAgree
<1>2. /\ g \in TurnType /\ g.pc = "done" /\ g.met = turn[t].met /\ g.gave = turn[t].gave
      /\ g.last = turn[t].last /\ g.served = turn[t].served /\ g.principal = turn[t].principal
  BY <1>1 DEF TurnType, Over
<1> HIDE DEF g
<1>3. turn'[t] = g /\ \A u \in Turns : turn'[u].gave = turn[u].gave
  BY <1>1, <1>2 DEF Set, TurnsAgree
<1>4. Given(t)' = Given(t)
  <2>1. turn[t].met \subseteq Turns /\ turn'[t].met = turn[t].met
    BY <1>1, <1>2, <1>3 DEF TurnType
  <2> QED
    BY <1>3, <2>1 DEF Given
<1>5. Own(t)'
  BY <1>1, <1>2, <1>3, <1>4 DEF Own, Fresh, Halfway, Alone, Answering, Signing, Flying, Over
<1>6. g.pc \notin Flying
  BY <1>2 DEF Flying
<1> QED
  BY <1>1, <1>2, <1>5, <1>6, OthersAgree DEF TurnsAgree

\* The ladder is led by its first reachable rung, offline it is empty, and a
\* probe under way has found rungs of the ladder.
LadderStands ==
    /\ offline \in BOOLEAN
    /\ ladder \in [active : 0..Rungs, reach : SUBSET Tiers,
                   state : {"unprobed", "probing", "done"}]
    /\ ladder.active = First(ladder.reach)
    /\ offline => ladder.reach = {}
    /\ probes \in Seq([next : Nat, found : SUBSET Tiers])

LEMMA FlightAgrees ==
  ASSUME TurnsAgree, LadderStands, NEW t \in Turns,
         Wait(t) \/ Chat(t) \/ Rung(t) \/ ListPending(t) \/ Approved(t)
  PROVE  TurnsAgree' /\ NobodyLeaves
<1>0. /\ turn[t] \in TurnType
      /\ turn[t].pc \in {"wait", "chat", "rung", "list", "approve"}
      /\ turn[t].pc \in Flying \ {"name", "putname", "sign"}
      /\ serving' = serving /\ reported' = reported
  BY DEF TurnsAgree, Wait, Chat, Rung, ListPending, Approved, At, Flying
<1>1. ASSUME NEW g, Set(t, g), Continues(turn[t], g),
             g.pc \in {"chat", "rung", "put", "list", "approve", "answer"}
      PROVE  TurnsAgree' /\ NobodyLeaves
  BY <1>0, <1>1, FliesOn
<1>2. CASE Wait(t)
  <2> DEFINE tier == IF ladder.state = "done" THEN ladder.active ELSE 0
             f == [turn[t] EXCEPT !.tier = tier]
             src == IF tier = 0 THEN "mock" ELSE "model"
             res == IF f.q = "data" THEN "data" ELSE "none"
             way == IF f.q = "data" /\ f.q \in Scripted THEN "cache" ELSE "mock"
             a == [f EXCEPT !.pc = "list", !.source = src]
             b == [f EXCEPT !.pc = "answer", !.result = res, !.source = way]
             c == [f EXCEPT !.pc = "chat"]
  <2>1. \/ Set(t, a)
        \/ Set(t, b)
        \/ Set(t, c)
        \/ Set(t, Ground(f))
    <3>1. CASE f.q = "approve"
      BY <1>2, <3>1 DEF Wait
    <3>2. CASE f.q # "approve" /\ tier = 0
      BY <1>2, <3>2 DEF Wait
    <3>3. CASE f.q # "approve" /\ tier # 0
      BY <1>2, <3>3 DEF Wait
    <3> QED
      BY <3>1, <3>2, <3>3
  <2>2. tier \in 0..Rungs
    BY ClerkAssumption DEF LadderStands
  <2> HIDE DEF tier
  <2>3. f \in TurnType /\ Continues(turn[t], f)
    BY <1>0, <2>2 DEF TurnType, Continues
  <2>4. src \in {"mock", "model"} /\ res \in {"data", "none"} /\ way \in {"cache", "mock"}
    OBVIOUS
  <2> HIDE DEF f, src, res, way
  <2>5. Continues(f, a) /\ a.pc = "list"
    BY <2>3, <2>4 DEF TurnType, Continues, Flying
  <2>6. Continues(f, b) /\ b.pc = "answer"
    BY <2>3, <2>4 DEF TurnType, Continues, Flying
  <2>7. Continues(f, c) /\ c.pc = "chat"
    BY <2>3 DEF TurnType, Continues, Flying
  <2>8. Continues(f, Ground(f)) /\ Ground(f).pc \in {"answer", "chat"}
    BY <2>3, Grounded
  <2> HIDE DEF a, b, c
  <2>9. PICK g : Set(t, g) /\ Continues(f, g) /\ g.pc \in {"list", "answer", "chat"}
    BY <2>1, <2>5, <2>6, <2>7, <2>8
  <2>10. Continues(turn[t], g)
    BY <2>3, <2>9 DEF Continues
  <2> QED
    BY <1>1, <2>9, <2>10
<1>3. CASE Chat(t)
  <2> DEFINE tier == turn[t].tier
             rest == ladder.reach \ {tier}
             g == [turn[t] EXCEPT !.pc = "rung", !.rung = tier, !.left = rest]
  <2>1. Set(t, g)
    BY <1>3 DEF Chat
  <2>2. tier \in 0..Rungs /\ rest \in SUBSET Tiers
    BY <1>0 DEF LadderStands, TurnType
  <2> HIDE DEF tier, rest
  <2>3. Continues(turn[t], g) /\ g.pc = "rung"
    BY <1>0, <2>2 DEF TurnType, Continues, Flying
  <2> HIDE DEF g
  <2> QED
    BY <1>1, <2>1, <2>3
<1>4. CASE Rung(t)
  <2> DEFINE a == [turn[t] EXCEPT !.pc = "put", !.cached = TRUE]
             b == [turn[t] EXCEPT !.pc = "put", !.cached = FALSE]
  <2>1. Set(t, a) \/ Set(t, b) \/ Set(t, Down(turn[t]))
    BY <1>4 DEF Rung
  <2>2. Continues(turn[t], a) /\ a.pc = "put"
    BY <1>0 DEF TurnType, Continues, Flying
  <2>3. Continues(turn[t], b) /\ b.pc = "put"
    BY <1>0 DEF TurnType, Continues, Flying
  <2>4. Continues(turn[t], Down(turn[t])) /\ Down(turn[t]).pc \in {"rung", "answer", "chat"}
    <3>1. turn[t].pc = "rung"
      BY <1>4 DEF Rung, At
    <3> QED
      BY <1>0, <3>1, WentDown
  <2> HIDE DEF a, b
  <2> QED
    BY <1>1, <2>1, <2>2, <2>3, <2>4
<1>5. CASE ListPending(t)
  <2> DEFINE a == [turn[t] EXCEPT !.pc = "approve"]
             b == Attempted(turn[t], "data")
  <2>1. Set(t, a) \/ Set(t, b)
    BY <1>5 DEF ListPending
  <2>2. Continues(turn[t], a) /\ a.pc = "approve"
    BY <1>0 DEF TurnType, Continues, Flying
  <2>3. Continues(turn[t], b) /\ b.pc \in {"answer", "chat"}
    BY <1>0, AfterAttempt
  <2> HIDE DEF a, b
  <2> QED
    BY <1>1, <2>1, <2>2, <2>3
<1>6. CASE Approved(t)
  <2>1. PICK result \in {"data", "refused"} : Set(t, Attempted(turn[t], result))
    BY <1>6 DEF Approved
  <2>2. /\ Continues(turn[t], Attempted(turn[t], result))
        /\ Attempted(turn[t], result).pc \in {"answer", "chat"}
    BY <1>0, AfterAttempt
  <2> QED
    BY <1>1, <2>1, <2>2
<1> QED
  BY <1>2, <1>3, <1>4, <1>5, <1>6

\* A turn that was over is gone with its user.
LEMMA GoneAgrees ==
  ASSUME TurnsAgree, NEW s \in Subjects, SignOut(s)
  PROVE  TurnsAgree'
<1> DEFINE g(t) == [turn[t] EXCEPT !.pc = "gone"]
<1>1. /\ serving' = serving /\ reported' = reported
      /\ turn' = [t \in Turns |-> IF SubjectOf[t] = s /\ turn[t].pc = "done"
                                  THEN g(t) ELSE turn[t]]
  BY DEF SignOut
<1>2. ASSUME NEW t \in Turns
      PROVE  /\ turn[t] \in TurnType
             /\ g(t) \in TurnType /\ g(t).pc = "gone" /\ g(t).met = turn[t].met
             /\ g(t).gave = turn[t].gave /\ g(t).last = turn[t].last
             /\ g(t).served = turn[t].served /\ g(t).principal = turn[t].principal
  BY DEF TurnsAgree, TurnType, Over
<1> HIDE DEF g
<1>3. /\ turn' \in [Turns -> TurnType]
      /\ \A t \in Turns : /\ turn'[t].met = turn[t].met /\ turn'[t].gave = turn[t].gave
                          /\ \/ turn'[t] = turn[t]
                             \/ turn[t].pc = "done" /\ turn'[t] = g(t)
  BY <1>1, <1>2
<1>4. \A t \in Turns : turn'[t].pc \in Flying => turn'[t] = turn[t]
  BY <1>2, <1>3 DEF Flying
<1>5. ASSUME NEW t \in Turns
      PROVE  Given(t)' = Given(t)
  <2>1. turn[t].met \subseteq Turns /\ turn'[t].met = turn[t].met
    BY <1>2, <1>3 DEF TurnType
  <2> QED
    BY <1>3, <2>1 DEF Given
<1>6. ASSUME NEW t \in Turns
      PROVE  Own(t)'
  <2>1. Own(t)
    BY DEF TurnsAgree
  <2>2. CASE turn'[t] = turn[t]
    BY <1>1, <1>5, <2>1, <2>2 DEF Own, Fresh, Halfway, Alone, Answering, Signing
  <2>3. CASE turn[t].pc = "done" /\ turn'[t] = g(t)
    BY <1>2, <1>5, <2>1, <2>3 DEF Own, Fresh, Halfway, Alone, Answering, Signing, Flying, Over
  <2> QED
    BY <1>3, <2>2, <2>3
<1> QED
  BY <1>1, <1>3, <1>4, <1>5, <1>6 DEF TurnsAgree

\* Every step of helm, as far as the turns and their attributes go.
LEMMA StepAgrees ==
  ASSUME TurnsAgree, LadderStands, [Next]_vars
  PROVE  TurnsAgree'
<1>1. ASSUME UNCHANGED <<turn, serving, reported>>
      PROVE  TurnsAgree'
  BY <1>1 DEF TurnsAgree, Own, Fresh, Halfway, Alone, Given, Answering, Signing
<1>2. ASSUME NEW t \in Turns, Turn(t)
      PROVE  TurnsAgree'
  BY <1>2, AskAgrees, ClearAgrees, ClearNameAgrees, FlightAgrees, PutAgrees, PutNameAgrees,
    AnsweredAgrees, SignAgrees, CloseAgrees DEF Turn
<1>3. \/ UNCHANGED <<turn, serving, reported>>
      \/ \E t \in Turns : Turn(t)
      \/ \E s \in Subjects : SignOut(s)
  BY DEF Next, vars, clerkVars, Probe, RungFlips, DeskNext, Desk
<1> QED
  BY <1>1, <1>2, <1>3, GoneAgrees

ProbeType == [next : Nat, found : SUBSET Tiers]

LEMMA EvictedStands ==
  ASSUME LadderStands, NEW r, ladder' = Evicted(r), offline' = offline, probes' = probes
  PROVE  LadderStands'
<1> DEFINE rest == ladder.reach \ {r}
<1>1. ladder.reach \in SUBSET Tiers /\ rest \in SUBSET Tiers
  BY DEF LadderStands
<1>2. ladder'.active = First(rest) /\ ladder'.reach = rest /\ ladder'.state = "unprobed"
      /\ ladder' = [active |-> ladder'.active, reach |-> rest, state |-> "unprobed"]
  <2>1. CASE ladder.active = r
    BY <2>1 DEF Evicted
  <2>2. CASE ladder.active # r
    <3>1. First(ladder.reach) = First(rest)
      <4>1. CASE ladder.reach = {}
        BY <4>1
      <4>2. CASE ladder.reach # {}
        <5>1. /\ First(ladder.reach) \in rest
              /\ \A q \in rest : First(ladder.reach) <= q
          BY <1>1, <2>2, <4>2, FirstOf DEF LadderStands
        <5> HIDE DEF rest
        <5> QED
          BY <1>1, <5>1, FirstOf
      <4> QED
        BY <4>1, <4>2
    <3> QED
      BY <2>2, <3>1 DEF Evicted, LadderStands
  <2> QED
    BY <2>1, <2>2
<1>3. First(rest) \in 0..Rungs
  BY <1>1, FirstOf
<1>4. offline' => rest = {}
  BY DEF LadderStands
<1> HIDE DEF rest
<1>5. ladder' \in [active : 0..Rungs, reach : SUBSET Tiers,
                   state : {"unprobed", "probing", "done"}]
  BY <1>1, <1>2, <1>3
<1> QED
  BY <1>2, <1>4, <1>5 DEF LadderStands

LEMMA StartedStands ==
  ASSUME LadderStands, StartedProbe, offline' = offline
  PROVE  LadderStands'
<1>1. CASE ladder.state = "unprobed"
  <2> DEFINE z == [next |-> 1, found |-> {}]
  <2>0. {} \in SUBSET Tiers
    OBVIOUS
  <2>1. z \in ProbeType
    BY <2>0 DEF ProbeType
  <2>2. probes' = Append(probes, z) /\ ladder' = [ladder EXCEPT !.state = "probing"]
    BY <1>1 DEF StartedProbe
  <2> HIDE DEF z
  <2>3. probes \in Seq(ProbeType)
    BY DEF LadderStands, ProbeType
  <2>4. probes' \in Seq(ProbeType)
    BY <2>1, <2>2, <2>3, AppendProperties
  <2>5. /\ ladder' \in [active : 0..Rungs, reach : SUBSET Tiers,
                        state : {"unprobed", "probing", "done"}]
        /\ ladder'.active = ladder.active /\ ladder'.reach = ladder.reach
    BY <2>2 DEF LadderStands
  <2> QED
    BY <2>4, <2>5 DEF LadderStands, ProbeType
<1>2. CASE ladder.state # "unprobed"
  BY <1>2 DEF StartedProbe, LadderStands
<1> QED
  BY <1>1, <1>2

LEMMA ProbeStands ==
  ASSUME LadderStands, NEW i \in DOMAIN probes, Probe(i)
  PROVE  LadderStands'
<1>1. probes \in Seq(ProbeType) /\ offline' = offline
  BY DEF LadderStands, ProbeType, Probe
<1>2. Len(probes) \in Nat /\ i \in 1..Len(probes) /\ probes[i] \in ProbeType
  BY <1>1, LenProperties
<1>3. CASE ~offline /\ probes[i].next \in Tiers
  <2> DEFINE more == IF probes[i].next \in up THEN probes[i].found \cup {probes[i].next}
                                              ELSE probes[i].found
             z == [next |-> probes[i].next + 1, found |-> more]
  <2>1. probes' = [probes EXCEPT ![i] = z] /\ ladder' = ladder
    BY <1>3 DEF Probe
  <2>2. more \in SUBSET Tiers /\ probes[i].next + 1 \in Nat
    BY <1>2, <1>3 DEF ProbeType
  <2> HIDE DEF more
  <2>3. z \in ProbeType
    BY <2>2 DEF ProbeType
  <2> HIDE DEF z
  <2>4. probes' \in Seq(ProbeType)
    BY <1>1, <1>2, <2>1, <2>3, ExceptSeq
  <2> QED
    BY <1>1, <2>1, <2>4 DEF LadderStands, ProbeType
<1>4. CASE ~(~offline /\ probes[i].next \in Tiers)
  <2>1. probes' = RemoveAt(probes, i)
    BY <1>4 DEF Probe
  <2>2. probes' \in Seq(ProbeType)
    <3>1. /\ SubSeq(probes, 1, i - 1) \in Seq(ProbeType)
          /\ SubSeq(probes, i + 1, Len(probes)) \in Seq(ProbeType)
      <4>1. \A k \in 1..(i - 1) : probes[k] \in ProbeType
        BY <1>1, <1>2, LenProperties
      <4>2. \A k \in (i + 1)..Len(probes) : probes[k] \in ProbeType
        BY <1>1, <1>2, LenProperties
      <4> QED
        BY <1>1, <1>2, <4>1, <4>2, SubSeqProperties
    <3> QED
      BY <2>1, <3>1, ConcatProperties DEF RemoveAt
  <2>3. CASE offline
    <3>1. ladder' = [ladder EXCEPT !.active = 0, !.state = "done"]
      BY <1>4, <2>3 DEF Probe
    <3>2. ladder.reach = {} /\ ladder.reach \in SUBSET Tiers
      BY <2>3 DEF LadderStands
    <3>3. First(ladder.reach) = 0 /\ 0 \in 0..Rungs
      BY <3>2, FirstOf
    <3>4. /\ ladder' \in [active : 0..Rungs, reach : SUBSET Tiers,
                          state : {"unprobed", "probing", "done"}]
          /\ ladder'.active = 0 /\ ladder'.reach = ladder.reach
      BY <3>1, <3>3 DEF LadderStands
    <3> QED
      BY <1>1, <2>2, <3>2, <3>3, <3>4 DEF LadderStands, ProbeType
  <2>4. CASE ~offline
    <3> DEFINE F == probes[i].found
    <3>1. ladder' = [active |-> First(F), reach |-> F, state |-> "done"]
      BY <1>4, <2>4 DEF Probe
    <3>2. F \in SUBSET Tiers
      BY <1>2 DEF ProbeType
    <3> HIDE DEF F
    <3>3. First(F) \in 0..Rungs
      BY <3>2, FirstOf
    <3>4. /\ ladder' \in [active : 0..Rungs, reach : SUBSET Tiers,
                          state : {"unprobed", "probing", "done"}]
          /\ ladder'.active = First(ladder'.reach)
      BY <3>1, <3>2, <3>3
    <3> QED
      BY <1>1, <2>2, <2>4, <3>4 DEF LadderStands, ProbeType
  <2>5. offline \/ ~offline
    BY Zenon
  <2> QED
    BY <2>3, <2>4, <2>5, Zenon
<1> QED
  BY <1>3, <1>4, Zenon

LEMMA LadderStays ==
  ASSUME LadderStands, [Next]_vars
  PROVE  LadderStands'
<1>1. offline' = offline
  BY DEF Next, vars, clerkVars, Turn, Ask, Clear, ClearName, Wait, Chat, Rung, Put, PutName,
    ListPending, Approved, Answered, Sign, CloseTurn, Probe, RungFlips, SignOut, DeskNext, Desk
<1>2. \/ UNCHANGED <<ladder, probes>>
      \/ StartedProbe
      \/ (\E r : ladder' = Evicted(r)) /\ probes' = probes
      \/ \E i \in DOMAIN probes : Probe(i)
  BY DEF Next, vars, clerkVars, Turn, Ask, Clear, ClearName, Wait, Chat, Rung, Put, PutName,
    ListPending, Approved, Answered, Sign, CloseTurn, RungFlips, SignOut, DeskNext, Desk
<1>3. CASE UNCHANGED <<ladder, probes>>
  BY <1>1, <1>3 DEF LadderStands
<1> QED
  BY <1>1, <1>2, <1>3, EvictedStands, StartedStands, ProbeStands

-----------------------------------------------------------------------------
(* The transcripts                                                         *)

Spoken == {"you", "nemoclerk"} \X Turns

\* A line of a transcript is of a turn of its user that nobody signed out of.
TranscriptsStand ==
    /\ sessions \in [Subjects \X Areas -> Seq(Spoken)]
    /\ \A k \in Subjects \X Areas : \A i \in DOMAIN sessions[k] :
          /\ SubjectOf[sessions[k][i][2]] = k[1]
          /\ turn[sessions[k][i][2]].pc # "gone"

LEMMA AppendedStands ==
  ASSUME TranscriptsStand, NEW t \in Turns, NEW who \in {"you", "nemoclerk"},
         Appended(t, who), NobodyLeaves, turn'[t].pc # "gone"
  PROVE  TranscriptsStand'
<1> DEFINE k0 == Key(t)
           s == Append(sessions[k0], <<who, t>>)
           z == IF Len(s) > MaxTurns THEN Tail(s) ELSE s
<1>1. k0 \in Subjects \X Areas /\ k0[1] = SubjectOf[t]
  BY ClerkAssumption DEF Key
<1>2. sessions[k0] \in Seq(Spoken) /\ <<who, t>> \in Spoken
  BY <1>1 DEF TranscriptsStand, Spoken
<1>3. /\ s \in Seq(Spoken) /\ Len(s) = Len(sessions[k0]) + 1
      /\ \A i \in 1..Len(sessions[k0]) : s[i] = sessions[k0][i]
      /\ s[Len(s)] = <<who, t>>
  BY <1>2, AppendProperties
<1>4. sessions' = [sessions EXCEPT ![k0] = z]
  BY DEF Appended
<1> HIDE DEF s, k0
<1>5. Len(sessions[k0]) \in Nat /\ DOMAIN sessions[k0] = 1..Len(sessions[k0])
      /\ DOMAIN s = 1..Len(s)
  BY <1>2, <1>3, LenProperties
<1>6. ASSUME NEW i \in DOMAIN s
      PROVE  /\ s[i] \in Spoken
             /\ SubjectOf[s[i][2]] = k0[1]
             /\ turn'[s[i][2]].pc # "gone"
  <2>1. s[i] \in Spoken
    BY <1>3, <1>5, <1>6
  <2>2. CASE i \in DOMAIN sessions[k0]
    <3>1. s[i] = sessions[k0][i] /\ s[i][2] \in Turns
      BY <1>3, <1>5, <2>1, <2>2 DEF Spoken
    <3> QED
      BY <1>1, <2>1, <2>2, <3>1 DEF TranscriptsStand, NobodyLeaves
  <2>3. CASE i = Len(s)
    <3>1. s[i] = <<who, t>>
      BY <1>3, <2>3
    <3> QED
      BY <1>1, <2>1, <3>1
  <2> QED
    BY <1>3, <1>5, <2>2, <2>3
<1>7. /\ z \in Seq(Spoken)
      /\ \A i \in DOMAIN z : \E j \in DOMAIN s : z[i] = s[j]
  <2>1. CASE Len(s) > MaxTurns
    <3>1. s # <<>>
      BY <1>3, <1>5
    <3>2. /\ Tail(s) \in Seq(Spoken) /\ Len(Tail(s)) = Len(s) - 1
          /\ \A i \in 1..Len(Tail(s)) : Tail(s)[i] = s[i + 1]
      BY <1>3, <3>1, HeadTailProperties
    <3>3. \A i \in DOMAIN Tail(s) : i + 1 \in DOMAIN s /\ Tail(s)[i] = s[i + 1]
      BY <1>3, <1>5, <3>2, LenProperties
    <3> QED
      BY <2>1, <3>2, <3>3
  <2>2. CASE ~(Len(s) > MaxTurns)
    BY <1>3, <2>2
  <2> QED
    BY <2>1, <2>2
<1> HIDE DEF z
<1>8. \A i \in DOMAIN z : SubjectOf[z[i][2]] = k0[1] /\ turn'[z[i][2]].pc # "gone"
  BY <1>6, <1>7
<1>9. sessions' \in [Subjects \X Areas -> Seq(Spoken)]
  BY <1>1, <1>4, <1>7 DEF TranscriptsStand
<1>10. ASSUME NEW k \in Subjects \X Areas, NEW i \in DOMAIN sessions'[k]
       PROVE  /\ SubjectOf[sessions'[k][i][2]] = k[1]
              /\ turn'[sessions'[k][i][2]].pc # "gone"
  <2>1. CASE k = k0
    <3>1. sessions'[k] = z
      BY <1>1, <1>4, <2>1 DEF TranscriptsStand
    <3> QED
      BY <1>8, <1>10, <2>1, <3>1
  <2>2. CASE k # k0
    <3>1. sessions'[k] = sessions[k]
      BY <1>4, <2>2 DEF TranscriptsStand
    <3>2. i \in DOMAIN sessions[k] /\ sessions[k] \in Seq(Spoken)
      BY <1>10, <3>1 DEF TranscriptsStand
    <3>3. sessions[k][i] \in Spoken
      BY <3>2, LenProperties
    <3>4. sessions[k][i][2] \in Turns
      BY <3>3 DEF Spoken
    <3> QED
      BY <3>1, <3>2, <3>4 DEF TranscriptsStand, NobodyLeaves
  <2> QED
    BY <2>1, <2>2
<1> QED
  BY <1>9, <1>10 DEF TranscriptsStand

LEMMA SameTranscripts ==
  ASSUME TranscriptsStand, sessions' = sessions, NobodyLeaves
  PROVE  TranscriptsStand'
<1> SUFFICES ASSUME NEW k \in Subjects \X Areas, NEW i \in DOMAIN sessions[k]
    PROVE  /\ SubjectOf[sessions[k][i][2]] = k[1]
           /\ turn'[sessions[k][i][2]].pc # "gone"
  BY DEF TranscriptsStand
<1>1. sessions[k] \in Seq(Spoken)
  BY DEF TranscriptsStand
<1>2. sessions[k][i] \in Spoken
  BY <1>1, LenProperties
<1>3. sessions[k][i][2] \in Turns
  BY <1>2 DEF Spoken
<1> QED
  BY <1>3 DEF TranscriptsStand, NobodyLeaves

LEMMA SignOutStands ==
  ASSUME TurnsAgree, TranscriptsStand, NEW s \in Subjects, SignOut(s)
  PROVE  TranscriptsStand'
<1> DEFINE g(t) == [turn[t] EXCEPT !.pc = "gone"]
<1>1. /\ sessions' = [k \in DOMAIN sessions |->
                        IF ClearedKeys(s, k) THEN <<>> ELSE sessions[k]]
      /\ turn' = [t \in Turns |-> IF SubjectOf[t] = s /\ turn[t].pc = "done"
                                  THEN g(t) ELSE turn[t]]
  BY DEF SignOut
<1> HIDE DEF g
<1>2. DOMAIN sessions = Subjects \X Areas /\ \A k \in Subjects \X Areas : sessions[k] \in Seq(Spoken)
  BY DEF TranscriptsStand
<1>3. <<>> \in Seq(Spoken) /\ DOMAIN <<>> = {}
  BY EmptySeq
<1>4. sessions' \in [Subjects \X Areas -> Seq(Spoken)]
  BY <1>1, <1>2, <1>3
<1>5. ASSUME NEW k \in Subjects \X Areas, NEW i \in DOMAIN sessions'[k]
      PROVE  /\ SubjectOf[sessions'[k][i][2]] = k[1]
             /\ turn'[sessions'[k][i][2]].pc # "gone"
  <2>1. k[1] # s /\ sessions'[k] = sessions[k]
    BY <1>1, <1>2, <1>3, <1>5 DEF ClearedKeys
  <2>2. sessions[k][i] \in Spoken
    BY <1>2, <1>5, <2>1, LenProperties
  <2>3. sessions[k][i][2] \in Turns
    BY <2>2 DEF Spoken
  <2>4. /\ SubjectOf[sessions[k][i][2]] = k[1]
        /\ turn[sessions[k][i][2]].pc # "gone"
    BY <1>5, <2>1 DEF TranscriptsStand
  <2>5. turn'[sessions[k][i][2]] = turn[sessions[k][i][2]]
    BY <1>1, <2>1, <2>3, <2>4
  <2> QED
    BY <2>1, <2>4, <2>5
<1> QED
  BY <1>4, <1>5 DEF TranscriptsStand

LEMMA TranscriptsStay ==
  ASSUME TurnsAgree, LadderStands, TranscriptsStand, [Next]_vars
  PROVE  TranscriptsStand'
<1>1. ASSUME NEW t \in Turns, Turn(t)
      PROVE  TranscriptsStand'
  <2>1. NobodyLeaves
    BY <1>1, AskAgrees, ClearAgrees, ClearNameAgrees, FlightAgrees, PutAgrees, PutNameAgrees,
      AnsweredAgrees, SignAgrees, CloseAgrees DEF Turn
  <2>2. CASE \E q \in Questions : Ask(t, q)
    <3>1. Appended(t, "you") /\ turn[t].pc = "new"
      BY <2>2 DEF Ask, At
    <3>2. turn'[t].pc # "gone"
      BY <2>1, <3>1 DEF NobodyLeaves
    <3> QED
      BY <2>1, <3>1, <3>2, AppendedStands
  <2>3. CASE CloseTurn(t)
    <3>1. Appended(t, "nemoclerk") /\ turn[t].pc = "close"
      BY <2>3 DEF CloseTurn, At
    <3>2. turn'[t].pc # "gone"
      BY <2>1, <3>1 DEF NobodyLeaves
    <3> QED
      BY <2>1, <3>1, <3>2, AppendedStands
  <2>4. CASE UNCHANGED sessions
    BY <2>1, <2>4, SameTranscripts
  <2>5. \/ \E q \in Questions : Ask(t, q)
        \/ CloseTurn(t)
        \/ UNCHANGED sessions
    BY <1>1 DEF Turn, Clear, ClearName, Wait, Chat, Rung, Put, PutName, ListPending, Approved,
      Answered, Sign
  <2> QED
    BY <2>2, <2>3, <2>4, <2>5
<1>2. CASE UNCHANGED <<turn, sessions>>
  BY <1>2, SameTranscripts DEF NobodyLeaves
<1>3. \/ UNCHANGED <<turn, sessions>>
      \/ \E t \in Turns : Turn(t)
      \/ \E s \in Subjects : SignOut(s)
  BY DEF Next, vars, clerkVars, Probe, RungFlips, DeskNext, Desk
<1> QED
  BY <1>1, <1>2, <1>3, SignOutStands

-----------------------------------------------------------------------------
(* The desk's types                                                        *)

OutType ==
    [ledgered : BOOLEAN, status :
        {"none", "missing", "refused", "ok", "error", "unauthenticated",
         "offline", "performed", "incomplete", "held"}]

DeskTyped ==
    /\ queue \in [Approvals -> [state : {"pending", "approve", "reject"},
                                by : Callers \cup {None}]]
    /\ \A c \in Callers : call[c].out \in OutType
    /\ faults \in 0..MaxFaults

LEMMA WhatIsAnswered ==
  ASSUME DeskTyped, NEW c \in Callers, DeskStep(c)
  PROVE  \/ \E pc : Goto(c, pc)
         \/ \E out \in OutType : Close(c, out) \/ Refuse(c, out)
<1>1. \A s \in {"missing", "refused", "ok", "error", "unauthenticated",
                "performed", "incomplete", "held"} : Answer(s) \in OutType
  BY DEF Answer, OutType
<1>2. Refusal \in OutType /\ OnRecord \in OutType /\ call[c].out \in OutType
  BY DEF Refusal, OnRecord, OutType, DeskTyped
<1>3. CASE Fetch(c)
  BY <1>1, <1>3 DEF Fetch
<1>4. CASE Rule(c)
  BY <1>2, <1>4 DEF Rule
<1>5. CASE Forward(c)
  <2>1. PICK answer : Heard(c, answer)
    BY <1>5 DEF Forward
  <2>2. HeardByAgent(c, answer) \in OutType
    BY DEF HeardByAgent, OutType
  <2>3. HeardByHuman(c, answer) \in OutType
    BY <1>1, <1>2 DEF HeardByHuman
  <2> QED
    BY <2>1, <2>2, <2>3 DEF Heard
<1>6. CASE Note(c)
  BY <1>2, <1>6 DEF Note
<1>7. CASE ReloadPosted(c)
  <2>1. \A answer \in SirenAnswers : Reported(answer) \in {"performed", "incomplete", "held", "refused"}
    BY DEF SirenAnswers, Reported
  <2> QED
    BY <1>1, <1>7, <2>1 DEF ReloadPosted
<1> QED
  BY <1>3, <1>4, <1>5, <1>6, <1>7 DEF DeskStep

LEMMA DeskStays ==
  ASSUME Invariant, DeskTyped, [Next]_vars
  PROVE  DeskTyped'
<1>1. DeskMoves
  BY Moves
<1>2. faults' = faults \/ Fault
  BY DEF Next, vars, clerkVars, deskVars, Turn, Ask, Clear, ClearName, Wait, Chat, Rung, Put,
    PutName, ListPending, Approved, Answered, Sign, CloseTurn, Probe, RungFlips, SignOut,
    DeskNext, Desk, DeskStep, Fetch, Rule, Forward, Note, ReloadPosted, ReloadAsked
<1>3. faults' \in 0..MaxFaults
  BY <1>2, ConsoleAssumption DEF Fault, DeskTyped
<1>4. ASSUME NEW c \in Callers, DeskStep(c)
      PROVE  /\ \A b \in Callers : call'[b].out \in OutType
             /\ queue' \in [Approvals -> [state : {"pending", "approve", "reject"},
                                          by : Callers \cup {None}]]
  <2>1. /\ \A b \in Callers : b # c => call'[b] = call[b]
        /\ call'[c].out \in OutType
    <3>1. CASE \E pc : Goto(c, pc)
      BY <3>1, GoesOn DEF Invariant, Advances, DeskTyped
    <3>2. CASE \E out \in OutType : Close(c, out) \/ Refuse(c, out)
      BY <3>2, Closes DEF Invariant, Advances
    <3> QED
      BY <1>4, <3>1, <3>2, WhatIsAnswered
  <2>2. CASE queue' = queue
    BY <2>1, <2>2 DEF DeskTyped
  <2>3. CASE queue' # queue
    <3>1. /\ call[c].pc = "forward"
          /\ queue' = [queue EXCEPT ![call[c].a] = [state |-> call[c].d, by |-> c]]
      BY <1>4, <2>3 DEF DeskStep, Fetch, Rule, Forward, Gate, Note, ReloadPosted
    <3>2. call[c].d \in {"approve", "reject"}
      BY <3>1 DEF Invariant, Shape, Asking, Decisions
    <3> DEFINE z == [state |-> call[c].d, by |-> c]
    <3>3. z \in [state : {"pending", "approve", "reject"}, by : Callers \cup {None}]
      BY <3>2
    <3> HIDE DEF z
    <3> QED
      BY <2>1, <3>1, <3>3 DEF DeskTyped, z
  <2> QED
    BY <2>2, <2>3
<1>5. ASSUME NEW c \in Callers, Ordered(c) \/ ReloadAsked(c)
      PROVE  \A b \in Callers : call'[b].out \in OutType
  <2>1. DOMAIN call = Callers
    BY DEF Invariant, Shape
  <2>2. NoAnswer \in OutType /\ Answer("none") \in OutType /\ Answer("offline") \in OutType
    BY DEF NoAnswer, Answer, OutType
  <2>3. CASE Ordered(c)
    <3>1. PICK path, by, who, a, d : Order(c, who, path, a, d, by)
      BY <2>3 DEF Ordered
    <3> DEFINE r == [pc |-> "fetch", who |-> who, path |-> path, a |-> a, d |-> d,
                     by |-> by, out |-> NoAnswer]
    <3>2. call' = [call EXCEPT ![c] = r] /\ r.out = NoAnswer
      BY <3>1 DEF Order
    <3> HIDE DEF r
    <3> QED
      BY <2>1, <2>2, <3>2 DEF DeskTyped
  <2>4. CASE ReloadAsked(c)
    <3>1. PICK online \in BOOLEAN :
             call' = [call EXCEPT ![c] = [Idle EXCEPT
                         !.pc  = IF online THEN "reload" ELSE "closed",
                         !.out = Answer(IF online THEN "none" ELSE "offline")]]
      BY <2>4 DEF ReloadAsked
    <3>2. call'[c].out = Answer(IF online THEN "none" ELSE "offline")
      BY <2>1, <3>1 DEF Idle
    <3>3. call'[c].out \in OutType
      BY <2>2, <3>2
    <3>4. \A b \in Callers : b # c => call'[b] = call[b]
      BY <2>1, <3>1
    <3> QED
      BY <3>3, <3>4 DEF DeskTyped
  <2> QED
    BY <1>5, <2>3, <2>4
<1>6. ASSUME NEW c \in Callers, Ordered(c) \/ ReloadAsked(c)
      PROVE  queue' = queue
  BY <1>6 DEF Ordered, ReloadAsked
<1> QED
  BY <1>1, <1>3, <1>4, <1>5, <1>6 DEF DeskMoves, DeskTyped

-----------------------------------------------------------------------------

Clerk == Invariant /\ TurnsAgree /\ LadderStands /\ TranscriptsStand /\ DeskTyped

LEMMA ClerkInit == Init => Clerk
<1> SUFFICES ASSUME Init PROVE Clerk
  OBVIOUS
<1>1. Invariant
  BY InitInvariant
<1>2. 0 \in 0..Rungs /\ 0..Rungs \subseteq Models /\ Tiers \in SUBSET Tiers
  BY ClerkAssumption DEF Models
<1>3. LadderStands
  <2>1. offline \in BOOLEAN /\ probes = <<>>
    BY ClerkAssumption DEF Init
  <2>2. {} \in SUBSET Tiers
    OBVIOUS
  <2>3. probes \in Seq([next : Nat, found : SUBSET Tiers])
    BY <2>1, EmptySeq
  <2>4. CASE offline
    <3>1. ladder = [active |-> 0, reach |-> {}, state |-> "done"]
      BY <2>4 DEF Init
    <3>2. First({}) = 0
      BY DEF First
    <3>3. /\ ladder \in [active : 0..Rungs, reach : SUBSET Tiers,
                         state : {"unprobed", "probing", "done"}]
          /\ ladder.active = 0 /\ ladder.reach = {}
      BY <1>2, <2>2, <3>1
    <3> QED
      BY <2>1, <2>3, <3>2, <3>3 DEF LadderStands
  <2>5. CASE ~offline
    <3>1. ladder = [active |-> First(Tiers), reach |-> Tiers, state |-> "done"]
      BY <2>5 DEF Init
    <3>2. First(Tiers) \in 0..Rungs
      BY <1>2, FirstOf
    <3>3. /\ ladder \in [active : 0..Rungs, reach : SUBSET Tiers,
                         state : {"unprobed", "probing", "done"}]
          /\ ladder.active = First(ladder.reach)
      BY <1>2, <3>1, <3>2
    <3> QED
      BY <2>1, <2>3, <2>5, <3>3 DEF LadderStands
  <2> QED
    BY <2>4, <2>5, Zenon
<1>4. TurnsAgree
  <2>1. Nothing \in ServingType /\ Nothing.kind = "none"
    BY <1>2 DEF Nothing, ServingType
  <2>2. Blank \in ServedType /\ [model |-> 0, rung |-> 0, cached |-> FALSE] \in PrincipalType
    BY <1>2 DEF Blank, ServedType, PrincipalType
  <2>3. /\ {} \in SUBSET Tiers /\ {} \in SUBSET ServingType /\ {} \in SUBSET Turns
        /\ <<Nothing, 0>> \in ServingType \X Models
    BY <1>2, <2>1
  <2>4. /\ NewTurn \in TurnType /\ NewTurn.pc = "new" /\ NewTurn.last = <<Nothing, 0>>
    BY <1>2, <2>2, <2>3 DEF NewTurn, TurnType
  <2>5. \A t \in Turns : turn[t] = NewTurn
    BY DEF Init
  <2>6. turn \in [Turns -> TurnType]
    BY <2>4 DEF Init
  <2>7. serving = Nothing /\ reported = 0
    BY DEF Init
  <2>8. \A t \in Turns : Own(t)
    BY <2>4, <2>5 DEF Own, Fresh, Halfway, Alone, Answering, Signing, Flying, Over
  <2>9. \A t \in Turns : turn[t].pc \notin Flying
    BY <2>4, <2>5 DEF Flying
  <2> QED
    BY <1>2, <2>1, <2>6, <2>7, <2>8, <2>9 DEF TurnsAgree
<1>5. TranscriptsStand
  <2>1. sessions = [k \in Subjects \X Areas |-> <<>>]
    BY DEF Init
  <2>2. <<>> \in Seq(Spoken) /\ DOMAIN <<>> = {}
    BY EmptySeq
  <2> QED
    BY <2>1, <2>2 DEF TranscriptsStand
<1>6. DeskTyped
  <2>1. Idle.out = NoAnswer /\ NoAnswer \in OutType
    BY DEF Idle, NoAnswer, OutType
  <2>2. queue \in [Approvals -> [state : {"pending", "approve", "reject"},
                                 by : Callers \cup {None}]]
    BY DEF Init, DeskInit
  <2> QED
    BY <2>1, <2>2, ConsoleAssumption DEF DeskTyped, Init, DeskInit
<1> QED
  BY <1>1, <1>3, <1>4, <1>5, <1>6 DEF Clerk

LEMMA ClerkHolds == Spec => []Clerk
<1>1. Clerk /\ [Next]_vars => Clerk'
  BY NextInvariant, StepAgrees, LadderStays, TranscriptsStay, DeskStays DEF Clerk
<1> QED
  BY <1>1, ClerkInit, PTL DEF Spec

\* The variables have their types, a turn starts at the first rung that
\* answers, and a sign-out leaves nothing of a turn that was over, for any
\* ladder, probes, evictions and overlapping turns (ModelLadder.invalidate,
\* sessions.clear_subject).
THEOREM ClerkStands == Spec => []ClerkIsSound
<1>1. ASSUME Clerk
      PROVE  ClerkIsSound
  <2>1. TypeOK
    <3>1. ladder.active \in ladder.reach \cup {0} /\ ladder.state \in {"unprobed", "probing", "done"}
      <4>1. ladder.reach \in SUBSET Tiers
        BY <1>1 DEF Clerk, LadderStands
      <4>2. First(ladder.reach) \in ladder.reach \cup {0}
        BY <4>1, FirstOf
      <4> QED
        BY <1>1, <4>2 DEF Clerk, LadderStands
    <3>2. \A c \in Callers : call[c].pc \in {"idle", "fetch", "rule", "forward", "note",
                                             "reload", "closed"}
      BY <1>1 DEF Clerk, Invariant, Shape, Asking, Answers
    <3>3. \A t \in Turns : turn[t].served \in ServedType /\ turn[t].principal \in PrincipalType
      BY <1>1 DEF Clerk, TurnsAgree, TurnType
    <3> QED
      BY <1>1, <3>1, <3>2, <3>3 DEF TypeOK, Clerk, DeskTyped, OutType, TurnsAgree, ServingType
  <2>2. ActiveLeads
    BY <1>1 DEF Clerk, LadderStands, ActiveLeads
  <2>3. SignOutClears
    BY <1>1 DEF Clerk, TranscriptsStand, SignOutClears
  <2> QED
    BY <2>1, <2>2, <2>3 DEF ClerkIsSound
<1> QED
  BY <1>1, ClerkHolds, PTL

\* A turn that met no other names exactly what served it, in its answer and in
\* the chain, and one that did names nothing that served nobody, for any number
\* of turns, rungs and replays (agent.py, "A rung earns its name per turn").
THEOREM RungsEarnTheirNames == Spec => []NamesItsServer
<1>1. ASSUME Clerk
      PROVE  NamesItsServer
  <2>1. \A t \in Turns : Told(t) => turn[t].pc \in Over
    BY DEF Told, Over
  <2>2. \A t \in Turns : Answering(t) /\ Signing(t)
    BY <1>1 DEF Clerk, TurnsAgree, Own
  <2>3. AloneTurnNamesItsServer
    BY <2>1, <2>2 DEF AloneTurnNamesItsServer, Answering, Signing
  <2>4. NamedRungServed
    BY <2>1, <2>2 DEF NamedRungServed, Answering, Given
  <2> QED
    BY <2>3, <2>4 DEF NamesItsServer
<1> QED
  BY <1>1, ClerkHolds, PTL

=============================================================================
