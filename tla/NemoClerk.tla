------------------------------ MODULE NemoClerk ------------------------------
(***************************************************************************)
(* helm's assistant: the model ladder with its background probes, a turn   *)
(* of NemoClerk from the question to the line helm ledgers about it, and   *)
(* the transcripts.                                                        *)
(*                                                                         *)
(* What served a turn is kept in two attributes of the one NemoClerk       *)
(* object, _serving and _serving_reported: ask clears them, a call that    *)
(* answers sets them, and the answer, the principal of a refused approval  *)
(* and an MCP caller's principal are read from them.  Turns are threads.   *)
(* A reply's text, the prompt and the tools' data are left out; what is    *)
(* kept of a reply is whether it chose tools, answered or was empty.       *)
(***************************************************************************)
EXTENDS Console, SequencesExt

CONSTANTS Turns,       \* turns somebody asks, one thread each
          Subjects, Areas,
          SubjectOf, AreaOf,   \* who asks a turn, and on which page
          Questions,   \* what may be asked
          Rungs,       \* the ladder, 1 is tried first
          ToolRungs,   \* rungs whose server chooses tools
          Swapped,     \* rungs whose endpoint answers as another model
          Scripted,    \* questions recorded for replay
          OfflineModes,\* what the offline setting may be
          MaxTurns,    \* transcripts are cut to their last lines
          MaxFlips,    \* bound: rungs that die or come back
          MaxSignOuts  \* bound

Tiers == 1..Rungs

ASSUME ClerkAssumption ==
    /\ Rungs \in Nat
    /\ Turns \subseteq Callers
    /\ ToolRungs \subseteq Tiers /\ Swapped \subseteq Tiers
    /\ OfflineModes \subseteq BOOLEAN
    /\ Questions \subseteq {"approve", "data", "chat", "outside"}
    /\ SubjectOf \in [Turns -> Subjects] /\ AreaOf \in [Turns -> Areas]
    /\ MaxTurns \in Nat \ {0} /\ MaxFlips \in Nat /\ MaxSignOuts \in Nat

VARIABLES
    offline,   \* Settings.offline
    up,        \* the rungs whose endpoint answers
    flips,
    ladder,    \* active rung (0: none), reachable rungs, probe state
    probes,    \* probe threads: the rung each tries next and what it found
    serving,   \* _serving
    reported,  \* _serving_reported: 0, or the rung whose model name it is
    recorded,  \* model replies on disk, by rung and request
    turn,
    sessions,  \* transcripts
    signouts

clerkVars == <<offline, up, flips, ladder, probes, serving, reported, recorded,
               turn, sessions, signouts>>
vars == <<deskVars, clerkVars>>

-----------------------------------------------------------------------------
(* The ladder                                                              *)

First(S) == IF S = {} THEN 0 ELSE CHOOSE r \in S : \A q \in S : r <= q

\* start_probe: only an unprobed ladder starts a thread; there may be an
\* older one still under way.
StartedProbe ==
    IF ladder.state = "unprobed"
    THEN /\ ladder' = [ladder EXCEPT !.state = "probing"]
         /\ probes' = Append(probes, [next |-> 1, found |-> {}])
    ELSE UNCHANGED <<ladder, probes>>

\* One rung tried by one probe thread, or its result put in place.
Probe(i) ==
    LET p == probes[i] IN
    /\ IF ~offline /\ p.next \in Tiers
       THEN /\ probes' = [probes EXCEPT ![i] =
                   [next |-> p.next + 1,
                    found |-> IF p.next \in up THEN p.found \cup {p.next} ELSE p.found]]
            /\ UNCHANGED ladder
       ELSE /\ probes' = RemoveAt(probes, i)
            /\ ladder' = IF offline
                         THEN [ladder EXCEPT !.active = 0, !.state = "done"]
                         ELSE [active |-> First(p.found), reach |-> p.found,
                               state |-> "done"]
    /\ UNCHANGED <<deskVars, offline, up, flips, serving, reported, recorded,
                   turn, sessions, signouts>>

\* Mutant: the rung leaves the ladder but keeps its place at the head of it.
EvictedReachable(r) ==
    [active |-> ladder.active, reach |-> ladder.reach \ {r}, state |-> "unprobed"]

\* Mutant: an evicted rung leaves the head of the ladder empty.
EvictedUnled(r) ==
    [active |-> IF ladder.active = r THEN 0 ELSE ladder.active,
     reach  |-> ladder.reach \ {r}, state |-> "unprobed"]

\* invalidate: out of the reachable rungs, the next one takes its place, and
\* the ladder is to be probed again.
Evicted(r) ==
    LET rest == ladder.reach \ {r} IN
    [active |-> IF ladder.active = r THEN First(rest) ELSE ladder.active,
     reach  |-> rest, state |-> "unprobed"]

-----------------------------------------------------------------------------
(* What served                                                             *)

Nothing == [kind |-> "none", rung |-> 0]
Blank   == [source |-> "none", rung |-> 0, model |-> 0, silicon |-> FALSE]

\* The name in the response body: the rung's own model, or another's.
ModelName(r) == IF r \in Swapped THEN -1 ELSE r

\* served(): the silicon is claimed only for a model call whose endpoint did
\* not answer as some other model; a replay names the rung it was cached from.
Served(s, name) ==
    CASE s.kind = "none"  -> Blank
      [] s.kind = "cache" -> [source |-> "cache", rung |-> s.rung,
                              model |-> s.rung, silicon |-> FALSE]
      [] s.kind = "model" -> [source |-> "model", rung |-> s.rung,
                              model |-> IF name = 0 THEN s.rung ELSE name,
                              silicon |-> name \in {0, s.rung}]

\* principal(): agent:nemoclerk(<model>@<tier>).
Principal(s, name) ==
    CASE s.kind = "none"  -> [model |-> 0, rung |-> 0, cached |-> FALSE]
      [] s.kind = "cache" -> [model |-> 0, rung |-> s.rung, cached |-> TRUE]
      [] s.kind = "model" -> [model |-> IF name = 0 THEN s.rung ELSE name,
                              rung |-> s.rung, cached |-> FALSE]

-----------------------------------------------------------------------------
(* A turn                                                                  *)

NewTurn == [pc |-> "new", q |-> None, tier |-> 0, rung |-> 0, left |-> {}, round |-> 0,
            phase |-> "tools", cached |-> FALSE, result |-> "none", text |-> FALSE,
            source |-> "model", served |-> Blank,
            principal |-> [model |-> 0, rung |-> 0, cached |-> FALSE],
            last |-> <<Nothing, 0>>, gave |-> {}, met |-> {}]

Set(t, f) == turn' = [turn EXCEPT ![t] = f]
At(t, pc) == turn[t].pc = pc

\* Between clearing the attributes and reading them for the answer.
InFlight(t) ==
    turn[t].pc \in {"name", "wait", "chat", "rung", "put", "putname",
                    "list", "approve", "answer", "sign"}

Key(t) == <<SubjectOf[t], AreaOf[t]>>

\* sessions.append: the transcript is made if it is gone, and cut to its tail.
Appended(t, who) ==
    LET s == Append(sessions[Key(t)], <<who, t>>) IN
    sessions' = [sessions EXCEPT ![Key(t)] =
                     IF Len(s) > MaxTurns THEN Tail(s) ELSE s]

Ask(t, q) ==
    /\ At(t, "new")
    /\ Set(t, [turn[t] EXCEPT !.pc = "clear", !.q = q])
    /\ Appended(t, "you")
    /\ UNCHANGED <<deskVars, offline, up, flips, ladder, probes, serving,
                   reported, recorded, signouts>>

\* Mutant: a turn starts with what the turn before it was served by.
ClearedNothing == serving

Cleared == Nothing

Clear(t) ==
    /\ At(t, "clear")
    /\ serving' = Cleared
    /\ turn' = [u \in Turns |->
                 IF u = t
                 THEN [turn[t] EXCEPT !.pc = "name",
                                      !.met = {v \in Turns \ {t} : InFlight(v)}]
                 ELSE IF InFlight(u) THEN [turn[u] EXCEPT !.met = @ \cup {t}]
                                     ELSE turn[u]]
    /\ UNCHANGED <<deskVars, offline, up, flips, ladder, probes, reported,
                   recorded, sessions, signouts>>

ClearName(t) ==
    /\ At(t, "name")
    /\ reported' = 0
    /\ StartedProbe
    /\ Set(t, [turn[t] EXCEPT !.pc = "wait"])
    /\ UNCHANGED <<deskVars, offline, up, flips, serving, recorded, sessions,
                   signouts>>

\* The backstop: a data question no tool answered is put to the router and its
\* text thrown away; then no result means no claim, a refusal is said as such,
\* and what has no text yet is phrased.
Ground(f0) ==
    LET f == IF f0.result = "none" /\ f0.q = "data"
             THEN [f0 EXCEPT !.result = "data", !.text = FALSE] ELSE f0 IN
    CASE f.result = "none"              -> [f EXCEPT !.pc = "answer", !.source = "model"]
      [] f.result = "data" /\ ~f.text   -> [f EXCEPT !.pc = "chat", !.phase = "phrase"]
      [] OTHER                          -> [f EXCEPT !.pc = "answer"]

\* Two rounds of tools, if the turn's rung chooses them.
NextRound(f) ==
    IF f.round = 0 THEN [f EXCEPT !.pc = "chat", !.round = 1] ELSE Ground(f)

\* active(wait): the rung a finished probe left, or none when time is up; then
\* the branch ask takes: approve without a model, a model turn, or the router
\* and the replay of an offline turn.
Wait(t) ==
    /\ At(t, "wait")
    /\ LET tier == IF ladder.state = "done" THEN ladder.active ELSE 0
           f == [turn[t] EXCEPT !.tier = tier] IN
       Set(t, CASE f.q = "approve" ->
                     [f EXCEPT !.pc = "list",
                               !.source = IF tier = 0 THEN "mock" ELSE "model"]
                [] f.q # "approve" /\ tier = 0 ->
                     [f EXCEPT !.pc = "answer",
                         !.result = IF f.q = "data" THEN "data" ELSE "none",
                         !.source = IF f.q = "data" /\ f.q \in Scripted
                                    THEN "cache" ELSE "mock"]
                [] OTHER -> IF tier \in ToolRungs THEN [f EXCEPT !.pc = "chat"]
                                                  ELSE Ground(f))
    /\ UNCHANGED <<deskVars, offline, up, flips, ladder, probes, serving,
                   reported, recorded, sessions, signouts>>

\* _chat: this turn's rung first, then every other reachable one in order.
Chat(t) ==
    /\ At(t, "chat")
    /\ StartedProbe
    /\ LET tier == turn[t].tier IN
       Set(t, [turn[t] EXCEPT !.pc = "rung", !.rung = tier,
                              !.left = ladder.reach \ {tier}])
    /\ UNCHANGED <<deskVars, offline, up, flips, serving, reported, recorded,
                   sessions, signouts>>

\* The next rung down; at the end of the ladder the rounds are over, or the
\* answer is a refusal to compose one.
Down(f0) ==
    LET next == First(f0.left)
        f == [f0 EXCEPT !.rung = next, !.left = @ \ {next}] IN
    CASE next # 0                       -> f
      [] next = 0 /\ f.phase = "tools"  -> Ground(f)
      [] next = 0 /\ f.phase = "phrase" ->
             [f EXCEPT !.pc = "answer", !.source = "mock"]

Request(f) == <<f.rung, f.q, f.phase, f.result>>

\* _chat_one: a recorded reply, else (online) a call that answers, answers
\* with nothing, or fails and evicts the rung.
Rung(t) ==
    LET f == turn[t] IN
    /\ At(t, "rung")
    /\ \/ /\ Request(f) \in recorded
          /\ Set(t, [f EXCEPT !.pc = "put", !.cached = TRUE])
          /\ UNCHANGED ladder
       \/ /\ Request(f) \notin recorded
          /\ offline \/ f.rung \in up
          /\ \/ Set(t, Down(f))
             \/ ~offline /\ Set(t, [f EXCEPT !.pc = "put", !.cached = FALSE])
          /\ UNCHANGED ladder
       \/ /\ Request(f) \notin recorded
          /\ ~offline /\ f.rung \notin up
          /\ Set(t, Down(f))
          /\ ladder' = Evicted(f.rung)
    /\ UNCHANGED <<deskVars, offline, up, flips, probes, serving, reported,
                   recorded, sessions, signouts>>

\* What _model_turn does with a reply: text ends the rounds, tool calls are
\* run (a rung without a tool parser was sent no tools) and asked about again,
\* and a phrased answer is the turn's text.
Replied(t, f0) ==
    LET f == [f0 EXCEPT !.source = IF f0.cached THEN "cache" ELSE "model"] IN
    IF f.phase = "phrase" THEN Set(t, [f EXCEPT !.pc = "answer", !.text = TRUE])
    ELSE \/ Set(t, Ground([f EXCEPT !.text = TRUE]))
         \/ /\ f.rung \in ToolRungs
            /\ Set(t, NextRound([f EXCEPT !.result =
                                     IF @ = "refused" THEN @ ELSE "data"]))
         \/ /\ f.rung \in ToolRungs /\ call[t].pc = "idle"
            /\ Set(t, [f EXCEPT !.pc = "list"])

\* _serving is assigned, and for a live call _serving_reported after it.
Put(t) ==
    LET f == turn[t]
        s == [kind |-> IF f.cached THEN "cache" ELSE "model", rung |-> f.rung]
        g == [f EXCEPT !.gave = @ \cup {s},
                       !.last = <<s, IF f.cached THEN 0 ELSE ModelName(s.rung)>>] IN
    /\ At(t, "put")
    /\ serving' = s
    /\ IF f.cached THEN Replied(t, g) ELSE Set(t, [g EXCEPT !.pc = "putname"])
    /\ UNCHANGED <<deskVars, offline, up, flips, ladder, probes, reported,
                   recorded, sessions, signouts>>

PutName(t) ==
    LET f == turn[t] IN
    /\ At(t, "putname")
    /\ reported' = ModelName(f.rung)
    /\ recorded' = recorded \cup {Request(f)}
    /\ Replied(t, f)
    /\ UNCHANGED <<deskVars, offline, up, flips, ladder, probes, serving,
                   sessions, signouts>>

\* After an approval was or was not attempted: a turn that came to approve
\* answers, one whose model chose the tool goes on with its rounds.
Attempted(f, result) ==
    IF f.q = "approve" THEN [f EXCEPT !.pc = "answer", !.result = result]
    ELSE NextRound([f EXCEPT !.result = result])

\* What approve_effect is called with: a question to approve takes something
\* of the pending list, a model names any id and either decision.
Attempts(t) ==
    IF turn[t].q = "approve"
    THEN {a \in Approvals : queue[a].state = "pending"} \X {"approve"}
    ELSE Approvals \X {"approve", "reject"}

\* The pending list, then approve_effect under the principal of this moment;
\* an unreadable or empty list, or an id that names nothing, leaves nothing to
\* decide.
ListPending(t) ==
    /\ At(t, "list")
    /\ \/ \E e \in Attempts(t) :
             /\ Order(t, "agent", "clerk", e[1], e[2],
                      Principal(serving, reported))
             /\ Set(t, [turn[t] EXCEPT !.pc = "approve"])
             /\ UNCHANGED faults
       \/ /\ \/ turn[t].q # "approve"
             \/ \A a \in Approvals : queue[a].state # "pending"
          /\ Set(t, Attempted(turn[t], "data"))
          /\ UNCHANGED <<call, faults>>
       \/ /\ Fault
          /\ Set(t, Attempted(turn[t], "data"))
          /\ UNCHANGED call
    /\ UNCHANGED <<queue, chain, token, flowed, offline, up, flips, ladder,
                   probes, serving, reported, recorded, sessions, signouts>>

Approved(t) ==
    /\ At(t, "approve") /\ call[t].pc = "closed"
    /\ Set(t, Attempted(turn[t],
               IF call[t].out.status = "refused" THEN "refused" ELSE "data"))
    /\ UNCHANGED <<deskVars, offline, up, flips, ladder, probes, serving,
                   reported, recorded, sessions, signouts>>

\* Mutant: the header's rung, the one the ladder has active.
AnsweredByActive(t) ==
    IF turn[t].tier = 0 THEN Blank
    ELSE Served([kind |-> "model", rung |-> turn[t].tier], 0)

AnsweredBy(t) == Served(serving, reported)

\* _answer reads served() and then principal(), and a turn that nothing served
\* is no model turn.
Answered(t) ==
    LET s == AnsweredBy(t) IN
    /\ At(t, "answer")
    /\ Set(t, [turn[t] EXCEPT
                  !.pc = "sign", !.served = s,
                  !.source = IF s.source = "none" /\ @ = "model" THEN "mock" ELSE @])
    /\ UNCHANGED <<deskVars, offline, up, flips, ladder, probes, serving,
                   reported, recorded, sessions, signouts>>

Sign(t) ==
    /\ At(t, "sign")
    /\ Set(t, [turn[t] EXCEPT !.pc = "close",
                              !.principal = Principal(serving, reported)])
    /\ UNCHANGED <<deskVars, offline, up, flips, ladder, probes, serving,
                   reported, recorded, sessions, signouts>>

\* The answer goes to the transcript and a line about the turn to the chain.
CloseTurn(t) ==
    /\ At(t, "close")
    /\ Appended(t, "nemoclerk")
    /\ Set(t, [turn[t] EXCEPT !.pc = "done"])
    /\ LET line == [kind |-> "turn", call |-> t, by |-> turn[t].principal] IN
       \/ chain' = chain \cup {line} /\ UNCHANGED faults
       \/ Fault /\ UNCHANGED chain
    /\ UNCHANGED <<queue, call, token, flowed, offline, up, flips, ladder,
                   probes, serving, reported, recorded, signouts>>

-----------------------------------------------------------------------------
(* Around the turns                                                        *)

\* A request to the desk.  An MCP agent is recorded under the clerk's
\* principal of the moment, whatever name it claims.
Desk(c) ==
    /\ \E who \in Sessions, path \in {"http", "mcp"}, a \in Approvals,
          d \in {"approve", "reject"} :
          Order(c, who, path, a, d,
                IF Acts(who, path) = "agent" /\ path = "mcp"
                THEN Principal(serving, reported) ELSE who)
    /\ UNCHANGED <<queue, chain, token, faults, flowed, clerkVars>>

\* Mutant: the transcript of one page.
ClearedPage(s, k) == k = <<s, CHOOSE a \in Areas : TRUE>>

ClearedKeys(s, k) == k[1] = s

\* clear_subject: every transcript of the subject, on every page.
SignOut(s) ==
    /\ signouts < MaxSignOuts
    /\ signouts' = signouts + 1
    /\ sessions' = [k \in DOMAIN sessions |->
                      IF ClearedKeys(s, k) THEN <<>> ELSE sessions[k]]
    /\ turn' = [t \in Turns |-> IF SubjectOf[t] = s /\ turn[t].pc = "done"
                                THEN [turn[t] EXCEPT !.pc = "gone"] ELSE turn[t]]
    /\ UNCHANGED <<deskVars, offline, up, flips, ladder, probes, serving,
                   reported, recorded>>

RungFlips(r) ==
    /\ flips < MaxFlips
    /\ flips' = flips + 1
    /\ up' = IF r \in up THEN up \ {r} ELSE up \cup {r}
    /\ UNCHANGED <<deskVars, offline, ladder, probes, serving, reported,
                   recorded, turn, sessions, signouts>>

Init ==
    /\ DeskInit
    /\ offline \in OfflineModes
    /\ up = Tiers
    /\ flips = 0
    \* the probe of the startup hook is over
    /\ ladder = IF offline THEN [active |-> 0, reach |-> {}, state |-> "done"]
                ELSE [active |-> First(Tiers), reach |-> Tiers, state |-> "done"]
    /\ probes = <<>>
    /\ serving = Nothing
    /\ reported = 0
    /\ recorded = {}
    /\ turn = [t \in Turns |-> NewTurn]
    /\ sessions = [k \in Subjects \X Areas |-> <<>>]
    /\ signouts = 0

Turn(t) ==
    \/ \E q \in Questions : Ask(t, q)
    \/ Clear(t) \/ ClearName(t) \/ Wait(t)
    \/ Chat(t) \/ Rung(t) \/ Put(t) \/ PutName(t)
    \/ ListPending(t) \/ Approved(t)
    \/ Answered(t) \/ Sign(t) \/ CloseTurn(t)

DeskNext ==
    \/ \E c \in Callers : DeskStep(c) /\ UNCHANGED clerkVars
    \/ \E c \in Callers \ Turns : Desk(c) \/ (ReloadAsked(c) /\ UNCHANGED clerkVars)

Next ==
    \/ \E t \in Turns : Turn(t)
    \/ \E i \in DOMAIN probes : Probe(i)
    \/ \E r \in Tiers : RungFlips(r)
    \/ \E s \in Subjects : SignOut(s)
    \/ DeskNext

Spec == Init /\ [][Next]_vars

-----------------------------------------------------------------------------
(* Properties                                                              *)

Models == {-1} \cup 0..Rungs
ServedType == [source : {"none", "cache", "model"}, rung : 0..Rungs,
               model : Models, silicon : BOOLEAN]
PrincipalType == [model : Models, rung : 0..Rungs, cached : BOOLEAN]

\* Every variable has its type; the ladder's active rung is a reachable one.
TypeOK ==
    /\ queue \in [Approvals -> [state : {"pending", "approve", "reject"},
                                by : Callers \cup {None}]]
    /\ \A c \in Callers :
          /\ call[c].pc \in {"idle", "fetch", "rule", "forward", "note",
                             "reload", "closed"}
          /\ call[c].out \in [ledgered : BOOLEAN, status :
                {"none", "missing", "refused", "ok", "error", "unauthenticated",
                 "offline", "performed", "incomplete", "held"}]
    /\ faults \in 0..MaxFaults
    /\ ladder.active \in ladder.reach \cup {0}
    /\ ladder.state \in {"unprobed", "probing", "done"}
    /\ serving \in [kind : {"none", "cache", "model"}, rung : 0..Rungs]
    /\ reported \in Models
    /\ \A t \in Turns : /\ turn[t].served \in ServedType
                        /\ turn[t].principal \in PrincipalType

Told(t) == turn[t].pc \in {"close", "done", "gone"}

\* A turn that overlapped no other names exactly what served it last, in its
\* answer and in the principal the chain keeps: nothing, the replay, or the
\* model that answered, with the rung's silicon only if the endpoint answered
\* as the model the rung is configured for.  (agent.py, served and principal:
\* "A rung earns its name per turn".)
AloneTurnNamesItsServer ==
    \A t \in Turns : Told(t) /\ turn[t].met = {} =>
        /\ turn[t].served = Served(turn[t].last[1], turn[t].last[2])
        /\ turn[t].principal = Principal(turn[t].last[1], turn[t].last[2])

\* Whatever overlaps, a rung an answer names did serve a turn in flight then,
\* and in the way the answer says: the ladder's hope never reaches the record.
NamedRungServed ==
    \A t \in Turns : Told(t) /\ turn[t].served.source # "none" =>
        [kind |-> turn[t].served.source, rung |-> turn[t].served.rung]
            \in UNION {turn[u].gave : u \in turn[t].met \cup {t}}

\* After a sign-out no transcript of the subject, on any page, holds a line
\* of a turn that was over by then.  (sessions.py, clear_subject: "Sign-out
\* clears every session belonging to that subject".)
SignOutClears ==
    \A k \in DOMAIN sessions : \A i \in DOMAIN sessions[k] :
        turn[sessions[k][i][2]].pc # "gone"

\* A turn that says it was refused left its refusal on the chain, as its text
\* tells the user.  (agent.py, _refusal_text: "the refusal is on the ledger
\* with my principal".)
RefusalIsLedgered ==
    \A t \in Turns : Told(t) /\ turn[t].result = "refused" =>
        \E l \in chain : l.call = t /\ l.kind \in {"approval.refused", "helm.refusal"}

\* The active rung is always the first of the reachable ones, so that a turn
\* starts where the ladder says, through evictions and overlapping probes.
ActiveLeads == ladder.active = First(ladder.reach)

\* An answer, the principal on the chain and the rung they name agree with what
\* served, alone exactly and overlapped at least in kind (agent.py, served).
NamesItsServer == AloneTurnNamesItsServer /\ NamedRungServed

\* The variables have their types, the ladder's first reachable rung leads, and
\* a sign-out leaves nothing of a finished turn (ModelLadder, clear_subject).
ClerkIsSound == TypeOK /\ ActiveLeads /\ SignOutClears

=============================================================================
