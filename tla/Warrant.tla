------------------------------ MODULE Warrant ------------------------------
(***************************************************************************)
(* helm's warrant: who may do what to a dataset.  warrant keeps no state   *)
(* of its own.  A request reads the whole chain and folds its executed     *)
(* authz effects into an Authority per dataset (projection.build), guards  *)
(* on that snapshot, and then writes: a signal and an effect, which        *)
(* throughline's gate executes at once or holds for a human.  The guard    *)
(* and the write are separate calls, and two requests may overlap.         *)
(*                                                                         *)
(* auth is the fold of the chain: a signal always precedes its effect and  *)
(* ids are fresh, so folding one entry more is applying it to the fold of  *)
(* the rest.  A signal without an executed effect changes nothing in it.   *)
(***************************************************************************)
EXTENDS Integers, FiniteSets

CONSTANTS
    Datasets,       \* dataset ids
    Persons,        \* OIDC subjects
    Stewards,       \* those signet's role table names federation-steward
    Workers,        \* requests helm serves at once
    Dlgs,           \* delegation ids a dataset may use (a bound)
    Glasses,        \* break-glass request ids a dataset may use (a bound)
    MaxDelegation,  \* MAX_DELEGATION_DAYS, in ticks
    Window,         \* window_minutes, in ticks
    VotesOnce,      \* nobody sends a second vote while the first is on its way
    MaxNow,         \* bound on the clock
    MaxWrites,      \* bound on the effects proposed
    MaxRefusals,    \* bound on the refusals recorded
    None

ASSUME WarrantConstants ==
    /\ Stewards \subseteq Persons
    /\ MaxDelegation \in Nat \ {0} /\ Window \in Nat \ {0}
    /\ MaxNow \in Nat /\ MaxWrites \in Nat /\ MaxRefusals \in Nat
    /\ VotesOnce \in BOOLEAN
    /\ "federation-steward" \notin Datasets

VARIABLES
    auth,     \* dataset -> its Authority, the fold of the executed effects
    queue,    \* effects the gate holds: approval id and entry
    now,      \* the clock expiry is evaluated against
    writes,   \* effects proposed so far
    task      \* worker -> the request it serves, with what it read

vars == <<auth, queue, now, writes, task>>

\* the rules here tell an administrator from the rest: "reader" stands for
\* "steward" too
ROLES == {"reader", "admin"}
BREAKGLASS_QUORUM == 2
BREAKGLASS_DISTINCT_DATASETS == 2
GLOBAL_STEWARD_ROLE == "federation-steward"

Deadlines == 0..(MaxNow + MaxDelegation + Window)
VoteDatasets == Datasets \cup {GLOBAL_STEWARD_ROLE}
Votes == [voter : Persons, dataset : VoteDatasets]

Delegation == [subject : Persons, role : ROLES, by : Persons,
               expires : Deadlines, ended : {"", "revoked", "expired"}]
BreakGlass == [requester : Persons, votes : SUBSET Votes, entered : BOOLEAN,
               expires : Deadlines, exited : {"", "hand", "clock"}]
Authority == [claimed : BOOLEAN,
              grants : [Persons -> ROLES \cup {None}],
              owners : SUBSET Persons,
              delegations : [Dlgs -> Delegation \cup {None}],
              breakglass : [Glasses -> BreakGlass \cup {None}],
              refusals : 0..MaxWrites]

ASSUME NoneIsApart ==
    /\ None \notin ROLES
    /\ None \notin Delegation
    /\ None \notin BreakGlass

Empty == [claimed |-> FALSE, grants |-> [p \in Persons |-> None], owners |-> {},
          delegations |-> [g \in Dlgs |-> None],
          breakglass |-> [b \in Glasses |-> None], refusals |-> 0]

-----------------------------------------------------------------------------
(* The fold: what one executed effect does to the authority it names.      *)

\* Mutant: a second claim is applied like the first
ApplyClaimAgain(a, e) ==
    [a EXCEPT !.claimed = TRUE, !.grants[e.subject] = "admin",
              !.owners = @ \cup {e.subject}]

ApplyClaim(a, e) ==
    IF a.claimed THEN a
    ELSE [a EXCEPT !.claimed = TRUE, !.grants[e.subject] = "admin",
                   !.owners = @ \cup {e.subject}]

\* the owner flag of a previous row survives the new role
ApplyGrant(a, e) == [a EXCEPT !.grants[e.subject] = e.role]

ApplyRevoke(a, e) ==
    [a EXCEPT !.grants[e.subject] = None, !.owners = @ \ {e.subject}]

ApplyDelegate(a, e) ==
    [a EXCEPT !.delegations[e.id] =
        [subject |-> e.subject, role |-> e.role, by |-> e.by,
         expires |-> e.expires, ended |-> ""]]

ApplyDelegationEnd(a, e) ==
    IF a.delegations[e.id] = None THEN a
    ELSE [a EXCEPT !.delegations[e.id].ended = e.as]

ApplyRequested(a, e) ==
    [a EXCEPT !.breakglass[e.id] =
        [requester |-> e.by, votes |-> {}, entered |-> FALSE,
         expires |-> 0, exited |-> ""]]

ApplyVote(a, e) ==
    IF a.breakglass[e.id] = None \/ \E v \in a.breakglass[e.id].votes : v.voter = e.by
    THEN a
    ELSE [a EXCEPT !.breakglass[e.id].votes =
             @ \cup {[voter |-> e.by, dataset |-> e.dataset]}]

ApplyEntered(a, e) ==
    IF a.breakglass[e.id] = None THEN a
    ELSE [a EXCEPT !.breakglass[e.id].entered = TRUE,
                   !.breakglass[e.id].expires = e.expires]

ApplyExited(a, e) ==
    IF a.breakglass[e.id] = None THEN a
    ELSE [a EXCEPT !.breakglass[e.id].exited = e.as]

Apply(a, e) ==
    CASE e.type = "claim"     -> ApplyClaim(a, e)
      [] e.type \in {"grant", "grant.admin"} -> ApplyGrant(a, e)
      [] e.type = "revoke"    -> ApplyRevoke(a, e)
      [] e.type = "delegate"  -> ApplyDelegate(a, e)
      [] e.type = "delegation.end" -> ApplyDelegationEnd(a, e)
      [] e.type = "breakglass.requested" -> ApplyRequested(a, e)
      [] e.type = "breakglass.vote"      -> ApplyVote(a, e)
      [] e.type = "breakglass.entered"   -> ApplyEntered(a, e)
      [] e.type = "breakglass.exited"    -> ApplyExited(a, e)
      [] e.type = "refused"   -> [a EXCEPT !.refusals = @ + 1]

-----------------------------------------------------------------------------
(* What an authority says.                                                 *)

DirectAdmins(a) == {p \in Persons : a.grants[p] = "admin"}

DirectAdminsAfter(a, p, role) ==
    (DirectAdmins(a) \ {p}) \cup (IF role = "admin" THEN {p} ELSE {})

Active(a, d) ==
    /\ d # None /\ d.ended = "" /\ now < d.expires
    /\ a.grants[d.by] = "admin"

Open(b) == b # None /\ b.entered /\ b.exited = "" /\ now < b.expires

\* may(subject, "admin"): by grant, by an active delegation, by an open window
MayAdminister(a, p) ==
    \/ a.grants[p] = "admin"
    \/ \E g \in Dlgs : /\ Active(a, a.delegations[g])
                       /\ a.delegations[g].subject = p
                       /\ a.delegations[g].role = "admin"
    \/ \E b \in Glasses : Open(a.breakglass[b]) /\ a.breakglass[b].requester = p

\* administrators of other datasets, and the named stewards
EligibleVoters(d) ==
    Stewards \cup UNION {DirectAdmins(auth[o]) : o \in Datasets \ {d}}

\* the first dataset the voter administers, or its global role
VoterDatasets(d, p) ==
    LET administers == {o \in Datasets \ {d} : p \in DirectAdmins(auth[o])}
    IN  IF administers = {} THEN {GLOBAL_STEWARD_ROLE} ELSE administers

Quorum(votes) ==
    /\ Cardinality(votes) >= BREAKGLASS_QUORUM
    /\ Cardinality({v.dataset : v \in votes}) >= BREAKGLASS_DISTINCT_DATASETS

\* Mutant: only a revocation is asked what it leaves behind
FloorOfRevoke(a, p, role) ==
    \/ role # None
    \/ DirectAdminsAfter(a, p, role) # {}
    \/ DirectAdmins(a) = {}

\* _require_admin_floor: somebody remains, or nobody was there before
KeepsFloor(a, p, role) ==
    \/ DirectAdminsAfter(a, p, role) # {}
    \/ DirectAdmins(a) = {}
-----------------------------------------------------------------------------
(* Requests.  Each reads a snapshot, guards on it, and leaves the entry it *)
(* will write in its worker's task.  A refusal is an effect of its own.    *)

Idle == [pc |-> "idle"]

\* Mutant: only the type is asked, not the role the signal confers
HeldByType(e) == e.type \in {"grant.admin", "breakglass.entered"}

\* Mutant: an ordinary grant is held too
HeldGrants(e) == e.type \in {"grant", "grant.admin", "breakglass.entered"}

\* The gate holds for a human what its registry row holds (warrant/model.py:
\* 182-184), and an effect whose payload confers an escalating role.
Held(e) ==
    \/ e.type \in {"grant.admin", "breakglass.entered"}
    \/ e.type = "delegate" /\ e.role = "admin"

\* what of the snapshot a request still relies on when it writes
ReadAdmins(d, e) ==
    IF e.type \in {"grant", "revoke"} THEN DirectAdmins(auth[d]) ELSE {}

ReadVotes(d, e) ==
    IF e.type = "breakglass.vote" THEN auth[d].breakglass[e.id].votes ELSE {}

Start(w, d, agent, e) ==
    /\ task[w] = Idle /\ writes < MaxWrites
    /\ task' = [task EXCEPT ![w] =
                  [pc |-> "emit", dataset |-> d, agent |-> agent, entry |-> e,
                   saw |-> ReadAdmins(d, e), votes |-> ReadVotes(d, e)]]
    /\ UNCHANGED <<auth, queue, now, writes>>

\* the entries of a kind on their way to the record of a dataset, at the gate or
\* not yet there
OnTheWay(type, d) ==
    {e \in {task[v].entry : v \in {w \in Workers : task[w].pc = "emit" /\ task[w].dataset = d}}
           \cup {q.entry : q \in {r \in queue : r.dataset = d}} : e.type = type}

\* _id: the clock and three random bytes, so no two requests mint one id
Minted(type, d, i) == \E e \in OnTheWay(type, d) : e.id = i

Casting(d, by, b) == \E e \in OnTheWay("breakglass.vote", d) : e.by = by /\ e.id = b

Refuse(w, d) ==
    /\ \A o \in Datasets : auth[o].refusals < MaxRefusals
    /\ Start(w, d, FALSE, [type |-> "refused"])

Claim(w, d, by) ==
    \/ /\ ~auth[d].claimed
       /\ Start(w, d, FALSE, [type |-> "claim", subject |-> by])
    \/ auth[d].claimed /\ Refuse(w, d)

\* agent: asked through the MCP tool, so the release says caller_role "agent"
Grant(w, d, by, p, role, agent) ==
    LET a == auth[d]
        allowed == a.claimed /\ MayAdminister(a, by) /\ KeepsFloor(a, p, role)
    IN  \/ /\ allowed
           /\ Start(w, d, agent,
                    [type |-> IF role = "admin" THEN "grant.admin" ELSE "grant",
                     subject |-> p, role |-> role])
        \/ ~allowed /\ Refuse(w, d)

Revoke(w, d, by, p) ==
    LET a == auth[d]
        allowed == /\ MayAdminister(a, by) /\ a.grants[p] # None
                   /\ KeepsFloor(a, p, None)
    IN  \/ allowed /\ Start(w, d, FALSE, [type |-> "revoke", subject |-> p])
        \/ ~allowed /\ Refuse(w, d)

\* only a direct administrator lends, and never past the horizon
Delegate(w, d, by, p, role, g, expires) ==
    /\ auth[d].delegations[g] = None /\ ~Minted("delegate", d, g)
    /\ \/ /\ auth[d].grants[by] = "admin"
          /\ Start(w, d, FALSE,
                   [type |-> "delegate", id |-> g, subject |-> p, role |-> role,
                    by |-> by, expires |-> expires])
       \/ auth[d].grants[by] # "admin" /\ Refuse(w, d)

RevokeDelegation(w, d, by, g) ==
    \/ /\ MayAdminister(auth[d], by) /\ auth[d].delegations[g] # None
       /\ Start(w, d, FALSE,
                [type |-> "delegation.end", id |-> g, as |-> "revoked"])
    \/ ~MayAdminister(auth[d], by) /\ Refuse(w, d)

RequestBreakglass(w, d, by, b) ==
    /\ auth[d].breakglass[b] = None /\ ~Minted("breakglass.requested", d, b)
    /\ \/ /\ Cardinality(EligibleVoters(d) \ {by}) >= BREAKGLASS_QUORUM
          /\ Start(w, d, FALSE,
                   [type |-> "breakglass.requested", id |-> b, by |-> by])
       \/ /\ Cardinality(EligibleVoters(d) \ {by}) < BREAKGLASS_QUORUM
          /\ Refuse(w, d)

\* Mutant: the subject asking for the window may vote for it
BallotOfAny(w, d, by, b) ==
    /\ by \in EligibleVoters(d)
    /\ \A v \in auth[d].breakglass[b].votes : v.voter # by
    /\ VotesOnce => ~Casting(d, by, b)
    /\ \E o \in VoterDatasets(d, by) :
          Start(w, d, FALSE,
                [type |-> "breakglass.vote", id |-> b, by |-> by, dataset |-> o])

Ballot(w, d, by, b) ==
    /\ by # auth[d].breakglass[b].requester /\ by \in EligibleVoters(d)
    /\ \A v \in auth[d].breakglass[b].votes : v.voter # by
    /\ VotesOnce => ~Casting(d, by, b)
    /\ \E o \in VoterDatasets(d, by) :
          Start(w, d, FALSE,
                [type |-> "breakglass.vote", id |-> b, by |-> by, dataset |-> o])

VoteBreakglass(w, d, by, b) ==
    /\ auth[d].breakglass[b] # None /\ ~auth[d].breakglass[b].entered
    /\ \/ Ballot(w, d, by, b)
       \/ /\ by = auth[d].breakglass[b].requester \/ by \notin EligibleVoters(d)
          /\ Refuse(w, d)

\* never blocked, not even before the window was entered
ExitBreakglass(w, d, by, b) ==
    /\ auth[d].breakglass[b] # None /\ auth[d].breakglass[b].exited = ""
    /\ Start(w, d, FALSE, [type |-> "breakglass.exited", id |-> b, as |-> "hand"])

\* Mutant: the sweep closes what is still running
LapsedAlready(deadline) == TRUE

Lapsed(deadline) == now >= deadline

\* _expire_lapsed, _expire_breakglass: the record of what the clock ended
Sweep(w, d) ==
    \/ \E g \in Dlgs :
          LET x == auth[d].delegations[g]
          IN  /\ x # None /\ x.ended = "" /\ Lapsed(x.expires)
              /\ Start(w, d, FALSE,
                       [type |-> "delegation.end", id |-> g, as |-> "expired"])
    \/ \E b \in Glasses :
          LET x == auth[d].breakglass[b]
          IN  /\ x # None /\ x.entered /\ x.exited = "" /\ Lapsed(x.expires)
              /\ Start(w, d, FALSE,
                       [type |-> "breakglass.exited", id |-> b, as |-> "clock"])

-----------------------------------------------------------------------------
(* Writing.  The gate executes an effect as it is proposed, or holds it.   *)

Propose(d, e) ==
    /\ writes' = writes + 1
    /\ IF Held(e)
       THEN /\ queue' = queue \cup {[id |-> writes, dataset |-> d, entry |-> e]}
            /\ auth' = auth
       ELSE /\ auth' = [auth EXCEPT ![d] = Apply(@, e)]
            /\ queue' = queue

\* the vote a request cast is counted with those of its own snapshot
CastVotes(t) ==
    t.votes \cup {[voter |-> t.entry.by, dataset |-> t.entry.dataset]}

\* what a release still needs of its request
Releasing(t) == [pc |-> "release", agent |-> t.agent, approval |-> writes]

AfterEmit(t) ==
    IF t.entry.type = "breakglass.vote" /\ Quorum(CastVotes(t))
    THEN [t EXCEPT !.pc = "enter"]
    ELSE IF t.entry.type = "grant.admin"
    THEN Releasing(t)
    ELSE Idle

\* _emit: the signal, then the effect
Emit(w) ==
    LET t == task[w]
    IN  /\ t.pc = "emit" /\ writes < MaxWrites
        /\ Propose(t.dataset, t.entry)
        /\ task' = [task EXCEPT ![w] = AfterEmit(t)]
        /\ UNCHANGED now

\* the window's end is reckoned here, not when the entry is released
EnterBreakglass(w) ==
    LET t == task[w]
    IN  /\ t.pc = "enter" /\ writes < MaxWrites
        /\ Propose(t.dataset, [type |-> "breakglass.entered", id |-> t.entry.id,
                               expires |-> now + Window])
        /\ task' = [task EXCEPT ![w] = Releasing(t)]
        /\ UNCHANGED now

Decided(q) ==
    /\ queue' = queue \ {q}
    /\ auth' = [auth EXCEPT ![q.dataset] = Apply(@, q.entry)]

\* the request decides its own entry; the gate refuses an agent, and an entry
\* somebody else decided is no longer there
Release(w) ==
    LET t == task[w]
        mine == {q \in queue : q.id = t.approval}
    IN  /\ t.pc = "release"
        /\ IF t.agent \/ mine = {} THEN UNCHANGED <<auth, queue>>
           ELSE \E q \in mine : Decided(q)
        /\ task' = [task EXCEPT ![w] = Idle]
        /\ UNCHANGED <<now, writes>>

\* throughline does not answer, or the process ends: the rest is not written
Abandon(w) ==
    /\ task[w] # Idle
    /\ task' = [task EXCEPT ![w] = Idle]
    /\ UNCHANGED <<auth, queue, now, writes>>

\* a held entry stays in the approval queue for anybody allowed to decide it; a
\* lent admin role waits there for nobody in particular
OperatorDecides ==
    /\ \E q \in queue :
          \/ Decided(q)
          \/ queue' = queue \ {q} /\ auth' = auth
    /\ UNCHANGED <<now, writes, task>>

Tick == now < MaxNow /\ now' = now + 1 /\ UNCHANGED <<auth, queue, writes, task>>

Init ==
    /\ auth = [d \in Datasets |-> Empty]
    /\ queue = {} /\ now = 0 /\ writes = 0
    /\ task = [w \in Workers |-> Idle]

\* an expiry is required, is not past, and is at most the horizon away
Horizon == (now + 1)..(now + MaxDelegation)

\* an agent's caller_role is looked at only when it releases a promotion
AsksAs(role) == IF role = "admin" THEN BOOLEAN ELSE {FALSE}

Ask(w) == task[w] = Idle /\ writes < MaxWrites /\ \E d \in Datasets, by \in Persons :
    \/ Claim(w, d, by)
    \/ \E p \in Persons, role \in ROLES : \E agent \in AsksAs(role) :
          Grant(w, d, by, p, role, agent)
    \/ \E p \in Persons : Revoke(w, d, by, p)
    \/ \E p \in Persons, role \in ROLES, g \in Dlgs, t \in Horizon :
          Delegate(w, d, by, p, role, g, t)
    \/ \E g \in Dlgs : RevokeDelegation(w, d, by, g)
    \/ \E b \in Glasses : \/ RequestBreakglass(w, d, by, b)
                          \/ VoteBreakglass(w, d, by, b)
                          \/ ExitBreakglass(w, d, by, b)
    \/ Sweep(w, d)

Serve(w) == Ask(w) \/ Emit(w) \/ EnterBreakglass(w) \/ Release(w)

\* every call answered, every request served to its end
Reliable == (\E w \in Workers : Serve(w)) \/ OperatorDecides \/ Tick

Next == Reliable \/ \E w \in Workers : Abandon(w)

Spec == Init /\ [][Next]_vars

-----------------------------------------------------------------------------
(* Properties.                                                             *)

Pending == [id : 0..MaxWrites, dataset : Datasets,
            entry : [type : {"grant.admin"}, subject : Persons, role : {"admin"}]
               \cup [type : {"breakglass.entered"}, id : Glasses, expires : Deadlines]
               \cup [type : {"delegate"}, id : Dlgs, subject : Persons, role : {"admin"},
                     by : Persons, expires : Deadlines]]

\* The types; a held entry is one of the three kinds the gate holds.
TypeOK ==
    /\ auth \in [Datasets -> Authority]
    /\ queue \subseteq Pending
    /\ now \in 0..MaxNow /\ writes \in 0..MaxWrites
    /\ \A w \in Workers : task[w] = Idle \/ task[w].pc \in {"emit", "enter", "release"}

LendsAdmin(x) == x # None /\ x.role = "admin"

\* A dataset has at most one owner however many claims overlap: the fold takes
\* the first, even though each claimant was answered that it is the first
\* administrator (service.claim guards on a snapshot, _apply on the chain).
OneOwner == \A d \in Datasets : Cardinality(auth[d].owners) <= 1

\* A dataset loses its last direct administrator only in a write whose guard
\* had read other administrators than the chain now names: without such overlap
\* no sequence of grants, promotions, delegations, windows and sweeps orphans it
\* (_require_admin_floor; what it cannot see is the other request).
OrphanedOnlyByOverlap ==
    [][\A d \in Datasets :
          DirectAdmins(auth[d]) # {} /\ DirectAdmins(auth'[d]) = {} =>
              \E w \in Workers : /\ task[w].pc = "emit" /\ task[w].dataset = d
                                 /\ task[w].saw # DirectAdmins(auth[d])]_vars

\* Whoever administers by break-glass was voted in by two others on the record,
\* and, as long as nobody votes twice at once, for two datasets besides this one
\* (vote_breakglass, _enter_breakglass).  A second vote on its way names the
\* dataset its voter administers by then, is counted, and is dropped by the fold.
GlassIsVoted ==
    \A d \in Datasets, b \in Glasses :
        LET x == auth[d].breakglass[b]
        IN  x # None /\ x.entered =>
              /\ Cardinality({v.voter : v \in x.votes} \ {x.requester}) >= 2
              /\ VotesOnce => Cardinality({v.dataset : v \in x.votes} \ {d}) >= 2

\* The record that a delegation lapsed is never written early, whatever happened
\* between the sweep's read and its write (_expire_lapsed).
LapseIsPast ==
    \A d \in Datasets, g \in Dlgs :
        LET x == auth[d].delegations[g]
        IN  x # None /\ x.ended = "expired" => now >= x.expires

\* A direct administrator appears, after the claim, a window opens and the admin
\* role is lent only in a step that takes an entry out of the gate's queue: who
\* may widen access is never widened by the write that asks for it (model.py:183,
\* _release_promotion, gate.py's "payload-confers-admin").
WidenedAtTheGate ==
    [][\A d \in Datasets :
          \/ auth[d].claimed # auth'[d].claimed
          \/ \E q \in queue : q \notin queue' /\ q.dataset = d
          \/ /\ DirectAdmins(auth'[d]) \subseteq DirectAdmins(auth[d])
             /\ \A b \in Glasses : auth[d].breakglass[b] # None =>
                   auth'[d].breakglass[b].entered = auth[d].breakglass[b].entered
             /\ \A g \in Dlgs : LendsAdmin(auth'[d].delegations[g]) =>
                   LendsAdmin(auth[d].delegations[g])]_vars

\* "The Nth vote releases it through the gate" (warrant/routes.py:295): once the
\* record holds a quorum for a window nobody closed, and no request is on the
\* way, the window was entered or its entry waits at the gate.
QuorumOpens ==
    (\A w \in Workers : task[w] = Idle) =>
        \A d \in Datasets, b \in Glasses :
            LET x == auth[d].breakglass[b]
            IN  x # None /\ Quorum(x.votes) =>
                  \/ x.entered \/ x.exited # ""
                  \/ \E q \in queue : q.dataset = d /\ q.entry.type = "breakglass.entered"

\* The variables have their types, rival claims leave one owner, and what is
\* recorded as lapsed has lapsed (Warrant.claim, _expire_lapsed).
RecordIsSound == TypeOK /\ OneOwner /\ LapseIsPast

=============================================================================
