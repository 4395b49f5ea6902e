--------------------------- MODULE WarrantProofs ---------------------------
(***************************************************************************)
(* Theorems about helm's warrant, for any datasets, persons, workers and   *)
(* bounds.  A request writes what it guarded on an older snapshot, so the  *)
(* invariant says of every request on its way, and of every entry the gate *)
(* holds, what of that snapshot still stands in the record.                *)
(***************************************************************************)
EXTENDS Warrant, FiniteSetTheorems, TLAPS

-----------------------------------------------------------------------------
(* What a request may be on its way to write, by kind.                     *)

Claims     == [type : {"claim"}, subject : Persons]
Grants     == [type : {"grant"}, subject : Persons, role : {"reader"}]
Promotions == [type : {"grant.admin"}, subject : Persons, role : {"admin"}]
Revokes    == [type : {"revoke"}, subject : Persons]
Loans      == [type : {"delegate"}, id : Dlgs, subject : Persons, role : ROLES,
               by : Persons, expires : Deadlines]
LoanEnds   == [type : {"delegation.end"}, id : Dlgs, as : {"revoked", "expired"}]
GlassAsks  == [type : {"breakglass.requested"}, id : Glasses, by : Persons]
Ballots    == [type : {"breakglass.vote"}, id : Glasses, by : Persons,
               dataset : VoteDatasets]
Openings   == [type : {"breakglass.entered"}, id : Glasses, expires : Deadlines]
Exits      == [type : {"breakglass.exited"}, id : Glasses, as : {"hand", "clock"}]
Refusals   == [type : {"refused"}]

\* loans the gate holds: the role they confer escalates
AdminLoans == [type : {"delegate"}, id : Dlgs, subject : Persons, role : {"admin"},
               by : Persons, expires : Deadlines]

Entries == Claims \cup Grants \cup Promotions \cup Revokes \cup Loans \cup LoanEnds
           \cup GlassAsks \cup Ballots \cup Exits \cup Refusals

Requests == [pc : {"emit", "enter"}, dataset : Datasets, agent : BOOLEAN,
             entry : Entries, saw : SUBSET Persons, votes : SUBSET Votes]

-----------------------------------------------------------------------------
(* The record itself.                                                      *)

\* votes of two persons and, as long as nobody votes twice at once, of two datasets
TwoVoted(x) ==
    /\ \E u, v \in x.votes : u.voter # v.voter
    /\ VotesOnce => \E u, v \in x.votes : u.dataset # v.dataset

SoundGlass(d, x) ==
    x # None =>
        /\ IsFiniteSet(x.votes)
        /\ \A v \in x.votes : v.voter # x.requester /\ v.dataset # d
        /\ x.entered => TwoVoted(x)

SoundLoan(x, t) == x # None /\ x.ended = "expired" => t >= x.expires

SoundRecord(d, a, t) ==
    /\ \A p, q \in a.owners : p = q
    /\ a.claimed \/ a.owners = {}
    /\ \A g \in Dlgs : SoundLoan(a.delegations[g], t)
    /\ \A b \in Glasses : SoundGlass(d, a.breakglass[b])

-----------------------------------------------------------------------------
(* What of the snapshot it was guarded on an entry can still rely on.      *)

LoanStands(a, e, t) ==
    /\ e.type = "delegate" => a.delegations[e.id] = None
    /\ e.type = "delegation.end" =>
          /\ a.delegations[e.id] # None
          /\ e.as = "expired" => t >= a.delegations[e.id].expires

GlassStands(d, a, e) ==
    /\ e.type = "breakglass.requested" => a.breakglass[e.id] = None
    /\ e.type = "breakglass.vote" =>
          /\ a.breakglass[e.id] # None
          /\ e.by # a.breakglass[e.id].requester /\ e.dataset # d
    /\ e.type = "breakglass.entered" =>
          a.breakglass[e.id] # None /\ TwoVoted(a.breakglass[e.id])
    /\ e.type = "breakglass.exited" => a.breakglass[e.id] # None

EntryStands(d, a, e, t) == LoanStands(a, e, t) /\ GlassStands(d, a, e)

\* the votes a ballot was counted with, and that it is its voter's first
CountStands(a, r) ==
    r.entry.type = "breakglass.vote" =>
        LET x == a.breakglass[r.entry.id]
        IN  /\ r.votes \subseteq x.votes
            /\ \A v \in r.votes : v.voter # r.entry.by
            /\ VotesOnce => \A v \in x.votes : v.voter # r.entry.by

FloorStands(r) ==
    r.entry.type \in {"grant", "revoke"} => r.saw = {} \/ r.saw \ {r.entry.subject} # {}

Stands(a, r, t) ==
    /\ r.pc = "emit" =>
          EntryStands(r.dataset, a, r.entry, t) /\ CountStands(a, r) /\ FloorStands(r)
    /\ r.pc = "enter" =>
          /\ r.entry.type = "breakglass.vote"
          /\ a.breakglass[r.entry.id] # None /\ TwoVoted(a.breakglass[r.entry.id])

\* two entries on their way do not share an id, nor a voter if VotesOnce
Apart(e, f) ==
    e.type = f.type =>
        /\ e.type \in {"delegate", "breakglass.requested"} => e.id # f.id
        /\ VotesOnce /\ e.type = "breakglass.vote" => e.id # f.id \/ e.by # f.by

TasksApart(r, s) ==
    r.pc = "emit" /\ s.pc = "emit" /\ r.dataset = s.dataset => Apart(r.entry, s.entry)

TaskTypes == \A w \in Workers : task[w] = Idle \/ task[w].pc = "release" \/ task[w] \in Requests

Types ==
    /\ auth \in [Datasets -> Authority]
    /\ queue \subseteq Pending
    /\ now \in 0..MaxNow /\ writes \in 0..MaxWrites
    /\ task = [w \in Workers |-> task[w]]
    /\ TaskTypes

Records == \A d \in Datasets : SoundRecord(d, auth[d], now) /\ auth[d].refusals <= writes

Underway ==
    /\ \A w \in Workers : task[w] \in Requests => Stands(auth[task[w].dataset], task[w], now)
    /\ \A v, w \in Workers :
          v # w /\ task[v] \in Requests /\ task[w] \in Requests => TasksApart(task[v], task[w])

Waiting == \A q \in queue : EntryStands(q.dataset, auth[q.dataset], q.entry, now)

\* an entry the gate holds shares no fresh id with another one on its way
QueueApart ==
    /\ \A q \in queue, w \in Workers :
          task[w] \in Requests /\ task[w].pc = "emit" /\ task[w].dataset = q.dataset =>
              Apart(q.entry, task[w].entry)
    /\ \A q, r \in queue : q # r /\ q.dataset = r.dataset => Apart(q.entry, r.entry)

IInv == Types /\ Records /\ Underway /\ Waiting /\ QueueApart

-----------------------------------------------------------------------------
(* What applying an entry of each kind does to a record.                   *)

LEMMA ClaimApplied ==
    ASSUME NEW a \in Authority, NEW e \in Claims
    PROVE  /\ Apply(a, e) \in Authority
           /\ Apply(a, e).delegations = a.delegations
           /\ Apply(a, e).breakglass = a.breakglass
           /\ Apply(a, e).refusals = a.refusals
           /\ Apply(a, e).claimed
           /\ a.claimed => Apply(a, e) = a
           /\ ~a.claimed => Apply(a, e).owners = a.owners \cup {e.subject}
  <1>1. Apply(a, e) = ApplyClaim(a, e)  BY DEF Apply, Claims
  <1>2. CASE a.claimed  BY <1>1, <1>2 DEF ApplyClaim
  <1>3. CASE ~a.claimed
    <2>1. Apply(a, e) = [a EXCEPT !.claimed = TRUE, !.grants = [a.grants EXCEPT ![e.subject] = "admin"],
                                  !.owners = a.owners \cup {e.subject}]
      BY <1>1, <1>3 DEF ApplyClaim
    <2>2. [a.grants EXCEPT ![e.subject] = "admin"] \in [Persons -> ROLES \cup {None}]
      BY DEF Authority, Claims, ROLES
    <2>3. a.owners \cup {e.subject} \in SUBSET Persons  BY DEF Authority, Claims
    <2> QED  BY <1>3, <2>1, <2>2, <2>3 DEF Authority
  <1> QED  BY <1>2, <1>3

LEMMA GrantApplied ==
    ASSUME NEW a \in Authority, NEW e \in Grants \cup Promotions
    PROVE  /\ Apply(a, e) \in Authority
           /\ Apply(a, e) = [a EXCEPT !.grants = [a.grants EXCEPT ![e.subject] = e.role]]
           /\ Apply(a, e).grants = [a.grants EXCEPT ![e.subject] = e.role]
  <1>1. Apply(a, e) = ApplyGrant(a, e)  BY DEF Apply, Grants, Promotions
  <1>2. [a.grants EXCEPT ![e.subject] = e.role] \in [Persons -> ROLES \cup {None}]
    BY DEF Authority, Grants, Promotions, ROLES
  <1> QED  BY <1>1, <1>2 DEF ApplyGrant, Authority

LEMMA RevokeApplied ==
    ASSUME NEW a \in Authority, NEW e \in Revokes
    PROVE  /\ Apply(a, e) \in Authority
           /\ Apply(a, e) = [a EXCEPT !.grants = [a.grants EXCEPT ![e.subject] = None],
                                      !.owners = a.owners \ {e.subject}]
           /\ Apply(a, e).grants = [a.grants EXCEPT ![e.subject] = None]
  <1>1. Apply(a, e) = ApplyRevoke(a, e)  BY DEF Apply, Revokes
  <1>2. [a.grants EXCEPT ![e.subject] = None] \in [Persons -> ROLES \cup {None}]
    BY DEF Authority, Revokes
  <1>3. a.owners \ {e.subject} \in SUBSET Persons  BY DEF Authority
  <1> QED  BY <1>1, <1>2, <1>3 DEF ApplyRevoke, Authority

LEMMA LoanApplied ==
    ASSUME NEW a \in Authority, NEW e \in Loans
    PROVE  LET x == [subject |-> e.subject, role |-> e.role, by |-> e.by,
                     expires |-> e.expires, ended |-> ""]
           IN  /\ x \in Delegation
               /\ Apply(a, e) = [a EXCEPT !.delegations = [a.delegations EXCEPT ![e.id] = x]]
               /\ Apply(a, e) \in Authority
  <1> DEFINE x == [subject |-> e.subject, role |-> e.role, by |-> e.by,
                   expires |-> e.expires, ended |-> ""]
  <1>1. Apply(a, e) = ApplyDelegate(a, e)  BY DEF Apply, Loans
  <1>2. x \in Delegation  BY DEF Loans, Delegation
  <1>3. Apply(a, e) = [a EXCEPT !.delegations = [a.delegations EXCEPT ![e.id] = x]]
    BY <1>1 DEF ApplyDelegate
  <1>4. [a.delegations EXCEPT ![e.id] = x] \in [Dlgs -> Delegation \cup {None}]
    BY <1>2 DEF Authority, Loans
  <1>5. Apply(a, e) \in Authority  BY <1>3, <1>4 DEF Authority
  <1> QED  BY <1>2, <1>3, <1>5

LEMMA LoanEndApplied ==
    ASSUME NEW a \in Authority, NEW e \in LoanEnds, a.delegations[e.id] # None
    PROVE  LET x == [a.delegations[e.id] EXCEPT !.ended = e.as]
           IN  /\ x \in Delegation
               /\ x.expires = a.delegations[e.id].expires /\ x.ended = e.as
               /\ Apply(a, e) = [a EXCEPT !.delegations = [a.delegations EXCEPT ![e.id] = x]]
               /\ Apply(a, e) \in Authority
  <1> DEFINE x == [a.delegations[e.id] EXCEPT !.ended = e.as]
  <1>1. Apply(a, e) = ApplyDelegationEnd(a, e)  BY DEF Apply, LoanEnds
  <1>0. /\ a.delegations[e.id] \in Delegation
        /\ e.id \in Dlgs /\ e.as \in {"revoked", "expired"}
    BY DEF LoanEnds, Authority
  <1>2. /\ x \in Delegation
        /\ x.expires = a.delegations[e.id].expires /\ x.ended = e.as
    BY <1>0 DEF Delegation
  <1>3. Apply(a, e) = [a EXCEPT !.delegations = [a.delegations EXCEPT ![e.id] = x]]
    BY <1>1 DEF ApplyDelegationEnd
  <1>4. [a.delegations EXCEPT ![e.id] = x] \in [Dlgs -> Delegation \cup {None}]
    BY <1>2 DEF Authority, LoanEnds
  <1>5. Apply(a, e) \in Authority  BY <1>3, <1>4 DEF Authority
  <1> QED  BY <1>2, <1>3, <1>5

\* What the four entries about a window put in its place.
Shown(a, e) ==
    CASE e.type = "breakglass.requested" ->
            [requester |-> e.by, votes |-> {}, entered |-> FALSE, expires |-> 0, exited |-> ""]
      [] e.type = "breakglass.vote" ->
            IF \E v \in a.breakglass[e.id].votes : v.voter = e.by THEN a.breakglass[e.id]
            ELSE [a.breakglass[e.id] EXCEPT
                     !.votes = @ \cup {[voter |-> e.by, dataset |-> e.dataset]}]
      [] e.type = "breakglass.entered" ->
            [a.breakglass[e.id] EXCEPT !.entered = TRUE, !.expires = e.expires]
      [] e.type = "breakglass.exited" -> [a.breakglass[e.id] EXCEPT !.exited = e.as]

LEMMA GlassApplied ==
    ASSUME NEW a \in Authority, NEW e \in GlassAsks \cup Ballots \cup Openings \cup Exits,
           e \in GlassAsks \/ a.breakglass[e.id] # None
    PROVE  /\ Shown(a, e) \in BreakGlass
           /\ Apply(a, e) = [a EXCEPT !.breakglass = [a.breakglass EXCEPT ![e.id] = Shown(a, e)]]
           /\ Apply(a, e) \in Authority
  <1>0. e.id \in Glasses  BY DEF GlassAsks, Ballots, Openings, Exits
  <1>1. CASE e \in GlassAsks
    <2>1. /\ Apply(a, e) = ApplyRequested(a, e)
          /\ Shown(a, e) = [requester |-> e.by, votes |-> {}, entered |-> FALSE,
                            expires |-> 0, exited |-> ""]
      BY <1>1 DEF Apply, GlassAsks, Shown
    <2>2. 0 \in Deadlines  BY WarrantConstants DEF Deadlines
    <2>3. e.by \in Persons  BY <1>1 DEF GlassAsks
    <2>4. Shown(a, e) \in BreakGlass
      <3>1. {} \in SUBSET Votes  OBVIOUS
      <3>2. [requester |-> e.by, votes |-> {}, entered |-> FALSE, expires |-> 0, exited |-> ""]
            \in BreakGlass
        BY <2>2, <2>3, <3>1 DEF BreakGlass
      <3> QED  BY <2>1, <3>2
    <2>5. Apply(a, e) = [a EXCEPT !.breakglass = [a.breakglass EXCEPT ![e.id] = Shown(a, e)]]
      BY <2>1 DEF ApplyRequested
    <2>6. [a.breakglass EXCEPT ![e.id] = Shown(a, e)] \in [Glasses -> BreakGlass \cup {None}]
      BY <2>4, <1>0 DEF Authority
    <2>7. Apply(a, e) \in Authority  BY <2>5, <2>6 DEF Authority
    <2> QED  BY <2>4, <2>5, <2>7
  <1>2. CASE e \in Ballots
    <2> DEFINE x == a.breakglass[e.id]
    <2>1. /\ Apply(a, e) = ApplyVote(a, e) /\ x # None /\ x \in BreakGlass
      BY <1>0, <1>2 DEF Apply, Ballots, GlassAsks, Authority
    <2>2. CASE \E v \in x.votes : v.voter = e.by
      <3>1. Shown(a, e) = x  BY <1>2, <2>2 DEF Shown, Ballots
      <3>2. Apply(a, e) = a  BY <2>1, <2>2 DEF ApplyVote
      <3>3. [a.breakglass EXCEPT ![e.id] = x] = a.breakglass  BY <1>0 DEF Authority
      <3>4. [a EXCEPT !.breakglass = a.breakglass] = a  BY DEF Authority
      <3> QED  BY <3>1, <3>2, <3>3, <3>4, <2>1
    <2>3. CASE ~ \E v \in x.votes : v.voter = e.by
      <3> DEFINE y == [x EXCEPT !.votes = x.votes \cup {[voter |-> e.by, dataset |-> e.dataset]}]
      <3>1. Shown(a, e) = y  BY <1>2, <2>3 DEF Shown, Ballots
      <3>2. Apply(a, e) = [a EXCEPT !.breakglass = [a.breakglass EXCEPT ![e.id] = y]]
        BY <2>1, <2>3 DEF ApplyVote
      <3>3. [voter |-> e.by, dataset |-> e.dataset] \in Votes  BY <1>2 DEF Ballots, Votes
      <3>4. y \in BreakGlass  BY <2>1, <3>3 DEF BreakGlass
      <3>5. [a.breakglass EXCEPT ![e.id] = y] \in [Glasses -> BreakGlass \cup {None}]
        BY <3>4, <1>0 DEF Authority
      <3> HIDE DEF y
      <3>6. Apply(a, e) \in Authority  BY <3>2, <3>5 DEF Authority
      <3> QED  BY <3>1, <3>2, <3>4, <3>6
    <2> QED  BY <2>2, <2>3
  <1>3. CASE e \in Openings
    <2> DEFINE x == a.breakglass[e.id]
               y == [x EXCEPT !.entered = TRUE, !.expires = e.expires]
    <2>1. /\ Apply(a, e) = ApplyEntered(a, e) /\ x # None /\ x \in BreakGlass /\ Shown(a, e) = y
      BY <1>0, <1>3 DEF Apply, Openings, GlassAsks, Authority, Shown
    <2>2. y \in BreakGlass  BY <2>1, <1>3 DEF BreakGlass, Openings
    <2>3. Apply(a, e) = [a EXCEPT !.breakglass = [a.breakglass EXCEPT ![e.id] = y]]
      <3> DEFINE z == [x EXCEPT !.entered = TRUE]
                 g == [a.breakglass EXCEPT ![e.id] = z]
                 c == [a EXCEPT !.breakglass = g]
      <3>1. Apply(a, e) = [c EXCEPT !.breakglass = [c.breakglass EXCEPT ![e.id] =
                             [c.breakglass[e.id] EXCEPT !.expires = e.expires]]]
        BY <2>1 DEF ApplyEntered
      <3>2. g[e.id] = z  BY <1>0 DEF Authority
      <3>3. c.breakglass = g  BY DEF Authority
      <3>4. [z EXCEPT !.expires = e.expires] = y  BY <2>1 DEF BreakGlass
      <3>5. Apply(a, e) = [c EXCEPT !.breakglass = [g EXCEPT ![e.id] = y]]
        BY <3>1, <3>2, <3>3, <3>4
      <3>6. [g EXCEPT ![e.id] = y] = [a.breakglass EXCEPT ![e.id] = y]
        BY <1>0 DEF Authority
      <3> HIDE DEF y, g
      <3>7. [c EXCEPT !.breakglass = [g EXCEPT ![e.id] = y]]
            = [a EXCEPT !.breakglass = [g EXCEPT ![e.id] = y]]
        BY DEF Authority
      <3> QED  BY <3>5, <3>6, <3>7
    <2>4. [a.breakglass EXCEPT ![e.id] = y] \in [Glasses -> BreakGlass \cup {None}]
      BY <2>2, <1>0 DEF Authority
    <2> HIDE DEF y
    <2>5. Apply(a, e) \in Authority  BY <2>3, <2>4 DEF Authority
    <2> QED  BY <2>1, <2>2, <2>3, <2>5
  <1>4. CASE e \in Exits
    <2> DEFINE x == a.breakglass[e.id]
               y == [x EXCEPT !.exited = e.as]
    <2>1. /\ Apply(a, e) = ApplyExited(a, e) /\ x # None /\ x \in BreakGlass /\ Shown(a, e) = y
      BY <1>0, <1>4 DEF Apply, Exits, GlassAsks, Authority, Shown
    <2>2. y \in BreakGlass  BY <2>1, <1>4 DEF BreakGlass, Exits
    <2>3. Apply(a, e) = [a EXCEPT !.breakglass = [a.breakglass EXCEPT ![e.id] = y]]
      BY <2>1 DEF ApplyExited
    <2>4. [a.breakglass EXCEPT ![e.id] = y] \in [Glasses -> BreakGlass \cup {None}]
      BY <2>2, <1>0 DEF Authority
    <2> HIDE DEF y
    <2>5. Apply(a, e) \in Authority  BY <2>3, <2>4 DEF Authority
    <2> QED  BY <2>1, <2>2, <2>3, <2>5
  <1> QED  BY <1>1, <1>2, <1>3, <1>4

LEMMA RefusalApplied ==
    ASSUME NEW a \in Authority, NEW e \in Refusals, a.refusals < MaxWrites
    PROVE  /\ Apply(a, e) \in Authority
           /\ Apply(a, e) = [a EXCEPT !.refusals = a.refusals + 1]
  <1>1. Apply(a, e) = [a EXCEPT !.refusals = a.refusals + 1]  BY DEF Apply, Refusals
  <1>2. a.refusals + 1 \in 0..MaxWrites  BY WarrantConstants DEF Authority
  <1> QED  BY <1>1, <1>2 DEF Authority

-----------------------------------------------------------------------------
(* What an entry that stands leaves of a record: nothing that was there is *)
(* forgotten, and something appears only under the entry's own id.         *)

LoansKept(a, c, e) ==
    \A g \in Dlgs :
        /\ a.delegations[g] # None =>
              /\ c.delegations[g] # None
              /\ c.delegations[g].expires = a.delegations[g].expires
        /\ a.delegations[g] = None =>
              c.delegations[g] = None \/ (e.type = "delegate" /\ e.id = g)

GlassKept(a, c, e) ==
    \A b \in Glasses :
        LET x == a.breakglass[b]
            y == c.breakglass[b]
        IN  /\ x # None =>
                  /\ y # None /\ y.requester = x.requester /\ x.votes \subseteq y.votes
                  /\ \A v \in y.votes :
                        v \in x.votes \/ (e.type = "breakglass.vote" /\ e.id = b /\ v.voter = e.by)
            /\ x = None => y = None \/ (e.type = "breakglass.requested" /\ e.id = b)

Kept(a, c, e) == LoansKept(a, c, e) /\ GlassKept(a, c, e)

LEMMA NothingChanged ==
    ASSUME NEW a \in Authority, NEW c, NEW e,
           c.delegations = a.delegations, c.breakglass = a.breakglass
    PROVE  Kept(a, c, e)
  <1>1. LoansKept(a, c, e)  BY DEF LoansKept
  <1>2. GlassKept(a, c, e)  BY Zenon DEF GlassKept
  <1> QED  BY <1>1, <1>2 DEF Kept

\* A vote counted on top of those it was counted with is on the record.
LEMMA VoteCounts ==
    ASSUME NEW a \in Authority, NEW e \in Ballots, a.breakglass[e.id] # None
    PROVE  LET x == a.breakglass[e.id]
               own == [voter |-> e.by, dataset |-> e.dataset]
           IN  /\ Shown(a, e).requester = x.requester /\ Shown(a, e).entered = x.entered
               /\ x.votes \subseteq Shown(a, e).votes
               /\ Shown(a, e).votes \subseteq x.votes \cup {own}
               /\ \E v \in Shown(a, e).votes : v.voter = e.by
               /\ (\A v \in x.votes : v.voter # e.by) => own \in Shown(a, e).votes
               /\ IsFiniteSet(x.votes) => IsFiniteSet(Shown(a, e).votes)
  <1> DEFINE x == a.breakglass[e.id]
             own == [voter |-> e.by, dataset |-> e.dataset]
  <1>1. x \in BreakGlass  BY DEF Ballots, Authority
  <1>2. CASE \E v \in x.votes : v.voter = e.by
    <2>1. Shown(a, e) = x  BY <1>2 DEF Shown, Ballots
    <2> QED  BY <2>1, <1>2
  <1>3. CASE ~ \E v \in x.votes : v.voter = e.by
    <2>1. Shown(a, e) = [x EXCEPT !.votes = x.votes \cup {own}]  BY <1>3 DEF Shown, Ballots
    <2> HIDE DEF own
    <2>2. /\ Shown(a, e).votes = x.votes \cup {own}
          /\ Shown(a, e).requester = x.requester /\ Shown(a, e).entered = x.entered
      BY <2>1, <1>1 DEF BreakGlass
    <2>3. own.voter = e.by  BY DEF own
    <2>4. IsFiniteSet(x.votes) => IsFiniteSet(x.votes \cup {own})  BY FS_AddElement
    <2> HIDE DEF x
    <2>5. /\ x.votes \subseteq x.votes \cup {own} /\ own \in x.votes \cup {own}  OBVIOUS
    <2>6. \E v \in Shown(a, e).votes : v.voter = e.by  BY <2>2, <2>3, <2>5
    <2> QED  BY <2>2, <2>4, <2>5, <2>6 DEF x, own
  <1> QED  BY <1>2, <1>3

\* More votes do not undo a quorum.
LEMMA QuorumGrows ==
    ASSUME NEW x, NEW y, x.votes \subseteq y.votes, TwoVoted(x)
    PROVE  TwoVoted(y)
  <1>1. \E u, v \in y.votes : u.voter # v.voter
    <2>1. PICK u \in x.votes, v \in x.votes : u.voter # v.voter  BY DEF TwoVoted
    <2>2. u \in y.votes /\ v \in y.votes  BY <2>1
    <2> QED  BY <2>1, <2>2
  <1>2. ASSUME VotesOnce PROVE \E u, v \in y.votes : u.dataset # v.dataset
    <2>1. PICK u \in x.votes, v \in x.votes : u.dataset # v.dataset  BY <1>2 DEF TwoVoted
    <2>2. u \in y.votes /\ v \in y.votes  BY <2>1
    <2> QED  BY <2>1, <2>2
  <1> QED  BY <1>1, <1>2 DEF TwoVoted

LEMMA GlassStaysSound ==
    ASSUME NEW d \in Datasets, NEW a \in Authority,
           NEW e \in GlassAsks \cup Ballots \cup Openings \cup Exits,
           GlassStands(d, a, e), SoundGlass(d, a.breakglass[e.id])
    PROVE  /\ SoundGlass(d, Shown(a, e))
           /\ a.breakglass[e.id] # None =>
                 /\ Shown(a, e).requester = a.breakglass[e.id].requester
                 /\ a.breakglass[e.id].votes \subseteq Shown(a, e).votes
                 /\ \A v \in Shown(a, e).votes :
                       v \in a.breakglass[e.id].votes \/ (e.type = "breakglass.vote" /\ v.voter = e.by)
  <1> DEFINE x == a.breakglass[e.id]
             y == Shown(a, e)
  <1>0. e.id \in Glasses  BY DEF GlassAsks, Ballots, Openings, Exits
  <1>1. CASE e \in GlassAsks
    <2>1. x = None  BY <1>1 DEF GlassStands, GlassAsks
    <2>2. y = [requester |-> e.by, votes |-> {}, entered |-> FALSE, expires |-> 0, exited |-> ""]
      BY <1>1 DEF Shown, GlassAsks
    <2> DEFINE z == [requester |-> e.by, votes |-> {}, entered |-> FALSE, expires |-> 0,
                     exited |-> ""]
    <2>7. z.votes = {} /\ z.entered = FALSE  OBVIOUS
    <2>8. y = z  BY <2>2
    <2> HIDE DEF z, y
    <2>3. y.votes = {} /\ ~y.entered  BY <2>7, <2>8
    <2> USE DEF y
    <2>4. SoundGlass(d, y)  BY <2>3, FS_EmptySet DEF SoundGlass
    <2> QED  BY <2>1, <2>4
  <1>2. CASE e \in Ballots
    <2> DEFINE own == [voter |-> e.by, dataset |-> e.dataset]
    <2>1. x # None /\ e.by # x.requester /\ e.dataset # d
      BY <1>2 DEF GlassStands, Ballots
    <2>2. /\ y.requester = x.requester /\ y.entered = x.entered
          /\ x.votes \subseteq y.votes /\ y.votes \subseteq x.votes \cup {own}
          /\ IsFiniteSet(x.votes) => IsFiniteSet(y.votes)
      BY <1>2, <2>1, VoteCounts
    <2>3. own.voter = e.by /\ own.dataset = e.dataset  OBVIOUS
    <2>4. \A v \in y.votes : v.voter # y.requester /\ v.dataset # d
      BY <2>1, <2>2, <2>3 DEF SoundGlass
    <2>5. y.entered => TwoVoted(y)  BY <2>1, <2>2, QuorumGrows DEF SoundGlass
    <2>6. SoundGlass(d, y)  BY <2>1, <2>2, <2>4, <2>5 DEF SoundGlass
    <2>7. e.type = "breakglass.vote"  BY <1>2 DEF Ballots
    <2> HIDE DEF y, own
    <2>8. \A v \in y.votes : v \in x.votes \/ v.voter = e.by  BY <2>2, <2>3
    <2> HIDE DEF x
    <2> QED  BY <2>2, <2>6, <2>7, <2>8, Zenon DEF x, y
  <1>3. CASE e \in Openings \cup Exits
    <2>1. x # None /\ x \in BreakGlass
      BY <1>0, <1>3 DEF GlassStands, Openings, Exits, Authority
    <2>2. /\ y = [x EXCEPT !.entered = TRUE, !.expires = e.expires] /\ TwoVoted(x)
          \/ y = [x EXCEPT !.exited = e.as]
      BY <1>3 DEF Shown, Openings, Exits, GlassStands
    <2>3. /\ y.requester = x.requester /\ y.votes = x.votes
          /\ y.entered => TwoVoted(x)
      <3>1. CASE y = [x EXCEPT !.entered = TRUE, !.expires = e.expires] /\ TwoVoted(x)
        BY <3>1, <2>1 DEF BreakGlass
      <3>2. CASE y = [x EXCEPT !.exited = e.as]
        <4>1. y.requester = x.requester /\ y.votes = x.votes /\ y.entered = x.entered
          BY <3>2, <2>1 DEF BreakGlass
        <4> QED  BY <4>1, <2>1 DEF SoundGlass
      <3> QED  BY <2>2, <3>1, <3>2
    <2>4. SoundGlass(d, y)  BY <2>1, <2>3, QuorumGrows DEF SoundGlass
    <2> HIDE DEF x, y
    <2>5. x.votes \subseteq y.votes /\ \A v \in y.votes : v \in x.votes  BY <2>3
    <2> QED  BY <2>3, <2>4, <2>5, Zenon DEF x, y
  <1> QED  BY <1>1, <1>2, <1>3

\* The seven kinds of entry that leave the windows alone, one by one.
OtherEntries == Claims \cup Grants \cup Promotions \cup Revokes \cup Loans \cup LoanEnds
                \cup Refusals

LEMMA EntriesSplit ==
    Entries \cup Openings = OtherEntries \cup (GlassAsks \cup Ballots \cup Openings \cup Exits)
  BY DEF Entries, OtherEntries

LEMMA OthersApplied ==
    ASSUME NEW a \in Authority, NEW e \in OtherEntries, NEW t \in Nat, LoanStands(a, e, t),
           e.type = "refused" => a.refusals < MaxWrites
    PROVE  LET c == Apply(a, e)
           IN  /\ c \in Authority /\ c.breakglass = a.breakglass
               /\ c.refusals = IF e.type = "refused" THEN a.refusals + 1 ELSE a.refusals
               /\ e \notin Loans \cup LoanEnds => c.delegations = a.delegations
  <1> DEFINE c == Apply(a, e)
             Goal == /\ c \in Authority /\ c.breakglass = a.breakglass
                     /\ c.refusals = IF e.type = "refused" THEN a.refusals + 1 ELSE a.refusals
                     /\ e \notin Loans \cup LoanEnds => c.delegations = a.delegations
  <1>1. CASE e \in Claims
    <2>1. e.type # "refused"  BY <1>1 DEF Claims
    <2> QED  BY <1>1, <2>1, ClaimApplied
  <1>2. CASE e \in Grants \cup Promotions
    <2>1. e.type # "refused"  BY <1>2 DEF Grants, Promotions
    <2>2. /\ c \in Authority
          /\ c = [a EXCEPT !.grants = [a.grants EXCEPT ![e.subject] = e.role]]
      BY <1>2, GrantApplied
    <2> QED  BY <2>1, <2>2 DEF Authority
  <1>3. CASE e \in Revokes
    <2>1. e.type # "refused"  BY <1>3 DEF Revokes
    <2>2. /\ c \in Authority
          /\ c = [a EXCEPT !.grants = [a.grants EXCEPT ![e.subject] = None],
                           !.owners = a.owners \ {e.subject}]
      BY <1>3, RevokeApplied
    <2> QED  BY <2>1, <2>2 DEF Authority
  <1>4. CASE e \in Loans
    <2>1. e.type # "refused"  BY <1>4 DEF Loans
    <2>2. PICK m : /\ c = [a EXCEPT !.delegations = m] /\ c \in Authority  BY <1>4, LoanApplied
    <2> QED  BY <1>4, <2>1, <2>2 DEF Authority
  <1>5. CASE e \in LoanEnds
    <2>1. e.type # "refused" /\ a.delegations[e.id] # None
      BY <1>5 DEF LoanEnds, LoanStands
    <2>2. PICK m : /\ c = [a EXCEPT !.delegations = m] /\ c \in Authority
      BY <1>5, <2>1, LoanEndApplied
    <2> QED  BY <1>5, <2>1, <2>2 DEF Authority
  <1>6. CASE e \in Refusals
    <2>1. e.type = "refused"  BY <1>6 DEF Refusals
    <2>2. /\ c \in Authority /\ c = [a EXCEPT !.refusals = a.refusals + 1]
      BY <1>6, <2>1, RefusalApplied
    <2> QED  BY <2>1, <2>2 DEF Authority
  <1> QED  BY <1>1, <1>2, <1>3, <1>4, <1>5, <1>6 DEF OtherEntries

\* Loans: none is forgotten, and one recorded as lapsed has lapsed.
LEMMA LoansStaySound ==
    ASSUME NEW a \in Authority, NEW e \in OtherEntries, NEW t \in Nat, LoanStands(a, e, t),
           \A g \in Dlgs : SoundLoan(a.delegations[g], t),
           e.type = "refused" => a.refusals < MaxWrites
    PROVE  /\ LoansKept(a, Apply(a, e), e)
           /\ \A g \in Dlgs : SoundLoan(Apply(a, e).delegations[g], t)
  <1> DEFINE c == Apply(a, e)
  <1>1. CASE e \in Loans
    <2> DEFINE x == [subject |-> e.subject, role |-> e.role, by |-> e.by,
                     expires |-> e.expires, ended |-> ""]
    <2>1. /\ c = [a EXCEPT !.delegations = [a.delegations EXCEPT ![e.id] = x]]
      BY <1>1, LoanApplied
    <2>2. x.ended # "expired"  OBVIOUS
    <2>3. e.type = "delegate" /\ e.id \in Dlgs /\ a.delegations[e.id] = None
      BY <1>1 DEF Loans, LoanStands
    <2> HIDE DEF x
    <2>4. c.delegations = [a.delegations EXCEPT ![e.id] = x]  BY <2>1 DEF Authority
    <2> HIDE DEF c
    <2>5. \A g \in Dlgs : c.delegations[g] = IF g = e.id THEN x ELSE a.delegations[g]
      BY <2>3, <2>4 DEF Authority
    <2>6. LoansKept(a, c, e)  BY <2>3, <2>5 DEF LoansKept
    <2>7. \A g \in Dlgs : SoundLoan(c.delegations[g], t)  BY <2>2, <2>5 DEF SoundLoan
    <2> QED  BY <2>6, <2>7 DEF c
  <1>2. CASE e \in LoanEnds
    <2> DEFINE x == [a.delegations[e.id] EXCEPT !.ended = e.as]
    <2>1. /\ e.type = "delegation.end" /\ e.id \in Dlgs /\ a.delegations[e.id] # None
          /\ e.as = "expired" => t >= a.delegations[e.id].expires
      BY <1>2 DEF LoanEnds, LoanStands
    <2>2. /\ x \in Delegation
          /\ x.expires = a.delegations[e.id].expires /\ x.ended = e.as
          /\ c = [a EXCEPT !.delegations = [a.delegations EXCEPT ![e.id] = x]]
      BY <1>2, <2>1, LoanEndApplied
    <2>3. x # None  BY <2>2, NoneIsApart
    <2> HIDE DEF x
    <2>4. c.delegations = [a.delegations EXCEPT ![e.id] = x]  BY <2>2 DEF Authority
    <2> HIDE DEF c
    <2>5. \A g \in Dlgs : c.delegations[g] = IF g = e.id THEN x ELSE a.delegations[g]
      BY <2>1, <2>4 DEF Authority
    <2>6. LoansKept(a, c, e)  BY <2>1, <2>2, <2>3, <2>5 DEF LoansKept
    <2>7. \A g \in Dlgs : SoundLoan(c.delegations[g], t)
      BY <2>1, <2>2, <2>5 DEF SoundLoan
    <2> QED  BY <2>6, <2>7 DEF c
  <1>3. CASE e \notin Loans \cup LoanEnds
    <2>1. c.delegations = a.delegations  BY <1>3, OthersApplied
    <2> HIDE DEF c
    <2>2. LoansKept(a, c, e)  BY <2>1 DEF LoansKept
    <2> QED  BY <2>1, <2>2 DEF c
  <1> QED  BY <1>1, <1>2, <1>3

\* The first claim is the last to name an owner.
LEMMA OwnersStaySound ==
    ASSUME NEW a \in Authority, NEW e \in Entries \cup Openings, NEW t \in Nat, NEW d \in Datasets,
           EntryStands(d, a, e, t), e.type = "refused" => a.refusals < MaxWrites,
           \A p, q \in a.owners : p = q, a.claimed \/ a.owners = {}
    PROVE  LET c == Apply(a, e)
           IN  (\A p, q \in c.owners : p = q) /\ (c.claimed \/ c.owners = {})
  <1> DEFINE c == Apply(a, e)
  <1>1. CASE e \in Claims
    <2>1. /\ c.claimed
          /\ a.claimed => c = a
          /\ ~a.claimed => c.owners = a.owners \cup {e.subject}
      BY <1>1, ClaimApplied
    <2> HIDE DEF c
    <2>2. CASE a.claimed
      <3>1. c = a  BY <2>1, <2>2
      <3> QED  BY <3>1 DEF c
    <2>3. CASE ~a.claimed
      <3>1. c.owners = {e.subject}  BY <2>1, <2>3
      <3>2. \A p, q \in c.owners : p = q  BY <3>1
      <3> QED  BY <2>1, <3>2 DEF c
    <2> QED  BY <2>2, <2>3
  <1>2. CASE e \in Revokes
    <2>1. c = [a EXCEPT !.grants = [a.grants EXCEPT ![e.subject] = None],
                        !.owners = a.owners \ {e.subject}]
      BY <1>2, RevokeApplied
    <2>2. c.owners = a.owners \ {e.subject} /\ c.claimed = a.claimed  BY <2>1 DEF Authority
    <2> HIDE DEF c
    <2> QED  BY <2>2 DEF c
  <1>3. ASSUME c.owners = a.owners, c.claimed = a.claimed
        PROVE  (\A p, q \in c.owners : p = q) /\ (c.claimed \/ c.owners = {})
    BY <1>3
  <1>4. CASE e \in Grants \cup Promotions
    <2>1. c = [a EXCEPT !.grants = [a.grants EXCEPT ![e.subject] = e.role]]
      BY <1>4, GrantApplied
    <2>2. c.owners = a.owners /\ c.claimed = a.claimed  BY <2>1 DEF Authority
    <2> QED  BY <2>2, <1>3
  <1>5. CASE e \in Loans
    <2>1. PICK m : c = [a EXCEPT !.delegations = m]  BY <1>5, LoanApplied
    <2>2. c.owners = a.owners /\ c.claimed = a.claimed  BY <2>1 DEF Authority
    <2> QED  BY <2>2, <1>3
  <1>6. CASE e \in LoanEnds
    <2>1. a.delegations[e.id] # None  BY <1>6 DEF EntryStands, LoanStands, LoanEnds
    <2>2. PICK m : c = [a EXCEPT !.delegations = m]
      <3>1. c = [a EXCEPT !.delegations = [a.delegations EXCEPT ![e.id] =
                   [a.delegations[e.id] EXCEPT !.ended = e.as]]]
        BY <1>6, <2>1, LoanEndApplied
      <3> QED  BY <3>1
    <2>3. c.owners = a.owners /\ c.claimed = a.claimed  BY <2>2 DEF Authority
    <2> QED  BY <2>3, <1>3
  <1>7. CASE e \in Refusals
    <2>1. e.type = "refused"  BY <1>7 DEF Refusals
    <2>2. c = [a EXCEPT !.refusals = a.refusals + 1]  BY <1>7, <2>1, RefusalApplied
    <2>3. c.owners = a.owners /\ c.claimed = a.claimed  BY <2>2 DEF Authority
    <2> QED  BY <2>3, <1>3
  <1>8. CASE e \in GlassAsks \cup Ballots \cup Openings \cup Exits
    <2>1. e \in GlassAsks \/ a.breakglass[e.id] # None
      BY <1>8 DEF EntryStands, GlassStands, Ballots, Openings, Exits
    <2>2. PICK m : c = [a EXCEPT !.breakglass = m]  BY <1>8, <2>1, GlassApplied
    <2>3. c.owners = a.owners /\ c.claimed = a.claimed  BY <2>2 DEF Authority
    <2> QED  BY <2>3, <1>3
  <1> QED  BY <1>1, <1>2, <1>4, <1>5, <1>6, <1>7, <1>8, EntriesSplit DEF OtherEntries

\* The window an entry names, and every other one.
LEMMA WindowsMove ==
    ASSUME NEW d \in Datasets, NEW a \in Authority, NEW t \in Nat,
           NEW e \in GlassAsks \cup Ballots \cup Openings \cup Exits, EntryStands(d, a, e, t),
           \A b \in Glasses : SoundGlass(d, a.breakglass[b])
    PROVE  LET c == Apply(a, e)
           IN  /\ c \in Authority /\ c.delegations = a.delegations /\ c.refusals = a.refusals
               /\ c.grants = a.grants /\ c.claimed = a.claimed
               /\ \A b \in Glasses : SoundGlass(d, c.breakglass[b])
               /\ GlassKept(a, c, e)
  <1> DEFINE c == Apply(a, e)
             y == Shown(a, e)
  <1>1. e.id \in Glasses  BY DEF GlassAsks, Ballots, Openings, Exits
  <1>2. /\ e \in GlassAsks \/ a.breakglass[e.id] # None
        /\ GlassStands(d, a, e)
    BY DEF EntryStands, GlassStands, Ballots, Openings, Exits
  <1>3. /\ y \in BreakGlass /\ c \in Authority
        /\ c = [a EXCEPT !.breakglass = [a.breakglass EXCEPT ![e.id] = y]]
    BY <1>2, GlassApplied
  <1>4. /\ SoundGlass(d, y)
        /\ a.breakglass[e.id] # None =>
              /\ y.requester = a.breakglass[e.id].requester
              /\ a.breakglass[e.id].votes \subseteq y.votes
              /\ \A v \in y.votes :
                    v \in a.breakglass[e.id].votes \/ (e.type = "breakglass.vote" /\ v.voter = e.by)
    BY <1>1, <1>2, GlassStaysSound
  <1>5. y # None  BY <1>3, NoneIsApart
  <1>6. a.breakglass[e.id] = None => e.type = "breakglass.requested"
    BY <1>2 DEF GlassAsks
  <1> HIDE DEF y
  <1>7. /\ c.delegations = a.delegations /\ c.refusals = a.refusals
        /\ c.grants = a.grants /\ c.claimed = a.claimed
        /\ c.breakglass = [a.breakglass EXCEPT ![e.id] = y]
    BY <1>3 DEF Authority
  <1> HIDE DEF c
  <1>8. \A b \in Glasses : c.breakglass[b] = IF b = e.id THEN y ELSE a.breakglass[b]
    BY <1>1, <1>7 DEF Authority
  <1>9. \A b \in Glasses : SoundGlass(d, c.breakglass[b])  BY <1>4, <1>8
  <1>10. GlassKept(a, c, e)
    <2> SUFFICES ASSUME NEW b \in Glasses
                 PROVE  LET x == a.breakglass[b]
                            z == c.breakglass[b]
                        IN  /\ x # None =>
                               /\ z # None /\ z.requester = x.requester /\ x.votes \subseteq z.votes
                               /\ \A v \in z.votes :
                                     v \in x.votes \/ (e.type = "breakglass.vote" /\ e.id = b /\ v.voter = e.by)
                            /\ x = None => z = None \/ (e.type = "breakglass.requested" /\ e.id = b)
      BY DEF GlassKept
    <2>1. CASE b = e.id  BY <1>4, <1>5, <1>6, <1>8, <2>1
    <2>2. CASE b # e.id  BY <1>8, <2>2
    <2> QED  BY <2>1, <2>2
  <1> QED  BY <1>3, <1>7, <1>9, <1>10 DEF c

\* A record stays sound under an entry that stands, and forgets nothing.
LEMMA RecordStaysSound ==
    ASSUME NEW d \in Datasets, NEW a \in Authority, NEW t \in Nat,
           NEW e \in Entries \cup Openings, EntryStands(d, a, e, t), SoundRecord(d, a, t),
           e.type = "refused" => a.refusals < MaxWrites
    PROVE  LET c == Apply(a, e)
           IN  /\ c \in Authority /\ SoundRecord(d, c, t) /\ Kept(a, c, e)
               /\ c.refusals = IF e.type = "refused" THEN a.refusals + 1 ELSE a.refusals
  <1> DEFINE c == Apply(a, e)
  <1>1. (\A p, q \in c.owners : p = q) /\ (c.claimed \/ c.owners = {})
    BY OwnersStaySound DEF SoundRecord
  <1>2. CASE e \in GlassAsks \cup Ballots \cup Openings \cup Exits
    <2>1. /\ c \in Authority /\ c.delegations = a.delegations /\ c.refusals = a.refusals
          /\ \A b \in Glasses : SoundGlass(d, c.breakglass[b])
          /\ GlassKept(a, c, e)
      BY <1>2, WindowsMove DEF SoundRecord
    <2>2. e.type # "refused"  BY <1>2 DEF GlassAsks, Ballots, Openings, Exits
    <2> HIDE DEF c
    <2>3. LoansKept(a, c, e)  BY <2>1 DEF LoansKept
    <2>4. SoundRecord(d, c, t)  BY <1>1, <2>1 DEF SoundRecord
    <2> QED  BY <2>1, <2>2, <2>3, <2>4 DEF Kept, c
  <1>3. CASE e \in OtherEntries
    <2>1. LoanStands(a, e, t) /\ \A g \in Dlgs : SoundLoan(a.delegations[g], t)
      BY DEF EntryStands, SoundRecord
    <2>2. /\ c \in Authority /\ c.breakglass = a.breakglass
          /\ c.refusals = IF e.type = "refused" THEN a.refusals + 1 ELSE a.refusals
      BY <1>3, <2>1, OthersApplied
    <2>3. LoansKept(a, c, e) /\ \A g \in Dlgs : SoundLoan(c.delegations[g], t)
      BY <1>3, <2>1, LoansStaySound
    <2> HIDE DEF c
    <2>4. GlassKept(a, c, e)  BY <2>2, Zenon DEF GlassKept
    <2>5. SoundRecord(d, c, t)  BY <1>1, <2>2, <2>3 DEF SoundRecord
    <2> QED  BY <2>2, <2>3, <2>4, <2>5 DEF Kept, c
  <1> QED  BY <1>2, <1>3, EntriesSplit

-----------------------------------------------------------------------------
(* What stands goes on standing while others write.                        *)

\* An entry that stands still does once another one was applied, as long as the
\* two share no fresh id.
LEMMA EntryGoesOn ==
    ASSUME NEW d \in Datasets, NEW a, NEW c, NEW t \in Nat,
           NEW e, NEW f \in Entries \cup Openings, Kept(a, c, e), EntryStands(d, a, f, t),
           e.type = f.type /\ f.type \in {"delegate", "breakglass.requested"} => e.id # f.id
    PROVE  EntryStands(d, c, f, t)
  <1>1. LoanStands(c, f, t)
    <2>1. CASE f.type = "delegate"
      <3>1. f.id \in Dlgs
        BY <2>1 DEF Entries, Claims, Grants, Promotions, Revokes, Loans, LoanEnds, GlassAsks,
                    Ballots, Exits, Refusals, Openings
      <3> QED  BY <2>1, <3>1 DEF LoanStands, EntryStands, Kept, LoansKept
    <2>2. CASE f.type = "delegation.end"
      <3>1. f.id \in Dlgs
        BY <2>2 DEF Entries, Claims, Grants, Promotions, Revokes, Loans, LoanEnds, GlassAsks,
                    Ballots, Exits, Refusals, Openings
      <3> QED  BY <2>2, <3>1 DEF LoanStands, EntryStands, Kept, LoansKept
    <2> QED  BY <2>1, <2>2 DEF LoanStands
  <1>2. GlassStands(d, c, f)
    <2>1. f.type \in {"breakglass.requested", "breakglass.vote", "breakglass.entered",
                      "breakglass.exited"} => f.id \in Glasses
      BY DEF Entries, Claims, Grants, Promotions, Revokes, Loans, LoanEnds, GlassAsks,
             Ballots, Exits, Refusals, Openings
    <2>2. CASE f.type = "breakglass.requested"
      BY <2>1, <2>2 DEF GlassStands, EntryStands, Kept, GlassKept
    <2>3. CASE f.type = "breakglass.vote"
      BY <2>1, <2>3 DEF GlassStands, EntryStands, Kept, GlassKept
    <2>4. CASE f.type = "breakglass.entered"
      <3>1. /\ a.breakglass[f.id] # None /\ TwoVoted(a.breakglass[f.id])
            /\ c.breakglass[f.id] # None
            /\ a.breakglass[f.id].votes \subseteq c.breakglass[f.id].votes
        BY <2>1, <2>4 DEF GlassStands, EntryStands, Kept, GlassKept
      <3>2. TwoVoted(c.breakglass[f.id])  BY <3>1, QuorumGrows
      <3> QED  BY <2>4, <3>1, <3>2 DEF GlassStands
    <2>5. CASE f.type = "breakglass.exited"
      BY <2>1, <2>5 DEF GlassStands, EntryStands, Kept, GlassKept
    <2> QED  BY <2>2, <2>3, <2>4, <2>5 DEF GlassStands
  <1> QED  BY <1>1, <1>2 DEF EntryStands

\* So does a request on its way.
LEMMA RequestGoesOn ==
    ASSUME NEW a, NEW c, NEW t \in Nat, NEW e, NEW r \in Requests,
           Kept(a, c, e), Stands(a, r, t), r.pc = "emit" => Apart(e, r.entry)
    PROVE  Stands(c, r, t)
  <1>0. r.dataset \in Datasets /\ r.entry \in Entries /\ r.pc \in {"emit", "enter"}
    BY DEF Requests
  <1>ids. r.entry.type = "breakglass.vote" => r.entry.id \in Glasses
    BY <1>0 DEF Entries, Claims, Grants, Promotions, Revokes, Loans, LoanEnds, GlassAsks,
                Ballots, Exits, Refusals
  <1>1. CASE r.pc = "emit"
    <2>1. EntryStands(r.dataset, a, r.entry, t) /\ CountStands(a, r) /\ FloorStands(r)
      BY <1>1 DEF Stands
    <2>2. EntryStands(r.dataset, c, r.entry, t)
      BY <1>0, <1>1, <2>1, EntryGoesOn DEF Apart
    <2>3. CountStands(c, r)
      <3> SUFFICES ASSUME r.entry.type = "breakglass.vote" PROVE CountStands(c, r)
        BY DEF CountStands
      <3> DEFINE x == a.breakglass[r.entry.id]
                 y == c.breakglass[r.entry.id]
      <3>1. x # None  BY <2>1 DEF EntryStands, GlassStands
      <3>2. /\ r.votes \subseteq x.votes
            /\ \A v \in r.votes : v.voter # r.entry.by
            /\ VotesOnce => \A v \in x.votes : v.voter # r.entry.by
        BY <2>1 DEF CountStands
      <3>3. /\ x.votes \subseteq y.votes
            /\ \A v \in y.votes :
                  v \in x.votes \/ (e.type = "breakglass.vote" /\ e.id = r.entry.id /\ v.voter = e.by)
        BY <1>ids, <3>1 DEF Kept, GlassKept
      <3>4. VotesOnce /\ e.type = "breakglass.vote" => e.id # r.entry.id \/ e.by # r.entry.by
        BY <1>1 DEF Apart
      <3> HIDE DEF x, y
      <3>5. VotesOnce => \A v \in y.votes : v.voter # r.entry.by  BY <3>2, <3>3, <3>4
      <3>6. r.votes \subseteq y.votes  BY <3>2, <3>3
      <3> QED  BY <3>2, <3>5, <3>6 DEF CountStands, y
    <2> QED  BY <1>1, <2>1, <2>2, <2>3 DEF Stands
  <1>2. CASE r.pc = "enter"
    <2>1. /\ r.entry.type = "breakglass.vote"
          /\ a.breakglass[r.entry.id] # None /\ TwoVoted(a.breakglass[r.entry.id])
      BY <1>2 DEF Stands
    <2>2. /\ c.breakglass[r.entry.id] # None
          /\ a.breakglass[r.entry.id].votes \subseteq c.breakglass[r.entry.id].votes
      BY <1>ids, <2>1 DEF Kept, GlassKept
    <2>3. TwoVoted(c.breakglass[r.entry.id])  BY <2>1, <2>2, QuorumGrows
    <2> QED  BY <1>2, <2>1, <2>2, <2>3 DEF Stands
  <1> QED  BY <1>0, <1>1, <1>2

-----------------------------------------------------------------------------
(* What a request guards on is what stands of it when it starts.           *)

NewRequest(d, agent, e) ==
    [pc |-> "emit", dataset |-> d, agent |-> agent, entry |-> e,
     saw |-> ReadAdmins(d, e), votes |-> ReadVotes(d, e)]

Vetted(d, agent, e) ==
    /\ NewRequest(d, agent, e) \in Requests
    /\ Stands(auth[d], NewRequest(d, agent, e), now)
    /\ \A v \in Workers : task[v] \in Requests => TasksApart(NewRequest(d, agent, e), task[v])
    /\ \A q \in queue : q.dataset = d => Apart(q.entry, e)

Begun(w) ==
    \E d \in Datasets, agent \in BOOLEAN, e \in Entries :
        Start(w, d, agent, e) /\ Vetted(d, agent, e)

LEMMA NewRequestFields ==
    ASSUME NEW d, NEW agent, NEW e
    PROVE  LET r == NewRequest(d, agent, e)
           IN  /\ r.pc = "emit" /\ r.dataset = d /\ r.entry = e
               /\ r.saw = ReadAdmins(d, e) /\ r.votes = ReadVotes(d, e)
  BY DEF NewRequest

\* Most entries carry nothing that two requests could share.
LEMMA PlainVetted ==
    ASSUME Types, NEW d \in Datasets, NEW agent \in BOOLEAN, NEW e \in Entries,
           e.type \notin {"delegate", "breakglass.requested", "breakglass.vote"},
           EntryStands(d, auth[d], e, now),
           e.type \in {"grant", "revoke"} =>
               DirectAdmins(auth[d]) = {} \/ DirectAdmins(auth[d]) \ {e.subject} # {}
    PROVE  Vetted(d, agent, e)
  <1> DEFINE r == NewRequest(d, agent, e)
  <1>1. /\ r.pc = "emit" /\ r.dataset = d /\ r.entry = e
        /\ r.saw = ReadAdmins(d, e) /\ r.votes = ReadVotes(d, e)
    BY NewRequestFields
  <1>2. ReadVotes(d, e) = {}  BY DEF ReadVotes
  <1>3. ReadAdmins(d, e) \in SUBSET Persons  BY DEF ReadAdmins, DirectAdmins
  <1>4. {} \in SUBSET Votes  OBVIOUS
  <1>5. r \in Requests  BY <1>2, <1>3, <1>4 DEF NewRequest, Requests
  <1> HIDE DEF r
  <1>6. e.type \in {"grant", "revoke"} => r.saw = DirectAdmins(auth[d])
    BY <1>1 DEF ReadAdmins
  <1>7. Stands(auth[d], r, now)
    BY <1>1, <1>6 DEF Stands, CountStands, FloorStands
  <1>8. \A v \in Workers : task[v] \in Requests => TasksApart(r, task[v])
    BY <1>1 DEF TasksApart, Apart
  <1>9. \A q \in queue : q.dataset = d => Apart(q.entry, e)  BY DEF Apart
  <1> QED  BY <1>5, <1>7, <1>8, <1>9 DEF Vetted, r

\* Whoever minted an id or cast a vote is on the way with it.
LEMMA Standing ==
    ASSUME NEW d, NEW type
    PROVE  /\ \A v \in Workers :
                  task[v].pc = "emit" /\ task[v].dataset = d /\ task[v].entry.type = type =>
                      task[v].entry \in OnTheWay(type, d)
           /\ \A q \in queue : q.dataset = d /\ q.entry.type = type =>
                  q.entry \in OnTheWay(type, d)
  BY DEF OnTheWay

LEMMA RefuseBegins ==
    ASSUME Types, NEW w \in Workers, NEW d \in Datasets, Refuse(w, d)
    PROVE  Begun(w)
  <1> DEFINE e == [type |-> "refused"]
  <1>1. Start(w, d, FALSE, e)  BY DEF Refuse
  <1>2. e \in Refusals  BY DEF Refusals
  <1>3. e.type = "refused"  OBVIOUS
  <1> HIDE DEF e
  <1>4. EntryStands(d, auth[d], e, now)  BY <1>3 DEF EntryStands, LoanStands, GlassStands
  <1>5. e \in Entries  BY <1>2 DEF Entries
  <1>6. Vetted(d, FALSE, e)  BY <1>3, <1>4, <1>5, PlainVetted
  <1> QED  BY <1>1, <1>5, <1>6 DEF Begun

LEMMA ClaimBegins ==
    ASSUME Types, NEW w \in Workers, NEW d \in Datasets, NEW by \in Persons, Claim(w, d, by)
    PROVE  Begun(w)
  <1>1. CASE Refuse(w, d)  BY <1>1, RefuseBegins
  <1>2. CASE Start(w, d, FALSE, [type |-> "claim", subject |-> by])
    <2> DEFINE e == [type |-> "claim", subject |-> by]
    <2>1. e \in Entries /\ e.type = "claim"  BY DEF Claims, Entries
    <2> HIDE DEF e
    <2>2. EntryStands(d, auth[d], e, now)  BY <2>1 DEF EntryStands, LoanStands, GlassStands
    <2>3. Vetted(d, FALSE, e)  BY <2>1, <2>2, PlainVetted
    <2> QED  BY <1>2, <2>1, <2>3 DEF Begun, e
  <1> QED  BY <1>1, <1>2 DEF Claim

LEMMA GrantBegins ==
    ASSUME Types, NEW w \in Workers, NEW d \in Datasets, NEW by \in Persons, NEW p \in Persons,
           NEW role \in ROLES, NEW agent \in BOOLEAN, Grant(w, d, by, p, role, agent)
    PROVE  Begun(w)
  <1>1. CASE Refuse(w, d)  BY <1>1, RefuseBegins
  <1>2. CASE /\ KeepsFloor(auth[d], p, role)
             /\ Start(w, d, agent,
                      [type |-> IF role = "admin" THEN "grant.admin" ELSE "grant",
                       subject |-> p, role |-> role])
    <2> DEFINE kind == IF role = "admin" THEN "grant.admin" ELSE "grant"
               e == [type |-> kind, subject |-> p, role |-> role]
    <2>1. e.type = kind /\ e.subject = p /\ e.role = role  OBVIOUS
    <2>2. e \in Entries
      <3>1. CASE role = "admin"  BY <3>1 DEF Promotions, Entries
      <3>2. CASE role = "reader"  BY <3>2 DEF Grants, Entries
      <3> QED  BY <3>1, <3>2 DEF ROLES
    <2> HIDE DEF e
    <2>3. EntryStands(d, auth[d], e, now)  BY <2>1 DEF EntryStands, LoanStands, GlassStands
    <2>4. e.type = "grant" =>
             DirectAdmins(auth[d]) = {} \/ DirectAdmins(auth[d]) \ {e.subject} # {}
      BY <1>2, <2>1 DEF KeepsFloor, DirectAdminsAfter
    <2>5. Vetted(d, agent, e)  BY <2>1, <2>2, <2>3, <2>4, PlainVetted
    <2>6. Start(w, d, agent, e)  BY <1>2 DEF e
    <2> QED  BY <2>2, <2>5, <2>6 DEF Begun
  <1> QED  BY <1>1, <1>2 DEF Grant

LEMMA RevokeBegins ==
    ASSUME Types, NEW w \in Workers, NEW d \in Datasets, NEW by \in Persons, NEW p \in Persons,
           Revoke(w, d, by, p)
    PROVE  Begun(w)
  <1>1. CASE Refuse(w, d)  BY <1>1, RefuseBegins
  <1>2. CASE /\ KeepsFloor(auth[d], p, None)
             /\ Start(w, d, FALSE, [type |-> "revoke", subject |-> p])
    <2> DEFINE e == [type |-> "revoke", subject |-> p]
    <2>1. e.type = "revoke" /\ e.subject = p  OBVIOUS
    <2>2. e \in Entries  BY DEF Revokes, Entries
    <2> HIDE DEF e
    <2>3. EntryStands(d, auth[d], e, now)  BY <2>1 DEF EntryStands, LoanStands, GlassStands
    <2>4. None # "admin"  BY NoneIsApart DEF ROLES
    <2>5. DirectAdmins(auth[d]) = {} \/ DirectAdmins(auth[d]) \ {e.subject} # {}
      BY <1>2, <2>1, <2>4 DEF KeepsFloor, DirectAdminsAfter
    <2>6. Vetted(d, FALSE, e)  BY <2>1, <2>2, <2>3, <2>5, PlainVetted
    <2> QED  BY <1>2, <2>2, <2>6 DEF Begun, e
  <1> QED  BY <1>1, <1>2 DEF Revoke

LEMMA DelegateBegins ==
    ASSUME Types, NEW w \in Workers, NEW d \in Datasets, NEW by \in Persons, NEW p \in Persons,
           NEW role \in ROLES, NEW g \in Dlgs, NEW t \in Horizon,
           Delegate(w, d, by, p, role, g, t)
    PROVE  Begun(w)
  <1>1. CASE Refuse(w, d)  BY <1>1, RefuseBegins
  <1>2. CASE Start(w, d, FALSE, [type |-> "delegate", id |-> g, subject |-> p, role |-> role,
                                 by |-> by, expires |-> t])
    <2> DEFINE e == [type |-> "delegate", id |-> g, subject |-> p, role |-> role,
                     by |-> by, expires |-> t]
               r == NewRequest(d, FALSE, e)
    <2>1. t \in Deadlines  BY WarrantConstants DEF Types, Horizon, Deadlines
    <2>12. e \in Loans  BY <2>1 DEF Loans
    <2>13. e.type = "delegate" /\ e.id = g  OBVIOUS
    <2>2. e \in Entries /\ e.type = "delegate" /\ e.id = g  BY <2>12, <2>13 DEF Entries
    <2>3. auth[d].delegations[g] = None /\ ~Minted("delegate", d, g)  BY DEF Delegate
    <2> HIDE DEF e
    <2>4. EntryStands(d, auth[d], e, now)
      BY <2>2, <2>3 DEF EntryStands, LoanStands, GlassStands
    <2>5. /\ r.pc = "emit" /\ r.dataset = d /\ r.entry = e  BY DEF NewRequest
    <2>6. ReadVotes(d, e) = {} /\ ReadAdmins(d, e) = {}  BY <2>2 DEF ReadVotes, ReadAdmins
    <2>7. {} \in SUBSET Votes /\ {} \in SUBSET Persons  OBVIOUS
    <2>8. r \in Requests  BY <2>2, <2>6, <2>7 DEF NewRequest, Requests
    <2> HIDE DEF r
    <2>9. Stands(auth[d], r, now)
      BY <2>2, <2>4, <2>5 DEF Stands, CountStands, FloorStands
    <2>10. \A v \in Workers : task[v] \in Requests => TasksApart(r, task[v])
      <3> SUFFICES ASSUME NEW v \in Workers, task[v].pc = "emit", task[v].dataset = d,
                          task[v].entry.type = "delegate"
                   PROVE  task[v].entry.id # g
        BY <2>2, <2>5 DEF TasksApart, Apart
      <3>1. task[v].entry \in OnTheWay("delegate", d)  BY Standing
      <3> QED  BY <2>3, <3>1 DEF Minted
    <2>14. ASSUME NEW q \in queue, q.dataset = d PROVE Apart(q.entry, e)
      <3> SUFFICES ASSUME q.entry.type = "delegate" PROVE q.entry.id # g
        BY <2>2 DEF Apart
      <3>1. q.entry \in OnTheWay("delegate", d)  BY <2>14, Standing
      <3> QED  BY <2>3, <3>1 DEF Minted
    <2>11. Vetted(d, FALSE, e)  BY <2>8, <2>9, <2>10, <2>14 DEF Vetted, r
    <2> QED  BY <1>2, <2>2, <2>11 DEF Begun, e
  <1> QED  BY <1>1, <1>2 DEF Delegate

LEMMA RevokeDelegationBegins ==
    ASSUME Types, NEW w \in Workers, NEW d \in Datasets, NEW by \in Persons, NEW g \in Dlgs,
           RevokeDelegation(w, d, by, g)
    PROVE  Begun(w)
  <1>1. CASE Refuse(w, d)  BY <1>1, RefuseBegins
  <1>2. CASE /\ auth[d].delegations[g] # None
             /\ Start(w, d, FALSE, [type |-> "delegation.end", id |-> g, as |-> "revoked"])
    <2> DEFINE e == [type |-> "delegation.end", id |-> g, as |-> "revoked"]
    <2>1. e.type = "delegation.end" /\ e.id = g /\ e.as = "revoked"  OBVIOUS
    <2>2. e \in Entries  BY DEF LoanEnds, Entries
    <2> HIDE DEF e
    <2>3. EntryStands(d, auth[d], e, now)
      BY <1>2, <2>1 DEF EntryStands, LoanStands, GlassStands
    <2>4. Vetted(d, FALSE, e)  BY <2>1, <2>2, <2>3, PlainVetted
    <2> QED  BY <1>2, <2>2, <2>4 DEF Begun, e
  <1> QED  BY <1>1, <1>2 DEF RevokeDelegation

LEMMA RequestBreakglassBegins ==
    ASSUME Types, NEW w \in Workers, NEW d \in Datasets, NEW by \in Persons, NEW b \in Glasses,
           RequestBreakglass(w, d, by, b)
    PROVE  Begun(w)
  <1>1. CASE Refuse(w, d)  BY <1>1, RefuseBegins
  <1>2. CASE Start(w, d, FALSE, [type |-> "breakglass.requested", id |-> b, by |-> by])
    <2> DEFINE e == [type |-> "breakglass.requested", id |-> b, by |-> by]
               r == NewRequest(d, FALSE, e)
    <2>1. e \in GlassAsks /\ e.type = "breakglass.requested" /\ e.id = b  BY DEF GlassAsks
    <2>2. e \in Entries  BY <2>1 DEF Entries
    <2>3. auth[d].breakglass[b] = None /\ ~Minted("breakglass.requested", d, b)
      BY DEF RequestBreakglass
    <2> HIDE DEF e
    <2>4. EntryStands(d, auth[d], e, now)
      BY <2>1, <2>3 DEF EntryStands, LoanStands, GlassStands
    <2>5. /\ r.pc = "emit" /\ r.dataset = d /\ r.entry = e  BY DEF NewRequest
    <2>6. ReadVotes(d, e) = {} /\ ReadAdmins(d, e) = {}  BY <2>1 DEF ReadVotes, ReadAdmins
    <2>7. {} \in SUBSET Votes /\ {} \in SUBSET Persons  OBVIOUS
    <2>8. r \in Requests  BY <2>2, <2>6, <2>7 DEF NewRequest, Requests
    <2> HIDE DEF r
    <2>9. Stands(auth[d], r, now)
      BY <2>1, <2>4, <2>5 DEF Stands, CountStands, FloorStands
    <2>10. \A v \in Workers : task[v] \in Requests => TasksApart(r, task[v])
      <3> SUFFICES ASSUME NEW v \in Workers, task[v].pc = "emit", task[v].dataset = d,
                          task[v].entry.type = "breakglass.requested"
                   PROVE  task[v].entry.id # b
        BY <2>1, <2>5 DEF TasksApart, Apart
      <3>1. task[v].entry \in OnTheWay("breakglass.requested", d)  BY Standing
      <3> QED  BY <2>3, <3>1 DEF Minted
    <2>14. ASSUME NEW q \in queue, q.dataset = d PROVE Apart(q.entry, e)
      <3> SUFFICES ASSUME q.entry.type = "breakglass.requested" PROVE q.entry.id # b
        BY <2>1 DEF Apart
      <3>1. q.entry \in OnTheWay("breakglass.requested", d)  BY <2>14, Standing
      <3> QED  BY <2>3, <3>1 DEF Minted
    <2>11. Vetted(d, FALSE, e)  BY <2>8, <2>9, <2>10, <2>14 DEF Vetted, r
    <2> QED  BY <1>2, <2>2, <2>11 DEF Begun, e
  <1> QED  BY <1>1, <1>2 DEF RequestBreakglass

LEMMA VoteBreakglassBegins ==
    ASSUME Types, NEW w \in Workers, NEW d \in Datasets, NEW by \in Persons, NEW b \in Glasses,
           VoteBreakglass(w, d, by, b)
    PROVE  Begun(w)
  <1>1. CASE Refuse(w, d)  BY <1>1, RefuseBegins
  <1>2. CASE Ballot(w, d, by, b)
    <2>1. PICK o \in VoterDatasets(d, by) :
             Start(w, d, FALSE,
                   [type |-> "breakglass.vote", id |-> b, by |-> by, dataset |-> o])
      BY <1>2 DEF Ballot
    <2> DEFINE e == [type |-> "breakglass.vote", id |-> b, by |-> by, dataset |-> o]
               r == NewRequest(d, FALSE, e)
    <2>2. o \in VoteDatasets /\ o # d
      BY WarrantConstants DEF VoterDatasets, VoteDatasets, GLOBAL_STEWARD_ROLE
    <2>3. e \in Ballots  BY <2>2 DEF Ballots
    <2>4. e.type = "breakglass.vote" /\ e.id = b /\ e.by = by /\ e.dataset = o  OBVIOUS
    <2>5. e \in Entries  BY <2>3 DEF Entries
    <2>6. auth[d].breakglass[b] # None  BY DEF VoteBreakglass
    <2>7. /\ by # auth[d].breakglass[b].requester
          /\ \A v \in auth[d].breakglass[b].votes : v.voter # by
          /\ VotesOnce => ~Casting(d, by, b)
      BY <1>2 DEF Ballot
    <2>8. Start(w, d, FALSE, e)  BY <2>1
    <2> HIDE DEF e
    <2>9. EntryStands(d, auth[d], e, now)
      BY <2>2, <2>4, <2>6, <2>7 DEF EntryStands, LoanStands, GlassStands
    <2>10. /\ r.pc = "emit" /\ r.dataset = d /\ r.entry = e /\ r.votes = ReadVotes(d, e)
      BY DEF NewRequest
    <2>11. ReadVotes(d, e) = auth[d].breakglass[b].votes /\ ReadAdmins(d, e) = {}
      BY <2>4 DEF ReadVotes, ReadAdmins
    <2>12. auth[d].breakglass[b] \in BreakGlass  BY <2>6 DEF Types, Authority
    <2>13. ReadVotes(d, e) \in SUBSET Votes  BY <2>11, <2>12 DEF BreakGlass
    <2>14. {} \in SUBSET Persons  OBVIOUS
    <2>15. r \in Requests  BY <2>5, <2>11, <2>13, <2>14 DEF NewRequest, Requests
    <2> HIDE DEF r
    <2>16. CountStands(auth[d], r)  BY <2>4, <2>7, <2>10, <2>11 DEF CountStands
    <2>17. Stands(auth[d], r, now)
      BY <2>4, <2>9, <2>10, <2>16 DEF Stands, FloorStands
    <2>18. \A v \in Workers : task[v] \in Requests => TasksApart(r, task[v])
      <3> SUFFICES ASSUME VotesOnce, NEW v \in Workers, task[v].pc = "emit", task[v].dataset = d,
                          task[v].entry.type = "breakglass.vote"
                   PROVE  task[v].entry.id # b \/ task[v].entry.by # by
        BY <2>4, <2>10 DEF TasksApart, Apart
      <3>1. task[v].entry \in OnTheWay("breakglass.vote", d)  BY Standing
      <3> QED  BY <2>7, <3>1 DEF Casting
    <2>20. ASSUME NEW q \in queue, q.dataset = d PROVE Apart(q.entry, e)
      <3> SUFFICES ASSUME VotesOnce, q.entry.type = "breakglass.vote"
                   PROVE  q.entry.id # b \/ q.entry.by # by
        BY <2>4 DEF Apart
      <3>1. q.entry \in OnTheWay("breakglass.vote", d)  BY <2>20, Standing
      <3> QED  BY <2>7, <3>1 DEF Casting
    <2>19. Vetted(d, FALSE, e)  BY <2>15, <2>17, <2>18, <2>20 DEF Vetted, r
    <2> QED  BY <2>5, <2>8, <2>19 DEF Begun
  <1> QED  BY <1>1, <1>2 DEF VoteBreakglass

LEMMA ExitBreakglassBegins ==
    ASSUME Types, NEW w \in Workers, NEW d \in Datasets, NEW by \in Persons, NEW b \in Glasses,
           ExitBreakglass(w, d, by, b)
    PROVE  Begun(w)
  <1> DEFINE e == [type |-> "breakglass.exited", id |-> b, as |-> "hand"]
  <1>1. e.type = "breakglass.exited" /\ e.id = b  OBVIOUS
  <1>2. e \in Entries  BY DEF Exits, Entries
  <1>3. Start(w, d, FALSE, e) /\ auth[d].breakglass[b] # None  BY DEF ExitBreakglass
  <1> HIDE DEF e
  <1>4. EntryStands(d, auth[d], e, now)
    BY <1>1, <1>3 DEF EntryStands, LoanStands, GlassStands
  <1>5. Vetted(d, FALSE, e)  BY <1>1, <1>2, <1>4, PlainVetted
  <1> QED  BY <1>2, <1>3, <1>5 DEF Begun

LEMMA SweepBegins ==
    ASSUME Types, NEW w \in Workers, NEW d \in Datasets, Sweep(w, d)
    PROVE  Begun(w)
  <1>1. ASSUME NEW g \in Dlgs, auth[d].delegations[g] # None,
               Lapsed(auth[d].delegations[g].expires),
               Start(w, d, FALSE, [type |-> "delegation.end", id |-> g, as |-> "expired"])
        PROVE  Begun(w)
    <2> DEFINE e == [type |-> "delegation.end", id |-> g, as |-> "expired"]
    <2>1. e.type = "delegation.end" /\ e.id = g /\ e.as = "expired"  OBVIOUS
    <2>2. e \in Entries  BY DEF LoanEnds, Entries
    <2> HIDE DEF e
    <2>3. EntryStands(d, auth[d], e, now)
      BY <1>1, <2>1 DEF EntryStands, LoanStands, GlassStands, Lapsed
    <2>4. Vetted(d, FALSE, e)  BY <2>1, <2>2, <2>3, PlainVetted
    <2> QED  BY <1>1, <2>2, <2>4 DEF Begun, e
  <1>2. ASSUME NEW b \in Glasses, auth[d].breakglass[b] # None,
               Start(w, d, FALSE, [type |-> "breakglass.exited", id |-> b, as |-> "clock"])
        PROVE  Begun(w)
    <2> DEFINE e == [type |-> "breakglass.exited", id |-> b, as |-> "clock"]
    <2>1. e.type = "breakglass.exited" /\ e.id = b  OBVIOUS
    <2>2. e \in Entries  BY DEF Exits, Entries
    <2> HIDE DEF e
    <2>3. EntryStands(d, auth[d], e, now)
      BY <1>2, <2>1 DEF EntryStands, LoanStands, GlassStands
    <2>4. Vetted(d, FALSE, e)  BY <2>1, <2>2, <2>3, PlainVetted
    <2> QED  BY <1>2, <2>2, <2>4 DEF Begun, e
  <1> QED  BY <1>1, <1>2 DEF Sweep

LEMMA AskBegins ==
    ASSUME Types, NEW w \in Workers, Ask(w)
    PROVE  Begun(w)
  <1>1. PICK d \in Datasets, by \in Persons :
          \/ Claim(w, d, by)
          \/ \E p \in Persons, role \in ROLES : \E agent \in AsksAs(role) :
                Grant(w, d, by, p, role, agent)
          \/ \E p \in Persons : Revoke(w, d, by, p)
          \/ \E p \in Persons, role \in ROLES, g \in Dlgs, t \in Horizon :
                Delegate(w, d, by, p, role, g, t)
          \/ \E g \in Dlgs : RevokeDelegation(w, d, by, g)
          \/ \E b \in Glasses : \/ RequestBreakglass(w, d, by, b)
                                \/ VoteBreakglass(w, d, by, b)
                                \/ ExitBreakglass(w, d, by, b)
          \/ Sweep(w, d)
    BY DEF Ask
  <1>2. ASSUME NEW p \in Persons, NEW role \in ROLES, NEW agent \in AsksAs(role),
               Grant(w, d, by, p, role, agent)
        PROVE  Begun(w)
    <2>1. agent \in BOOLEAN  BY DEF AsksAs
    <2> QED  BY <1>2, <2>1, GrantBegins
  <1> QED
    BY <1>1, <1>2, ClaimBegins, RevokeBegins, DelegateBegins, RevokeDelegationBegins,
       RequestBreakglassBegins, VoteBreakglassBegins, ExitBreakglassBegins, SweepBegins

-----------------------------------------------------------------------------
(* Each step keeps the invariant.                                          *)

LEMMA PendingEntries ==
    ASSUME NEW q \in Pending
    PROVE  /\ q.dataset \in Datasets /\ q.entry \in Promotions \cup Openings \cup AdminLoans
           /\ q.entry \in Entries \cup Openings
           /\ q.entry.type \notin {"breakglass.requested", "breakglass.vote", "refused"}
  <1>1. q.dataset \in Datasets /\ q.entry \in Promotions \cup Openings \cup AdminLoans
    BY DEF Pending, Promotions, Openings, AdminLoans
  <1>2. AdminLoans \subseteq Loans  BY DEF AdminLoans, Loans, ROLES
  <1>3. q.entry \in Entries \cup Openings  BY <1>1, <1>2 DEF Entries
  <1>4. q.entry.type \in {"grant.admin", "breakglass.entered", "delegate"}
    BY <1>1 DEF Promotions, Openings, AdminLoans
  <1> QED  BY <1>1, <1>3, <1>4

\* What the gate holds of what a request emits.
LEMMA HeldEntries ==
    ASSUME NEW e \in Entries, Held(e)
    PROVE  e \in Promotions \cup AdminLoans
  <1>1. CASE e.type = "grant.admin" \/ e.type = "breakglass.entered"
    BY <1>1 DEF Entries, Claims, Grants, Promotions, Revokes, Loans, LoanEnds, GlassAsks,
                Ballots, Exits, Refusals
  <1>2. CASE e.type = "delegate" /\ e.role = "admin"
    <2>1. e \in Loans
      BY <1>2 DEF Entries, Claims, Grants, Promotions, Revokes, LoanEnds, GlassAsks, Ballots,
                  Exits, Refusals
    <2> QED  BY <1>2, <2>1 DEF Loans, AdminLoans
  <1> QED  BY <1>1, <1>2 DEF Held

LEMMA NotARequest ==
    ASSUME NEW r \in Requests
    PROVE  r # Idle /\ r.pc # "release" /\ r.pc # "idle"
  BY DEF Requests, Idle

LEMMA UnderwayPc ==
    ASSUME Types, NEW w \in Workers, task[w].pc \in {"emit", "enter"}
    PROVE  task[w] \in Requests
  <1>1. Idle.pc = "idle"  BY DEF Idle
  <1> QED  BY <1>1 DEF Types, TaskTypes

\* One entry applied to the record of one dataset.
Written(d, e) == auth' = [auth EXCEPT ![d] = Apply(@, e)]

LEMMA WriteKeepsRecords ==
    ASSUME Types, Records, NEW d \in Datasets, NEW e \in Entries \cup Openings,
           EntryStands(d, auth[d], e, now), Written(d, e), now' = now,
           writes' \in 0..MaxWrites, writes' \in {writes, writes + 1},
           e.type = "refused" => writes' = writes + 1
    PROVE  /\ auth' \in [Datasets -> Authority] /\ Records'
           /\ Kept(auth[d], auth'[d], e)
           /\ \A o \in Datasets : o # d => auth'[o] = auth[o]
  <1> DEFINE a == auth[d]
             c == Apply(a, e)
  <1>1. a \in Authority /\ now \in Nat /\ writes \in Nat
    BY WarrantConstants DEF Types
  <1>2. SoundRecord(d, a, now) /\ a.refusals <= writes  BY DEF Records
  <1>3. a.refusals \in Nat  BY <1>1 DEF Authority
  <1>4. e.type = "refused" => a.refusals < MaxWrites
    BY <1>1, <1>2, <1>3, WarrantConstants
  <1>5. /\ c \in Authority /\ SoundRecord(d, c, now) /\ Kept(a, c, e)
        /\ c.refusals = IF e.type = "refused" THEN a.refusals + 1 ELSE a.refusals
    BY <1>1, <1>2, <1>4, RecordStaysSound
  <1>6. c.refusals <= writes'  BY <1>1, <1>2, <1>3, <1>5
  <1> HIDE DEF c
  <1>7. auth' = [auth EXCEPT ![d] = c]  BY DEF Written, c
  <1>8. auth'[d] = c /\ \A o \in Datasets : o # d => auth'[o] = auth[o]
    BY <1>7 DEF Types
  <1>9. auth' \in [Datasets -> Authority]  BY <1>5, <1>7 DEF Types
  <1>10. \A o \in Datasets : SoundRecord(o, auth'[o], now') /\ auth'[o].refusals <= writes'
    <2> SUFFICES ASSUME NEW o \in Datasets
                 PROVE  SoundRecord(o, auth'[o], now) /\ auth'[o].refusals <= writes'
      OBVIOUS
    <2>1. CASE o = d  BY <1>5, <1>6, <1>8, <2>1
    <2>2. CASE o # d
      <3>1. auth[o] \in Authority  BY DEF Types
      <3>2. auth[o].refusals \in Nat /\ auth[o].refusals <= writes
        BY <3>1 DEF Authority, Records
      <3>3. auth[o].refusals <= writes'  BY <1>1, <3>2
      <3>4. SoundRecord(o, auth[o], now)  BY DEF Records
      <3> QED  BY <1>8, <2>2, <3>3, <3>4
    <2> QED  BY <2>1, <2>2
  <1> QED  BY <1>5, <1>8, <1>9, <1>10 DEF Records

\* A request somebody else serves goes on standing.
LEMMA OtherGoesOn ==
    ASSUME Types, Underway, NEW d \in Datasets, NEW e, now' = now,
           Kept(auth[d], auth'[d], e), \A o \in Datasets : o # d => auth'[o] = auth[o],
           NEW v \in Workers, task[v] \in Requests,
           task[v].pc = "emit" /\ task[v].dataset = d => Apart(e, task[v].entry)
    PROVE  Stands(auth'[task[v].dataset], task[v], now')
  <1>1. Stands(auth[task[v].dataset], task[v], now)  BY DEF Underway
  <1>2. task[v].dataset \in Datasets /\ now \in Nat  BY WarrantConstants DEF Requests, Types
  <1>3. CASE task[v].dataset = d  BY <1>1, <1>2, <1>3, RequestGoesOn
  <1>4. CASE task[v].dataset # d  BY <1>1, <1>2, <1>4
  <1> QED  BY <1>3, <1>4

LEMMA WaitingGoesOn ==
    ASSUME Types, Waiting, NEW d \in Datasets, NEW e, now' = now,
           Kept(auth[d], auth'[d], e), \A o \in Datasets : o # d => auth'[o] = auth[o],
           NEW q \in queue, q.dataset = d => Apart(e, q.entry)
    PROVE  EntryStands(q.dataset, auth'[q.dataset], q.entry, now')
  <1>1. EntryStands(q.dataset, auth[q.dataset], q.entry, now)  BY DEF Waiting
  <1>2. /\ q.dataset \in Datasets /\ q.entry \in Entries \cup Openings
        /\ now \in Nat
    BY PendingEntries, WarrantConstants DEF Types
  <1>3. CASE q.dataset = d  BY <1>1, <1>2, <1>3, EntryGoesOn DEF Apart
  <1>4. CASE q.dataset # d  BY <1>1, <1>2, <1>4
  <1> QED  BY <1>3, <1>4

LEMMA ApartSymmetric ==
    ASSUME NEW r, NEW s, TasksApart(r, s)
    PROVE  TasksApart(s, r)
  BY DEF TasksApart, Apart

LEMMA EntriesSymmetric ==
    ASSUME NEW e, NEW f, Apart(e, f)
    PROVE  Apart(f, e)
  BY DEF Apart

\* A step after which one request no longer waits to emit, and nothing new is
\* held, leaves what the gate holds apart.
LEMMA QueueApartStep ==
    ASSUME Types, QueueApart, NEW w \in Workers, NEW r, task' = [task EXCEPT ![w] = r],
           r \in Requests => r.pc # "emit", queue' \subseteq queue
    PROVE  QueueApart'
  <1>1. \A v \in Workers : task'[v] = IF v = w THEN r ELSE task[v]  BY DEF Types
  <1>2. ASSUME NEW q \in queue', NEW v \in Workers,
               task'[v] \in Requests, task'[v].pc = "emit", task'[v].dataset = q.dataset
        PROVE  Apart(q.entry, task'[v].entry)
    <2>1. v # w /\ task'[v] = task[v] /\ q \in queue  BY <1>1, <1>2
    <2> QED  BY <1>2, <2>1 DEF QueueApart
  <1>3. \A p, q \in queue' : p # q /\ p.dataset = q.dataset => Apart(p.entry, q.entry)
    BY DEF QueueApart
  <1> QED  BY <1>2, <1>3 DEF QueueApart

\* Nor does holding an entry that is apart from all others.
LEMMA QueueApartGrows ==
    ASSUME Types, QueueApart, NEW w \in Workers, NEW r, task' = [task EXCEPT ![w] = r],
           r \in Requests => r.pc # "emit", NEW q, queue' = queue \cup {q},
           \A p \in queue : p.dataset = q.dataset => Apart(p.entry, q.entry),
           \A v \in Workers \ {w} :
               task[v] \in Requests /\ task[v].pc = "emit" /\ task[v].dataset = q.dataset =>
                   Apart(q.entry, task[v].entry)
    PROVE  QueueApart'
  <1>1. \A v \in Workers : task'[v] = IF v = w THEN r ELSE task[v]  BY DEF Types
  <1>2. ASSUME NEW p \in queue', NEW v \in Workers,
               task'[v] \in Requests, task'[v].pc = "emit", task'[v].dataset = p.dataset
        PROVE  Apart(p.entry, task'[v].entry)
    <2>1. v # w /\ task'[v] = task[v]  BY <1>1, <1>2
    <2>2. CASE p = q  BY <1>2, <2>1, <2>2
    <2>3. CASE p \in queue  BY <1>2, <2>1, <2>3 DEF QueueApart
    <2> QED  BY <2>2, <2>3
  <1>3. ASSUME NEW p \in queue', NEW o \in queue', p # o, p.dataset = o.dataset
        PROVE  Apart(p.entry, o.entry)
    <2>1. CASE p = q
      <3>1. o \in queue  BY <1>3, <2>1
      <3>2. Apart(o.entry, p.entry)  BY <1>3, <2>1, <3>1
      <3> QED  BY <3>2, EntriesSymmetric
    <2>2. CASE o = q  BY <1>3, <2>2
    <2>3. CASE p \in queue /\ o \in queue  BY <1>3, <2>3 DEF QueueApart
    <2> QED  BY <2>1, <2>2, <2>3
  <1> QED  BY <1>2, <1>3 DEF QueueApart

\* One worker's request changes, and every request that is left stands.
LEMMA UnderwayStep ==
    ASSUME Types, Underway, NEW w \in Workers, NEW r, task' = [task EXCEPT ![w] = r],
           r \in Requests => Stands(auth'[r.dataset], r, now'),
           r \in Requests => \A v \in Workers \ {w} : task[v] \in Requests => TasksApart(r, task[v]),
           \A v \in Workers \ {w} :
               task[v] \in Requests => Stands(auth'[task[v].dataset], task[v], now')
    PROVE  Underway'
  <1>1. \A v \in Workers : task'[v] = IF v = w THEN r ELSE task[v]  BY DEF Types
  <1>2. \A v \in Workers : task'[v] \in Requests => Stands(auth'[task'[v].dataset], task'[v], now')
    BY <1>1
  <1>3. ASSUME NEW u \in Workers, NEW v \in Workers, u # v, task'[u] \in Requests, task'[v] \in Requests
        PROVE  TasksApart(task'[u], task'[v])
    <2>1. CASE u = w  BY <1>1, <1>3, <2>1
    <2>2. CASE v = w
      <3>1. TasksApart(task'[v], task'[u])  BY <1>1, <1>3, <2>2
      <3> QED  BY <3>1, ApartSymmetric
    <2>3. CASE u # w /\ v # w  BY <1>1, <1>3, <2>3 DEF Underway
    <2> QED  BY <2>1, <2>2, <2>3
  <1> QED  BY <1>2, <1>3 DEF Underway

LEMMA TaskTypesStep ==
    ASSUME Types, NEW w \in Workers, NEW r, task' = [task EXCEPT ![w] = r],
           r = Idle \/ r.pc = "release" \/ r \in Requests
    PROVE  task' = [v \in Workers |-> task'[v]] /\ TaskTypes'
  <1>1. \A v \in Workers : task'[v] = IF v = w THEN r ELSE task[v]  BY DEF Types
  <1>2. task' = [v \in Workers |-> task'[v]]  BY DEF Types
  <1>3. TaskTypes'  BY <1>1 DEF Types, TaskTypes
  <1> QED  BY <1>2, <1>3

LEMMA BeginKeeps ==
    ASSUME IInv, NEW w \in Workers, Begun(w)
    PROVE  IInv'
  <1>1. PICK d \in Datasets, agent \in BOOLEAN, e \in Entries :
           Start(w, d, agent, e) /\ Vetted(d, agent, e)
    BY DEF Begun
  <1> DEFINE r == NewRequest(d, agent, e)
  <1>2. /\ task' = [task EXCEPT ![w] = r] /\ UNCHANGED <<auth, queue, now, writes>>
    BY <1>1 DEF Start, NewRequest
  <1>3. /\ r \in Requests /\ Stands(auth[d], r, now) /\ r.dataset = d
        /\ \A v \in Workers : task[v] \in Requests => TasksApart(r, task[v])
        /\ r.entry = e /\ \A q \in queue : q.dataset = d => Apart(q.entry, e)
    BY <1>1, NewRequestFields DEF Vetted
  <1> HIDE DEF r
  <1>4. Types /\ Underway  BY DEF IInv
  <1>5. Types'  BY <1>2, <1>3, <1>4, TaskTypesStep DEF Types
  <1>6. \A v \in Workers : task[v] \in Requests => Stands(auth'[task[v].dataset], task[v], now')
    BY <1>2, <1>4 DEF Underway
  <1>7. Underway'  BY <1>2, <1>3, <1>4, <1>6, UnderwayStep
  <1>8. Records' /\ Waiting'  BY <1>2 DEF IInv, Records, Waiting
  <1>9. QueueApart'
    <2>1. \A v \in Workers : task'[v] = IF v = w THEN r ELSE task[v]  BY <1>2, <1>4 DEF Types
    <2> QED  BY <1>2, <1>3, <2>1 DEF IInv, QueueApart
  <1> QED  BY <1>5, <1>7, <1>8, <1>9 DEF IInv

LEMMA ReleasePc ==
    ASSUME NEW r
    PROVE  Releasing(r).pc = "release"
  BY DEF Releasing

\* The ballot that completes a quorum finds it on the record.
LEMMA QuorumRecorded ==
    ASSUME NEW a \in Authority, NEW r \in Requests, r.entry \in Ballots,
           a.breakglass[r.entry.id] # None, IsFiniteSet(a.breakglass[r.entry.id].votes),
           CountStands(a, r), Quorum(CastVotes(r))
    PROVE  TwoVoted(Shown(a, r.entry))
  <1> DEFINE e == r.entry
             x == a.breakglass[e.id]
             y == Shown(a, e)
             own == [voter |-> e.by, dataset |-> e.dataset]
             cast == r.votes \cup {own}
             D == {v.dataset : v \in cast}
  <1>1. /\ r.votes \subseteq x.votes
        /\ \A v \in r.votes : v.voter # e.by
        /\ VotesOnce => \A v \in x.votes : v.voter # e.by
    BY DEF CountStands, Ballots
  <1>2. /\ x.votes \subseteq y.votes
        /\ \E v \in y.votes : v.voter = e.by
        /\ (\A v \in x.votes : v.voter # e.by) => own \in y.votes
    BY VoteCounts
  <1>3. /\ Cardinality(cast) >= 2
        /\ Cardinality(D) >= 2
    BY DEF Quorum, CastVotes, BREAKGLASS_QUORUM, BREAKGLASS_DISTINCT_DATASETS
  <1> HIDE DEF own, x, y, D
  <1>4. r.votes # {}
    <2> SUFFICES ASSUME r.votes = {} PROVE FALSE  OBVIOUS
    <2>1. cast = {own}  OBVIOUS
    <2>2. Cardinality({own}) = 1  BY FS_Singleton
    <2> QED  BY <1>3, <2>1, <2>2
  <1>5. \E u, v \in y.votes : u.voter # v.voter
    <2>1. PICK u \in r.votes : TRUE  BY <1>4
    <2>2. PICK v \in y.votes : v.voter = e.by  BY <1>2
    <2>3. u \in y.votes /\ u.voter # v.voter  BY <1>1, <1>2, <2>1, <2>2
    <2> QED  BY <2>2, <2>3
  <1>6. ASSUME VotesOnce PROVE \E u, v \in y.votes : u.dataset # v.dataset
    <2>1. cast \subseteq y.votes  BY <1>1, <1>2, <1>6
    <2>2. \E u, v \in cast : u.dataset # v.dataset
      <3> SUFFICES ASSUME ~ \E u, v \in cast : u.dataset # v.dataset PROVE FALSE  OBVIOUS
      <3>3. \A u, v \in cast : u.dataset = v.dataset  OBVIOUS
      <3>1. own \in cast  OBVIOUS
      <3>2. \A z \in D : z = own.dataset
        <4> TAKE z \in D
        <4>1. PICK v \in cast : z = v.dataset  BY DEF D
        <4>2. v.dataset = own.dataset  BY <3>1, <3>3, <4>1
        <4> QED  BY <4>1, <4>2
      <3>4. own.dataset \in D
        <4> HIDE DEF cast
        <4> QED  BY <3>1 DEF D
      <3>5. D = {own.dataset}  BY <3>2, <3>4
      <3>6. Cardinality({own.dataset}) = 1  BY FS_Singleton
      <3> QED  BY <1>3, <3>5, <3>6
    <2> HIDE DEF cast
    <2> QED  BY <2>1, <2>2
  <1>7. TwoVoted(y)  BY <1>5, <1>6 DEF TwoVoted
  <1> QED  BY <1>7 DEF y

\* The request after its entry was written.
LEMMA AfterEmitStands ==
    ASSUME Types, Records, Underway, NEW w \in Workers, task[w].pc = "emit",
           writes' = writes + 1, now' = now,
           ~Held(task[w].entry) => Written(task[w].dataset, task[w].entry)
    PROVE  LET r == AfterEmit(task[w])
           IN  /\ r = Idle \/ r.pc = "release" \/ r \in Requests
               /\ r \in Requests =>
                     /\ r.pc = "enter" /\ r.dataset = task[w].dataset
                     /\ Stands(auth'[r.dataset], r, now')
  <1> DEFINE t == task[w]
             a == auth[t.dataset]
  <1>1. t \in Requests  BY UnderwayPc
  <1>2. /\ t.dataset \in Datasets /\ t.entry \in Entries /\ a \in Authority
        /\ now \in Nat
    BY <1>1, WarrantConstants DEF Requests, Types
  <1>3. /\ EntryStands(t.dataset, a, t.entry, now) /\ CountStands(a, t)
    BY <1>1 DEF Underway, Stands
  <1>4. CASE t.entry.type = "breakglass.vote" /\ Quorum(CastVotes(t))
    <2> DEFINE r == [t EXCEPT !.pc = "enter"]
    <2>1. AfterEmit(t) = r  BY <1>4 DEF AfterEmit
    <2>2. /\ r \in Requests /\ r.pc = "enter" /\ r.dataset = t.dataset /\ r.entry = t.entry
      BY <1>1 DEF Requests
    <2> HIDE DEF r
    <2>3. t.entry \in Ballots
      BY <1>2, <1>4 DEF Entries, Claims, Grants, Promotions, Revokes, Loans, LoanEnds, GlassAsks,
                        Ballots, Exits, Refusals
    <2>4. t.entry.id \in Glasses /\ a.breakglass[t.entry.id] # None
      BY <1>3, <2>3 DEF Ballots, EntryStands, GlassStands
    <2>5. IsFiniteSet(a.breakglass[t.entry.id].votes)
      BY <1>2, <2>4 DEF Records, SoundRecord, SoundGlass
    <2>6. TwoVoted(Shown(a, t.entry))  BY <1>1, <1>2, <1>3, <1>4, <2>3, <2>4, <2>5, QuorumRecorded
    <2>7. /\ Shown(a, t.entry) \in BreakGlass
          /\ Apply(a, t.entry) = [a EXCEPT !.breakglass =
                                     [a.breakglass EXCEPT ![t.entry.id] = Shown(a, t.entry)]]
      BY <1>2, <2>3, <2>4, GlassApplied
    <2>8. Shown(a, t.entry) # None  BY <2>7, NoneIsApart
    <2>9. Written(t.dataset, t.entry)  BY <1>4 DEF Held
    <2>10. auth'[t.dataset] = Apply(a, t.entry)  BY <1>2, <2>9 DEF Written, Types
    <2>11. auth'[t.dataset].breakglass[t.entry.id] = Shown(a, t.entry)
      <3>1. auth'[t.dataset].breakglass = [a.breakglass EXCEPT ![t.entry.id] = Shown(a, t.entry)]
        BY <1>2, <2>7, <2>10 DEF Authority
      <3> QED  BY <1>2, <2>4, <3>1 DEF Authority
    <2>12. Stands(auth'[r.dataset], r, now')
      BY <1>4, <2>2, <2>6, <2>8, <2>11 DEF Stands
    <2> QED  BY <2>1, <2>2, <2>12
  <1>5. CASE ~(t.entry.type = "breakglass.vote" /\ Quorum(CastVotes(t)))
    <2>1. CASE t.entry.type = "grant.admin"
      <3>1. AfterEmit(t) = Releasing(t)
        BY <1>5, <2>1 DEF AfterEmit
      <3>2. AfterEmit(t).pc = "release"  BY <1>1, <3>1, ReleasePc
      <3> QED  BY <3>2, NotARequest
    <2>2. CASE t.entry.type # "grant.admin"
      <3>1. AfterEmit(t) = Idle  BY <1>5, <2>2 DEF AfterEmit
      <3> QED  BY <3>1, NotARequest
    <2> QED  BY <2>1, <2>2
  <1> QED  BY <1>4, <1>5

LEMMA EmitKeeps ==
    ASSUME IInv, NEW w \in Workers, Emit(w)
    PROVE  IInv'
  <1> DEFINE t == task[w]
             d == t.dataset
             e == t.entry
             r == AfterEmit(t)
  <1>0. Types /\ Records /\ Underway /\ Waiting /\ QueueApart  BY DEF IInv
  <1>1. /\ t.pc = "emit" /\ writes < MaxWrites /\ Propose(d, e)
        /\ task' = [task EXCEPT ![w] = r] /\ now' = now
    BY DEF Emit
  <1>2. writes' = writes + 1 /\ writes' \in 0..MaxWrites
    BY <1>0, <1>1, WarrantConstants DEF Propose, Types
  <1>3. t \in Requests  BY <1>0, <1>1, UnderwayPc
  <1>4. d \in Datasets /\ e \in Entries  BY <1>3 DEF Requests
  <1>5. EntryStands(d, auth[d], e, now)  BY <1>0, <1>1, <1>3 DEF Underway, Stands
  <1>7. ~Held(e) => Written(d, e) /\ queue' = queue
    BY <1>1 DEF Propose, Written
  <1>8. Held(e) =>
           auth' = auth /\ queue' = queue \cup {[id |-> writes, dataset |-> d, entry |-> e]}
    BY <1>1 DEF Propose
  <1>9. /\ r = Idle \/ r.pc = "release" \/ r \in Requests
        /\ r \in Requests =>
              /\ r.pc = "enter" /\ r.dataset = d /\ Stands(auth'[r.dataset], r, now')
    BY <1>0, <1>1, <1>2, <1>7, AfterEmitStands
  <1> HIDE DEF r
  <1>10. task' = [v \in Workers |-> task'[v]] /\ TaskTypes'
    BY <1>0, <1>1, <1>9, TaskTypesStep
  <1>11. \A v \in Workers \ {w} :
            task[v] \in Requests /\ task[v].pc = "emit" /\ task[v].dataset = d => Apart(e, task[v].entry)
    BY <1>0, <1>1, <1>3 DEF Underway, TasksApart
  <1>12. r \in Requests => \A v \in Workers \ {w} : task[v] \in Requests => TasksApart(r, task[v])
    BY <1>9 DEF TasksApart
  <1>15. \A q \in queue : q.dataset = d => Apart(q.entry, e)
    BY <1>0, <1>1, <1>3 DEF QueueApart
  <1>16. r \in Requests => r.pc # "emit"  BY <1>9
  <1>13. CASE ~Held(e)
    <2>1. /\ auth' \in [Datasets -> Authority] /\ Records'
          /\ Kept(auth[d], auth'[d], e)
          /\ \A o \in Datasets : o # d => auth'[o] = auth[o]
      BY <1>0, <1>1, <1>2, <1>4, <1>5, <1>7, <1>13, WriteKeepsRecords
    <2>2. Types'  BY <1>0, <1>1, <1>2, <1>7, <1>10, <1>13, <2>1 DEF Types
    <2>3. \A v \in Workers \ {w} :
             task[v] \in Requests => Stands(auth'[task[v].dataset], task[v], now')
      BY <1>0, <1>1, <1>4, <1>11, <2>1, OtherGoesOn
    <2>4. Underway'  BY <1>0, <1>1, <1>9, <1>12, <2>3, UnderwayStep
    <2>5. \A q \in queue : EntryStands(q.dataset, auth'[q.dataset], q.entry, now')
      BY <1>0, <1>1, <1>4, <1>15, <2>1, EntriesSymmetric, WaitingGoesOn
    <2>6. Waiting'  BY <1>7, <1>13, <2>5 DEF Waiting
    <2>7. QueueApart'  BY <1>0, <1>1, <1>7, <1>13, <1>16, QueueApartStep
    <2> QED  BY <2>1, <2>2, <2>4, <2>6, <2>7 DEF IInv
  <1>14. CASE Held(e)
    <2> DEFINE q == [id |-> writes, dataset |-> d, entry |-> e]
    <2>1. e \in Promotions \cup AdminLoans  BY <1>4, <1>14, HeldEntries
    <2>2. writes \in 0..MaxWrites  BY <1>0 DEF Types
    <2>3. q \in Pending  BY <1>4, <2>1, <2>2 DEF Pending, Promotions, AdminLoans
    <2>4. q.dataset = d /\ q.entry = e  OBVIOUS
    <2> HIDE DEF q
    <2>5. auth' = auth /\ queue' = queue \cup {q}  BY <1>8, <1>14 DEF q
    <2>6. Types'  BY <1>0, <1>1, <1>2, <1>10, <2>3, <2>5 DEF Types
    <2>7. Records'
      <3>1. \A o \in Datasets : auth[o].refusals \in Nat  BY <1>0 DEF Types, Authority
      <3>2. writes \in Nat  BY <2>2
      <3>3. \A o \in Datasets : auth[o].refusals <= writes'  BY <1>0, <1>2, <3>1, <3>2 DEF Records
      <3> QED  BY <1>0, <1>1, <2>5, <3>3 DEF Records
    <2>8. \A v \in Workers \ {w} :
             task[v] \in Requests => Stands(auth'[task[v].dataset], task[v], now')
      BY <1>0, <1>1, <2>5 DEF Underway
    <2>9. Underway'  BY <1>0, <1>1, <1>9, <1>12, <2>8, UnderwayStep
    <2>10. Waiting'  BY <1>0, <1>1, <1>5, <2>4, <2>5 DEF Waiting
    <2>11. QueueApart'
      <3>1. \A p \in queue : p.dataset = q.dataset => Apart(p.entry, q.entry)  BY <1>15, <2>4
      <3>2. \A v \in Workers \ {w} :
               task[v] \in Requests /\ task[v].pc = "emit" /\ task[v].dataset = q.dataset =>
                   Apart(q.entry, task[v].entry)
        BY <1>11, <2>4
      <3>3. task' = [task EXCEPT ![w] = r]  BY <1>1
      <3> HIDE DEF d, e, t
      <3> QED  BY <1>0, <1>16, <2>5, <3>1, <3>2, <3>3, QueueApartGrows
    <2> QED  BY <2>6, <2>7, <2>9, <2>10, <2>11 DEF IInv
  <1> QED  BY <1>13, <1>14

\* A worker that is done, or gives up, leaves the rest as it stands.
LEMMA WorkerDone ==
    ASSUME Types, Underway, NEW w \in Workers, NEW r, task' = [task EXCEPT ![w] = r],
           r = Idle \/ r.pc = "release", auth' = auth, now' = now
    PROVE  task' = [v \in Workers |-> task'[v]] /\ TaskTypes' /\ Underway'
  <1>1. r \notin Requests  BY NotARequest
  <1>2. \A v \in Workers \ {w} :
           task[v] \in Requests => Stands(auth'[task[v].dataset], task[v], now')
    BY DEF Underway
  <1>3. Underway'  BY <1>1, <1>2, UnderwayStep
  <1> QED  BY <1>3, TaskTypesStep

LEMMA EnterKeeps ==
    ASSUME IInv, NEW w \in Workers, EnterBreakglass(w)
    PROVE  IInv'
  <1> DEFINE t == task[w]
             d == t.dataset
             e == [type |-> "breakglass.entered", id |-> t.entry.id, expires |-> now + Window]
             q == [id |-> writes, dataset |-> d, entry |-> e]
             r == Releasing(t)
  <1>0. Types /\ Records /\ Underway /\ Waiting /\ QueueApart  BY DEF IInv
  <1>1. /\ t.pc = "enter" /\ writes < MaxWrites /\ Propose(d, e)
        /\ task' = [task EXCEPT ![w] = r] /\ now' = now
    BY DEF EnterBreakglass
  <1>2. t \in Requests  BY <1>0, <1>1, UnderwayPc
  <1>3. /\ d \in Datasets /\ t.entry \in Entries /\ t.entry.type = "breakglass.vote"
        /\ auth[d].breakglass[t.entry.id] # None /\ TwoVoted(auth[d].breakglass[t.entry.id])
    BY <1>0, <1>1, <1>2 DEF Requests, Underway, Stands
  <1>4. t.entry.id \in Glasses
    BY <1>3 DEF Entries, Claims, Grants, Promotions, Revokes, Loans, LoanEnds, GlassAsks,
                Ballots, Exits, Refusals
  <1>5. e.type = "breakglass.entered" /\ e.id = t.entry.id  OBVIOUS
  <1>6. now + Window \in Deadlines  BY <1>0, WarrantConstants DEF Types, Deadlines
  <1>7. e \in Openings  BY <1>4, <1>6 DEF Openings
  <1>8. r.pc = "release"  BY ReleasePc
  <1> HIDE DEF e, r
  <1>9. EntryStands(d, auth[d], e, now)
    BY <1>3, <1>5 DEF EntryStands, LoanStands, GlassStands
  <1>10. writes' = writes + 1 /\ writes' \in 0..MaxWrites /\ writes \in 0..MaxWrites
    BY <1>0, <1>1, WarrantConstants DEF Propose, Types
  <1>11. auth' = auth /\ queue' = queue \cup {q}  BY <1>1, <1>5 DEF Propose, Held
  <1>12. q \in Pending  BY <1>3, <1>7, <1>10 DEF Pending, Openings
  <1>13. q.dataset = d /\ q.entry = e  OBVIOUS
  <1> HIDE DEF q
  <1>14. task' = [v \in Workers |-> task'[v]] /\ TaskTypes' /\ Underway'
    BY <1>0, <1>1, <1>8, <1>11, WorkerDone
  <1>15. Types'  BY <1>0, <1>1, <1>10, <1>11, <1>12, <1>14 DEF Types
  <1>16. Records'
    <2>1. \A o \in Datasets : auth[o].refusals \in Nat  BY <1>0 DEF Types, Authority
    <2>2. \A o \in Datasets : auth[o].refusals <= writes'  BY <1>0, <1>10, <2>1 DEF Records
    <2> QED  BY <1>0, <1>1, <1>11, <2>2 DEF Records
  <1>17. Waiting'  BY <1>0, <1>1, <1>9, <1>11, <1>13 DEF Waiting
  <1>18. QueueApart'
    <2>1. r \notin Requests  BY <1>8, NotARequest
    <2>2. \A f : Apart(f, e) /\ Apart(e, f)  BY <1>5 DEF Apart
    <2> QED  BY <1>0, <1>1, <1>11, <1>13, <2>1, <2>2, QueueApartGrows
  <1> QED  BY <1>14, <1>15, <1>16, <1>17, <1>18 DEF IInv

\* A decision at the gate applies an entry that stands.
LEMMA DecidedKeeps ==
    ASSUME Types, Records, Underway, Waiting, QueueApart, NEW q \in queue, Decided(q),
           now' = now, writes' = writes
    PROVE  /\ auth' \in [Datasets -> Authority] /\ Records' /\ Waiting'
           /\ queue' \subseteq Pending
           /\ \A v \in Workers :
                 task[v] \in Requests => Stands(auth'[task[v].dataset], task[v], now')
  <1> DEFINE d == q.dataset
             e == q.entry
  <1>1. /\ d \in Datasets /\ e \in Entries \cup Openings
        /\ e.type # "refused"
    BY PendingEntries DEF Types
  <1>2. EntryStands(d, auth[d], e, now)  BY DEF Waiting
  <1>3. Written(d, e) /\ queue' = queue \ {q}  BY DEF Decided, Written
  <1>4. writes' \in 0..MaxWrites  BY DEF Types
  <1>5. /\ auth' \in [Datasets -> Authority] /\ Records'
        /\ Kept(auth[d], auth'[d], e)
        /\ \A o \in Datasets : o # d => auth'[o] = auth[o]
    BY <1>1, <1>2, <1>3, <1>4, WriteKeepsRecords
  <1>6. \A v \in Workers : task[v] \in Requests /\ task[v].pc = "emit" /\ task[v].dataset = d =>
            Apart(e, task[v].entry)
    BY DEF QueueApart
  <1>7. \A v \in Workers :
           task[v] \in Requests => Stands(auth'[task[v].dataset], task[v], now')
    BY <1>1, <1>5, <1>6, OtherGoesOn
  <1>8. \A p \in queue \ {q} : EntryStands(p.dataset, auth'[p.dataset], p.entry, now')
    BY <1>1, <1>5, WaitingGoesOn DEF QueueApart
  <1>9. Waiting'  BY <1>3, <1>8 DEF Waiting
  <1> QED  BY <1>3, <1>5, <1>7, <1>9 DEF Types

LEMMA ReleaseKeeps ==
    ASSUME IInv, NEW w \in Workers, Release(w)
    PROVE  IInv'
  <1>0. Types /\ Records /\ Underway /\ Waiting /\ QueueApart  BY DEF IInv
  <1>1. task' = [task EXCEPT ![w] = Idle] /\ now' = now /\ writes' = writes  BY DEF Release
  <1>2. CASE UNCHANGED <<auth, queue>>
    <2>1. task' = [v \in Workers |-> task'[v]] /\ TaskTypes' /\ Underway'
      BY <1>0, <1>1, <1>2, WorkerDone
    <2>2. Types' /\ Records' /\ Waiting'
      BY <1>0, <1>1, <1>2, <2>1 DEF Types, Records, Waiting
    <2>3. QueueApart'  BY <1>0, <1>1, <1>2, NotARequest, QueueApartStep
    <2> QED  BY <2>1, <2>2, <2>3 DEF IInv
  <1>3. ASSUME NEW q \in queue, Decided(q) PROVE IInv'
    <2>1. /\ auth' \in [Datasets -> Authority] /\ Records' /\ Waiting'
          /\ queue' \subseteq Pending
          /\ \A v \in Workers :
                task[v] \in Requests => Stands(auth'[task[v].dataset], task[v], now')
      BY <1>0, <1>1, <1>3, DecidedKeeps
    <2>2. Underway'  BY <1>0, <1>1, <2>1, NotARequest, UnderwayStep
    <2>3. Types'  BY <1>0, <1>1, <2>1, TaskTypesStep DEF Types
    <2>4. QueueApart'  BY <1>0, <1>1, <1>3, NotARequest, QueueApartStep DEF Decided
    <2> QED  BY <2>1, <2>2, <2>3, <2>4 DEF IInv
  <1> QED  BY <1>2, <1>3 DEF Release

LEMMA OperatorKeeps ==
    ASSUME IInv, OperatorDecides
    PROVE  IInv'
  <1>0. Types /\ Records /\ Underway /\ Waiting /\ QueueApart  BY DEF IInv
  <1>1. UNCHANGED <<now, writes, task>>  BY DEF OperatorDecides
  <1>2. ASSUME NEW q \in queue, Decided(q) PROVE IInv'
    <2>1. /\ auth' \in [Datasets -> Authority] /\ Records' /\ Waiting'
          /\ queue' \subseteq Pending
          /\ \A v \in Workers :
                task[v] \in Requests => Stands(auth'[task[v].dataset], task[v], now')
      BY <1>0, <1>1, <1>2, DecidedKeeps
    <2>2. Underway'  BY <1>0, <1>1, <2>1 DEF Underway
    <2>3. Types'  BY <1>0, <1>1, <2>1 DEF Types, TaskTypes
    <2>4. QueueApart'  BY <1>0, <1>1, <1>2 DEF Decided, QueueApart
    <2> QED  BY <2>1, <2>2, <2>3, <2>4 DEF IInv
  <1>3. ASSUME NEW q \in queue, queue' = queue \ {q}, auth' = auth PROVE IInv'
    BY <1>0, <1>1, <1>3 DEF IInv, Types, TaskTypes, Records, Underway, Waiting, QueueApart
  <1> QED  BY <1>2, <1>3 DEF OperatorDecides

LEMMA AbandonKeeps ==
    ASSUME IInv, NEW w \in Workers, Abandon(w)
    PROVE  IInv'
  <1>0. Types /\ Records /\ Underway /\ Waiting /\ QueueApart  BY DEF IInv
  <1>1. task' = [task EXCEPT ![w] = Idle] /\ UNCHANGED <<auth, queue, now, writes>>
    BY DEF Abandon
  <1>2. task' = [v \in Workers |-> task'[v]] /\ TaskTypes' /\ Underway'
    BY <1>0, <1>1, WorkerDone
  <1>3. Types' /\ Records' /\ Waiting'
    BY <1>0, <1>1, <1>2 DEF Types, Records, Waiting
  <1>4. QueueApart'  BY <1>0, <1>1, NotARequest, QueueApartStep
  <1> QED  BY <1>2, <1>3, <1>4 DEF IInv

LEMMA DeadlinesAreTicks == Deadlines \subseteq Nat
  <1>1. MaxNow + MaxDelegation + Window \in Nat  BY WarrantConstants
  <1> QED  BY <1>1 DEF Deadlines

\* What has lapsed stays lapsed.
LEMMA LaterStands ==
    ASSUME NEW d \in Datasets, NEW a \in Authority, NEW e \in Entries \cup Openings,
           NEW t \in Nat, EntryStands(d, a, e, t)
    PROVE  EntryStands(d, a, e, t + 1)
  <1>1. CASE e.type = "delegation.end"
    <2>1. e.id \in Dlgs
      BY <1>1 DEF Entries, Claims, Grants, Promotions, Revokes, Loans, LoanEnds, GlassAsks,
                  Ballots, Exits, Refusals, Openings
    <2>2. a.delegations[e.id] # None /\ (e.as = "expired" => t >= a.delegations[e.id].expires)
      BY <1>1 DEF EntryStands, LoanStands
    <2>3. a.delegations[e.id] \in Delegation  BY <2>1, <2>2 DEF Authority
    <2>5. a.delegations[e.id].expires \in Nat  BY <2>3, DeadlinesAreTicks DEF Delegation
    <2>4. e.as = "expired" => t + 1 >= a.delegations[e.id].expires  BY <2>2, <2>5
    <2> QED  BY <1>1, <2>2, <2>4 DEF EntryStands, LoanStands
  <1>2. CASE e.type # "delegation.end"  BY <1>2 DEF EntryStands, LoanStands
  <1> QED  BY <1>1, <1>2

LEMMA TickKeeps ==
    ASSUME IInv, Tick
    PROVE  IInv'
  <1>0. Types /\ Records /\ Underway /\ Waiting /\ QueueApart  BY DEF IInv
  <1>1. now' = now + 1 /\ now < MaxNow /\ UNCHANGED <<auth, queue, writes, task>>  BY DEF Tick
  <1>2. now \in Nat /\ now' \in 0..MaxNow  BY <1>0, <1>1, WarrantConstants DEF Types
  <1>3. \A d \in Datasets : auth[d] \in Authority  BY <1>0 DEF Types
  <1>4. Types'  BY <1>0, <1>1, <1>2 DEF Types, TaskTypes
  <1>5. Records'
    <2>1. ASSUME NEW d \in Datasets, NEW g \in Dlgs
          PROVE  SoundLoan(auth[d].delegations[g], now + 1)
      <3> DEFINE x == auth[d].delegations[g]
      <3>1. SoundLoan(x, now)  BY <1>0 DEF Records, SoundRecord
      <3>2. x # None => x \in Delegation  BY <1>3 DEF Authority
      <3>3. x # None => x.expires \in Nat  BY <3>2, DeadlinesAreTicks DEF Delegation
      <3> HIDE DEF x
      <3> QED  BY <1>2, <3>1, <3>3 DEF SoundLoan, x
    <2>2. \A d \in Datasets : SoundRecord(d, auth[d], now + 1)
      BY <1>0, <2>1 DEF Records, SoundRecord
    <2> QED  BY <1>0, <1>1, <2>2 DEF Records
  <1>6. Underway'
    <2>1. ASSUME NEW w \in Workers, task[w] \in Requests
          PROVE  Stands(auth[task[w].dataset], task[w], now + 1)
      <3>1. /\ task[w].dataset \in Datasets /\ task[w].entry \in Entries
        BY <2>1 DEF Requests
      <3>2. Stands(auth[task[w].dataset], task[w], now)  BY <1>0, <2>1 DEF Underway
      <3>3. task[w].pc = "emit" =>
               EntryStands(task[w].dataset, auth[task[w].dataset], task[w].entry, now + 1)
        BY <1>2, <1>3, <3>1, <3>2, LaterStands DEF Stands
      <3> QED  BY <3>2, <3>3 DEF Stands
    <2> QED  BY <1>0, <1>1, <2>1 DEF Underway
  <1>7. Waiting'
    <2>1. ASSUME NEW q \in queue
          PROVE  EntryStands(q.dataset, auth[q.dataset], q.entry, now + 1)
      <3>1. q.dataset \in Datasets /\ q.entry \in Entries \cup Openings
        BY <1>0, PendingEntries DEF Types
      <3> QED  BY <1>0, <1>2, <1>3, <3>1, LaterStands DEF Waiting
    <2> QED  BY <1>1, <2>1 DEF Waiting
  <1>8. QueueApart'  BY <1>0, <1>1 DEF QueueApart
  <1> QED  BY <1>4, <1>5, <1>6, <1>7, <1>8 DEF IInv

LEMMA InitHolds == Init => IInv
  <1> SUFFICES ASSUME Init PROVE IInv  OBVIOUS
  <1>1. /\ auth = [d \in Datasets |-> Empty] /\ queue = {} /\ now = 0 /\ writes = 0
        /\ task = [w \in Workers |-> Idle]
    BY DEF Init
  <1>2. Empty \in Authority
    <2>1. [p \in Persons |-> None] \in [Persons -> ROLES \cup {None}]  OBVIOUS
    <2>2. [g \in Dlgs |-> None] \in [Dlgs -> Delegation \cup {None}]  OBVIOUS
    <2>3. [b \in Glasses |-> None] \in [Glasses -> BreakGlass \cup {None}]  OBVIOUS
    <2>4. {} \in SUBSET Persons /\ 0 \in 0..MaxWrites  BY WarrantConstants
    <2> QED  BY <2>1, <2>2, <2>3, <2>4 DEF Empty, Authority
  <1>3. /\ Empty.owners = {} /\ Empty.refusals = 0
        /\ Empty.delegations = [g \in Dlgs |-> None]
        /\ Empty.breakglass = [b \in Glasses |-> None]
    BY DEF Empty
  <1>4. \A d \in Datasets : auth[d] = Empty  BY <1>1
  <1> HIDE DEF Empty
  <1>5. \A d \in Datasets : SoundRecord(d, Empty, 0)
    BY <1>3 DEF SoundRecord, SoundLoan, SoundGlass
  <1>6. Records  BY <1>1, <1>3, <1>4, <1>5 DEF Records
  <1>7. \A w \in Workers : task[w] = Idle /\ task[w] \notin Requests
    BY <1>1, NotARequest
  <1>8. Types  BY <1>1, <1>2, <1>7, WarrantConstants DEF Types, TaskTypes
  <1>9. Underway /\ Waiting /\ QueueApart  BY <1>1, <1>7 DEF Underway, Waiting, QueueApart
  <1> QED  BY <1>6, <1>8, <1>9 DEF IInv

LEMMA NextKeeps == IInv /\ [Next]_vars => IInv'
  <1> SUFFICES ASSUME IInv, [Next]_vars PROVE IInv'  OBVIOUS
  <1>1. ASSUME NEW w \in Workers, Ask(w) PROVE IInv'
    BY <1>1, AskBegins, BeginKeeps DEF IInv
  <1>2. ASSUME NEW w \in Workers, Emit(w) PROVE IInv'  BY <1>2, EmitKeeps
  <1>3. ASSUME NEW w \in Workers, EnterBreakglass(w) PROVE IInv'  BY <1>3, EnterKeeps
  <1>4. ASSUME NEW w \in Workers, Release(w) PROVE IInv'  BY <1>4, ReleaseKeeps
  <1>5. ASSUME NEW w \in Workers, Abandon(w) PROVE IInv'  BY <1>5, AbandonKeeps
  <1>6. CASE OperatorDecides  BY <1>6, OperatorKeeps
  <1>7. CASE Tick  BY <1>7, TickKeeps
  <1>8. CASE UNCHANGED vars
    BY <1>8 DEF vars, IInv, Types, TaskTypes, Records, Underway, Waiting, QueueApart
  <1> QED
    BY <1>1, <1>2, <1>3, <1>4, <1>5, <1>6, <1>7, <1>8 DEF Next, Reliable, Serve

LEMMA Inductive == Spec => []IInv
  BY InitHolds, NextKeeps, PTL DEF Spec

-----------------------------------------------------------------------------
(* What follows from it.                                                   *)

LEMMA AtMostOne ==
    ASSUME NEW S, \A p, q \in S : p = q
    PROVE  Cardinality(S) <= 1
  <1>1. CASE S = {}  BY <1>1, FS_EmptySet
  <1>2. CASE S # {}
    <2>1. PICK p \in S : TRUE  BY <1>2
    <2>2. S = {p}  BY <2>1
    <2>3. Cardinality({p}) = 1  BY FS_Singleton
    <2> QED  BY <2>2, <2>3
  <1> QED  BY <1>1, <1>2

LEMMA AtLeastTwo ==
    ASSUME NEW S, IsFiniteSet(S), NEW p \in S, NEW q \in S, p # q
    PROVE  Cardinality(S) >= 2
  <1>1. {p, q} \subseteq S  OBVIOUS
  <1>2. Cardinality({p, q}) = 2
    <2>1. IsFiniteSet({p}) /\ Cardinality({p}) = 1  BY FS_Singleton
    <2>2. {p, q} = {p} \cup {q} /\ q \notin {p}  OBVIOUS
    <2>3. Cardinality({p} \cup {q}) = Cardinality({p}) + 1  BY <2>1, <2>2, FS_AddElement
    <2> QED  BY <2>1, <2>2, <2>3
  <1>3. IsFiniteSet({p, q}) /\ Cardinality({p, q}) <= Cardinality(S)  BY <1>1, FS_Subset
  <1>4. Cardinality(S) \in Nat  BY FS_CardinalityType
  <1> QED  BY <1>2, <1>3, <1>4

\* Whoever asks and in whatever order requests overlap and calls are lost: the
\* record has its types, a dataset one owner, and no loan is recorded as lapsed
\* early (Warrant.claim, _apply, _expire_lapsed).
THEOREM RecordStands == Spec => []RecordIsSound
  <1>1. IInv => RecordIsSound
    <2> SUFFICES ASSUME IInv PROVE RecordIsSound  OBVIOUS
    <2>1. TypeOK
      <3>1. \A w \in Workers : task[w] \in Requests => task[w].pc \in {"emit", "enter"}
        BY DEF Requests
      <3> QED  BY <3>1 DEF IInv, Types, TaskTypes, TypeOK
    <2>2. OneOwner  BY AtMostOne DEF IInv, Records, SoundRecord, OneOwner
    <2>3. LapseIsPast  BY DEF IInv, Records, SoundRecord, SoundLoan, LapseIsPast
    <2> QED  BY <2>1, <2>2, <2>3 DEF RecordIsSound
  <1> QED  BY <1>1, Inductive, PTL

\* A window opens on the recorded votes of two others and, as long as nobody
\* votes twice at once, for two datasets besides its own (vote_breakglass).
THEOREM QuorumOpensGlass == Spec => []GlassIsVoted
  <1>1. IInv => GlassIsVoted
    <2> SUFFICES ASSUME IInv, NEW d \in Datasets, NEW b \in Glasses,
                        auth[d].breakglass[b] # None, auth[d].breakglass[b].entered
                 PROVE  LET x == auth[d].breakglass[b]
                        IN  /\ Cardinality({v.voter : v \in x.votes} \ {x.requester}) >= 2
                            /\ VotesOnce => Cardinality({v.dataset : v \in x.votes} \ {d}) >= 2
      BY DEF GlassIsVoted
    <2> DEFINE x == auth[d].breakglass[b]
               voters == {v.voter : v \in x.votes}
               counted == {v.dataset : v \in x.votes}
    <2>1. /\ IsFiniteSet(x.votes) /\ TwoVoted(x)
          /\ \A v \in x.votes : v.voter # x.requester /\ v.dataset # d
      BY DEF IInv, Records, SoundRecord, SoundGlass
    <2> HIDE DEF x
    <2>2. IsFiniteSet(voters) /\ IsFiniteSet(counted)
      <3> DEFINE f == [v \in x.votes |-> v.voter]
                 g == [v \in x.votes |-> v.dataset]
      <3>1. f \in Surjection(x.votes, voters)  BY DEF Surjection
      <3>2. g \in Surjection(x.votes, counted)  BY DEF Surjection
      <3> HIDE DEF f, g, voters, counted
      <3> QED  BY <2>1, <3>1, <3>2, FS_Surjection
    <2>3. IsFiniteSet(voters \ {x.requester}) /\ IsFiniteSet(counted \ {d})
      BY <2>2, FS_Difference
    <2>4. PICK u \in x.votes, v \in x.votes : u.voter # v.voter  BY <2>1 DEF TwoVoted
    <2>5. u.voter \in voters \ {x.requester} /\ v.voter \in voters \ {x.requester}
      BY <2>1, <2>4
    <2>6. Cardinality(voters \ {x.requester}) >= 2  BY <2>3, <2>4, <2>5, AtLeastTwo
    <2>7. ASSUME VotesOnce PROVE Cardinality(counted \ {d}) >= 2
      <3>1. PICK m \in x.votes, n \in x.votes : m.dataset # n.dataset
        BY <2>1, <2>7 DEF TwoVoted
      <3>2. m.dataset \in counted \ {d} /\ n.dataset \in counted \ {d}  BY <2>1, <3>1
      <3> QED  BY <2>3, <3>1, <3>2, AtLeastTwo
    <2> QED  BY <2>6, <2>7 DEF x
  <1> QED  BY <1>1, Inductive, PTL

-----------------------------------------------------------------------------
(* Who may widen access, and who is left.                                  *)

\* The direct administrators after an entry.
LEMMA AdminsMove ==
    ASSUME NEW d \in Datasets, NEW a \in Authority, NEW t \in Nat,
           NEW e \in Entries \cup Openings, EntryStands(d, a, e, t), SoundRecord(d, a, t),
           e.type = "refused" => a.refusals < MaxWrites
    PROVE  LET c == Apply(a, e)
           IN  /\ e \in Grants \cup Revokes =>
                     DirectAdmins(c) = DirectAdmins(a) \ {e.subject} /\ e.subject \in Persons
               /\ e \in Promotions => e.subject \in DirectAdmins(c)
               /\ e \in Claims => c.claimed /\ (a.claimed => c = a)
               /\ e \notin Claims \cup Grants \cup Revokes \cup Promotions => c.grants = a.grants
               /\ e \notin Claims => c.claimed = a.claimed
  <1> DEFINE c == Apply(a, e)
  <1>0. /\ e \in Claims => e.type = "claim"
        /\ e \in Grants \cup Revokes \cup Promotions => e.type \in {"grant", "revoke", "grant.admin"}
        /\ e \in Loans => e.type = "delegate"
        /\ e \in LoanEnds => e.type = "delegation.end"
        /\ e \in Refusals => e.type = "refused"
    BY DEF Claims, Grants, Revokes, Promotions, Loans, LoanEnds, Refusals
  <1>1. None # "admin"  BY NoneIsApart DEF ROLES
  <1>2. CASE e \in Claims
    <2>1. c.claimed /\ (a.claimed => c = a)  BY <1>2, ClaimApplied
    <2>2. e \notin Grants \cup Revokes \cup Promotions  BY <1>0, <1>2
    <2> QED  BY <1>2, <2>1, <2>2
  <1>3. CASE e \in Grants \cup Promotions
    <2>1. /\ c.grants = [a.grants EXCEPT ![e.subject] = e.role]
          /\ c = [a EXCEPT !.grants = [a.grants EXCEPT ![e.subject] = e.role]]
      BY <1>3, GrantApplied
    <2>2. c.claimed = a.claimed  BY <2>1 DEF Authority
    <2>3. e.subject \in Persons  BY <1>3 DEF Grants, Promotions
    <2>4. a.grants \in [Persons -> ROLES \cup {None}]  BY DEF Authority
    <2> HIDE DEF c
    <2>5. \A p \in Persons : c.grants[p] = IF p = e.subject THEN e.role ELSE a.grants[p]
      BY <2>1, <2>3, <2>4
    <2>6. CASE e \in Grants
      <3>1. e.role = "reader" /\ e \notin Promotions  BY <2>6 DEF Grants, Promotions
      <3>2. DirectAdmins(c) = DirectAdmins(a) \ {e.subject}
        BY <2>5, <3>1 DEF DirectAdmins
      <3> QED  BY <1>0, <2>2, <2>3, <2>6, <3>1, <3>2 DEF c
    <2>7. CASE e \in Promotions
      <3>1. e.role = "admin" /\ e \notin Grants \cup Revokes
        BY <2>7 DEF Grants, Promotions, Revokes
      <3>2. e.subject \in DirectAdmins(c)  BY <2>3, <2>5, <3>1 DEF DirectAdmins
      <3> QED  BY <1>0, <2>2, <2>7, <3>1, <3>2 DEF c
    <2> QED  BY <1>3, <2>6, <2>7
  <1>4. CASE e \in Revokes
    <2>1. /\ c.grants = [a.grants EXCEPT ![e.subject] = None]
          /\ c = [a EXCEPT !.grants = [a.grants EXCEPT ![e.subject] = None],
                           !.owners = a.owners \ {e.subject}]
      BY <1>4, RevokeApplied
    <2>2. c.claimed = a.claimed  BY <2>1 DEF Authority
    <2>3. e.subject \in Persons /\ e \notin Promotions  BY <1>4 DEF Revokes, Promotions
    <2>4. a.grants \in [Persons -> ROLES \cup {None}]  BY DEF Authority
    <2> HIDE DEF c
    <2>5. \A p \in Persons : c.grants[p] = IF p = e.subject THEN None ELSE a.grants[p]
      BY <2>1, <2>3, <2>4
    <2>6. DirectAdmins(c) = DirectAdmins(a) \ {e.subject}  BY <1>1, <2>5 DEF DirectAdmins
    <2> QED  BY <1>0, <1>4, <2>2, <2>3, <2>6 DEF c
  <1>5. ASSUME c.grants = a.grants, c.claimed = a.claimed,
               e \notin Claims \cup Grants \cup Revokes \cup Promotions
        PROVE  /\ e \in Grants \cup Revokes =>
                     DirectAdmins(c) = DirectAdmins(a) \ {e.subject} /\ e.subject \in Persons
               /\ e \in Promotions => e.subject \in DirectAdmins(c)
               /\ e \in Claims => c.claimed /\ (a.claimed => c = a)
               /\ e \notin Claims \cup Grants \cup Revokes \cup Promotions => c.grants = a.grants
               /\ e \notin Claims => c.claimed = a.claimed
    BY <1>5
  <1>6. CASE e \in Loans
    <2>1. PICK m : c = [a EXCEPT !.delegations = m]  BY <1>6, LoanApplied
    <2>2. c.grants = a.grants /\ c.claimed = a.claimed  BY <2>1 DEF Authority
    <2> QED  BY <1>0, <1>5, <1>6, <2>2
  <1>7. CASE e \in LoanEnds
    <2>1. a.delegations[e.id] # None  BY <1>7 DEF EntryStands, LoanStands, LoanEnds
    <2>2. PICK m : c = [a EXCEPT !.delegations = m]
      <3>1. c = [a EXCEPT !.delegations = [a.delegations EXCEPT ![e.id] =
                   [a.delegations[e.id] EXCEPT !.ended = e.as]]]
        BY <1>7, <2>1, LoanEndApplied
      <3> QED  BY <3>1
    <2>3. c.grants = a.grants /\ c.claimed = a.claimed  BY <2>2 DEF Authority
    <2> QED  BY <1>0, <1>5, <1>7, <2>3
  <1>8. CASE e \in Refusals
    <2>1. c = [a EXCEPT !.refusals = a.refusals + 1]  BY <1>0, <1>8, RefusalApplied
    <2>2. c.grants = a.grants /\ c.claimed = a.claimed  BY <2>1 DEF Authority
    <2> QED  BY <1>0, <1>5, <1>8, <2>2
  <1>9. CASE e \in GlassAsks \cup Ballots \cup Openings \cup Exits
    <2>1. c.grants = a.grants /\ c.claimed = a.claimed
      BY <1>9, WindowsMove DEF SoundRecord
    <2>2. e \notin Claims \cup Grants \cup Revokes \cup Promotions
      BY <1>9 DEF Claims, Grants, Revokes, Promotions, GlassAsks, Ballots, Openings, Exits
    <2> QED  BY <1>5, <2>1, <2>2
  <1> QED  BY <1>2, <1>3, <1>4, <1>6, <1>7, <1>8, <1>9, EntriesSplit DEF OtherEntries

\* No window opens but by its own entry.
LEMMA WindowsStay ==
    ASSUME NEW d \in Datasets, NEW a \in Authority, NEW t \in Nat,
           NEW e \in Entries, EntryStands(d, a, e, t), SoundRecord(d, a, t),
           e.type = "refused" => a.refusals < MaxWrites,
           NEW b \in Glasses, a.breakglass[b] # None
    PROVE  Apply(a, e).breakglass[b].entered = a.breakglass[b].entered
  <1> DEFINE c == Apply(a, e)
             x == a.breakglass[b]
  <1>1. CASE e \in OtherEntries
    <2>1. c.breakglass = a.breakglass  BY <1>1, OthersApplied DEF EntryStands
    <2> QED  BY <2>1
  <1>2. CASE e \in GlassAsks \cup Ballots \cup Exits
    <2>1. e.id \in Glasses  BY <1>2 DEF GlassAsks, Ballots, Exits
    <2>2. e \in GlassAsks \/ a.breakglass[e.id] # None
      BY <1>2 DEF EntryStands, GlassStands, Ballots, Exits
    <2>3. c = [a EXCEPT !.breakglass = [a.breakglass EXCEPT ![e.id] = Shown(a, e)]]
      BY <1>2, <2>2, GlassApplied
    <2>4. c.breakglass = [a.breakglass EXCEPT ![e.id] = Shown(a, e)]  BY <2>3 DEF Authority
    <2>5. CASE b # e.id  BY <2>4, <2>5 DEF Authority
    <2>6. CASE b = e.id
      <3>1. c.breakglass[b] = Shown(a, e)  BY <2>1, <2>4, <2>6 DEF Authority
      <3>2. e \notin GlassAsks  BY <2>6 DEF EntryStands, GlassStands, GlassAsks
      <3>3. CASE e \in Ballots  BY <2>6, <3>1, <3>3, VoteCounts
      <3>4. CASE e \in Exits
        <4>1. Shown(a, e) = [x EXCEPT !.exited = e.as]  BY <2>6, <3>4 DEF Shown, Exits
        <4>2. x \in BreakGlass  BY DEF Authority
        <4>3. [x EXCEPT !.exited = e.as].entered = x.entered  BY <4>2 DEF BreakGlass
        <4> QED  BY <3>1, <4>1, <4>3
      <3> QED  BY <1>2, <3>2, <3>3, <3>4
    <2> QED  BY <2>5, <2>6
  <1> QED  BY <1>1, <1>2 DEF Entries, OtherEntries

\* What a request writes at once lends nobody the admin role.
LEMMA LoansLend ==
    ASSUME NEW d \in Datasets, NEW a \in Authority, NEW t \in Nat,
           NEW e \in Entries, EntryStands(d, a, e, t), SoundRecord(d, a, t),
           e.type = "refused" => a.refusals < MaxWrites, ~Held(e),
           NEW g \in Dlgs, LendsAdmin(Apply(a, e).delegations[g])
    PROVE  LendsAdmin(a.delegations[g])
  <1> DEFINE c == Apply(a, e)
  <1>1. CASE e \in Loans
    <2> DEFINE x == [subject |-> e.subject, role |-> e.role, by |-> e.by,
                     expires |-> e.expires, ended |-> ""]
    <2>1. c = [a EXCEPT !.delegations = [a.delegations EXCEPT ![e.id] = x]]
      BY <1>1, LoanApplied
    <2>2. x.role # "admin"  BY <1>1 DEF Loans, Held
    <2>3. e.id \in Dlgs  BY <1>1 DEF Loans
    <2> HIDE DEF x
    <2>4. c.delegations = [a.delegations EXCEPT ![e.id] = x]  BY <2>1 DEF Authority
    <2>5. c.delegations[g] = IF g = e.id THEN x ELSE a.delegations[g]
      BY <2>3, <2>4 DEF Authority
    <2> QED  BY <2>2, <2>5 DEF LendsAdmin
  <1>2. CASE e \in LoanEnds
    <2> DEFINE y == a.delegations[e.id]
               x == [y EXCEPT !.ended = e.as]
    <2>1. e.id \in Dlgs /\ y # None
      BY <1>2 DEF LoanEnds, EntryStands, LoanStands
    <2>2. c = [a EXCEPT !.delegations = [a.delegations EXCEPT ![e.id] = x]]
      BY <1>2, <2>1, LoanEndApplied
    <2>3. y \in Delegation  BY <2>1 DEF Authority
    <2>4. x.role = y.role  BY <2>3 DEF Delegation
    <2> HIDE DEF x
    <2>5. c.delegations = [a.delegations EXCEPT ![e.id] = x]  BY <2>2 DEF Authority
    <2>6. c.delegations[g] = IF g = e.id THEN x ELSE a.delegations[g]
      BY <2>1, <2>5 DEF Authority
    <2> QED  BY <2>1, <2>4, <2>6 DEF LendsAdmin
  <1>3. CASE e \in OtherEntries /\ e \notin Loans \cup LoanEnds
    BY <1>3, OthersApplied DEF EntryStands
  <1>4. CASE e \in GlassAsks \cup Ballots \cup Exits
    BY <1>4, WindowsMove DEF SoundRecord
  <1> QED  BY <1>1, <1>2, <1>3, <1>4 DEF Entries, OtherEntries

\* Only two things write: a request that emits an entry nobody holds, and a
\* decision that takes an entry out of the queue.
LEMMA WhoWrites ==
    ASSUME IInv, [Next]_vars
    PROVE  \/ auth' = auth
           \/ \E w \in Workers : /\ task[w].pc = "emit" /\ ~Held(task[w].entry)
                                 /\ writes < MaxWrites
                                 /\ Written(task[w].dataset, task[w].entry)
           \/ \E q \in queue : Decided(q)
  <1>1. ASSUME NEW w \in Workers, Ask(w) PROVE auth' = auth
    BY <1>1, AskBegins DEF IInv, Begun, Start
  <1>2. ASSUME NEW w \in Workers, Emit(w)
        PROVE  \/ auth' = auth
               \/ /\ task[w].pc = "emit" /\ ~Held(task[w].entry)
                  /\ writes < MaxWrites
                  /\ Written(task[w].dataset, task[w].entry)
    BY <1>2 DEF Emit, Propose, Written
  <1>3. ASSUME NEW w \in Workers, EnterBreakglass(w) PROVE auth' = auth
    BY <1>3 DEF EnterBreakglass, Propose, Held
  <1>4. ASSUME NEW w \in Workers, Release(w) PROVE auth' = auth \/ \E q \in queue : Decided(q)
    BY <1>4 DEF Release
  <1>5. ASSUME NEW w \in Workers, Abandon(w) PROVE auth' = auth
    BY <1>5 DEF Abandon
  <1>6. CASE OperatorDecides  BY <1>6 DEF OperatorDecides
  <1>7. CASE Tick  BY <1>7 DEF Tick
  <1>8. CASE UNCHANGED vars  BY <1>8 DEF vars
  <1> QED
    BY <1>1, <1>2, <1>3, <1>4, <1>5, <1>6, <1>7, <1>8 DEF Next, Reliable, Serve

\* What is known of an entry a request writes at once.
LEMMA EmittedFacts ==
    ASSUME IInv, NEW w \in Workers, task[w].pc = "emit", writes < MaxWrites
    PROVE  LET t == task[w]
               a == auth[t.dataset]
           IN  /\ t \in Requests /\ t.dataset \in Datasets /\ t.entry \in Entries
               /\ a \in Authority /\ now \in Nat
               /\ EntryStands(t.dataset, a, t.entry, now) /\ FloorStands(t)
               /\ SoundRecord(t.dataset, a, now)
               /\ a.refusals < MaxWrites
  <1> DEFINE t == task[w]
             a == auth[t.dataset]
  <1>1. t \in Requests  BY UnderwayPc DEF IInv
  <1>2. t.dataset \in Datasets /\ t.entry \in Entries  BY <1>1 DEF Requests
  <1>3. a \in Authority /\ now \in Nat /\ writes \in Nat
    BY <1>2, WarrantConstants DEF IInv, Types
  <1>4. EntryStands(t.dataset, a, t.entry, now) /\ FloorStands(t)
    BY <1>1 DEF IInv, Underway, Stands
  <1>5. SoundRecord(t.dataset, a, now) /\ a.refusals <= writes  BY <1>2 DEF IInv, Records
  <1>6. a.refusals < MaxWrites  BY <1>3, <1>5, WarrantConstants DEF Authority
  <1> QED  BY <1>1, <1>2, <1>3, <1>4, <1>5, <1>6

\* The first claim leaves its subject an administrator.
LEMMA ClaimAppoints ==
    ASSUME NEW a \in Authority, NEW e \in Claims, ~a.claimed
    PROVE  e.subject \in DirectAdmins(Apply(a, e))
  <1> DEFINE g == [a.grants EXCEPT ![e.subject] = "admin"]
  <1>1. Apply(a, e) = [a EXCEPT !.claimed = TRUE, !.grants = g,
                                !.owners = a.owners \cup {e.subject}]
    BY DEF Apply, ApplyClaim, Claims
  <1>2. Apply(a, e).grants = g  BY <1>1 DEF Authority
  <1>3. e.subject \in Persons /\ g[e.subject] = "admin"  BY DEF Claims, Authority
  <1> QED  BY <1>2, <1>3 DEF DirectAdmins

\* A direct administrator appears, after the claim, a window opens and the admin
\* role is lent only in a step that takes an entry of that dataset out of the
\* gate's queue: what a request writes by itself never widens who may widen
\* access (gate.py's classify, _release_promotion).
THEOREM WidenedOnlyAtTheGate == Spec => WidenedAtTheGate
  <1> DEFINE Widened(d) ==
        \/ auth[d].claimed # auth'[d].claimed
        \/ \E q \in queue : q \notin queue' /\ q.dataset = d
        \/ /\ DirectAdmins(auth'[d]) \subseteq DirectAdmins(auth[d])
           /\ \A b \in Glasses : auth[d].breakglass[b] # None =>
                 auth'[d].breakglass[b].entered = auth[d].breakglass[b].entered
           /\ \A g \in Dlgs : LendsAdmin(auth'[d].delegations[g]) =>
                 LendsAdmin(auth[d].delegations[g])
  <1>1. ASSUME IInv, [Next]_vars, NEW d \in Datasets PROVE Widened(d)
    <2>0. auth \in [Datasets -> Authority] /\ queue \subseteq Pending  BY <1>1 DEF IInv, Types
    <2>1. CASE auth'[d] = auth[d]  BY <2>1 DEF DirectAdmins
    <2>2. CASE auth' = auth  BY <2>1, <2>2
    <2>3. ASSUME NEW q \in queue, Decided(q) PROVE Widened(d)
      <3>1. CASE q.dataset = d  BY <2>3, <3>1 DEF Decided
      <3>2. CASE q.dataset # d  BY <2>0, <2>1, <2>3, <3>2 DEF Decided
      <3> QED  BY <3>1, <3>2
    <2>4. ASSUME NEW w \in Workers, task[w].pc = "emit", ~Held(task[w].entry),
                 writes < MaxWrites, Written(task[w].dataset, task[w].entry)
          PROVE  Widened(d)
      <3> DEFINE a == auth[d]
                 e == task[w].entry
                 c == Apply(a, e)
      <3>1. CASE task[w].dataset # d
        BY <2>0, <2>1, <2>4, <3>1 DEF Written
      <3>2. CASE task[w].dataset = d
        <4>1. auth'[d] = c  BY <2>0, <2>4, <3>2 DEF Written
        <4>2. /\ a \in Authority /\ e \in Entries /\ now \in Nat
              /\ EntryStands(d, a, e, now) /\ SoundRecord(d, a, now)
              /\ a.refusals < MaxWrites
          BY <1>1, <2>4, <3>2, EmittedFacts
        <4>3. e \notin Promotions  BY <2>4 DEF Promotions, Held
        <4> HIDE DEF a, e, c
        <4>4. \A b \in Glasses : a.breakglass[b] # None =>
                 c.breakglass[b].entered = a.breakglass[b].entered
          BY <4>2, WindowsStay DEF c
        <4>9. \A g \in Dlgs : LendsAdmin(c.delegations[g]) => LendsAdmin(a.delegations[g])
          BY <2>4, <4>2, LoansLend DEF c, e
        <4>5. /\ e \in Grants \cup Revokes =>
                    DirectAdmins(c) = DirectAdmins(a) \ {e.subject} /\ e.subject \in Persons
              /\ e \in Claims => c.claimed /\ (a.claimed => c = a)
              /\ e \notin Claims \cup Grants \cup Revokes \cup Promotions => c.grants = a.grants
          BY <4>2, AdminsMove DEF c
        <4>6. CASE e \in Claims
          <5>1. CASE a.claimed  BY <2>1, <4>1, <4>5, <4>6, <5>1 DEF a
          <5>2. CASE ~a.claimed
            <6>1. auth[d].claimed # auth'[d].claimed  BY <4>1, <4>5, <4>6, <5>2 DEF a
            <6> QED  BY <6>1
          <5> QED  BY <5>1, <5>2
        <4>7. CASE e \in Grants \cup Revokes
          <5>1. DirectAdmins(c) \subseteq DirectAdmins(a)  BY <4>5, <4>7
          <5> QED  BY <4>1, <4>4, <4>9, <5>1 DEF a
        <4>8. CASE e \notin Claims \cup Grants \cup Revokes
          <5>1. DirectAdmins(c) = DirectAdmins(a)  BY <4>3, <4>5, <4>8 DEF DirectAdmins
          <5> QED  BY <4>1, <4>4, <4>9, <5>1 DEF a
        <4> QED  BY <4>6, <4>7, <4>8
      <3> QED  BY <3>1, <3>2
    <2> HIDE DEF Widened
    <2> QED  BY <1>1, <2>2, <2>3, <2>4, WhoWrites
  <1>2. IInv /\ [Next]_vars => [\A d \in Datasets : Widened(d)]_vars
    <2> SUFFICES ASSUME IInv, [Next]_vars PROVE \A d \in Datasets : Widened(d)  OBVIOUS
    <2> HIDE DEF Widened
    <2> QED  BY <1>1
  <1> QED  BY <1>2, Inductive, PTL DEF Spec, WidenedAtTheGate

\* A dataset loses its last direct administrator only to a request that read
\* other administrators than the record now names: requests that do not overlap
\* never orphan a dataset, however long they go on.
THEOREM OrphansOverlap == Spec => OrphanedOnlyByOverlap
  <1> DEFINE Overlapped(d) ==
        DirectAdmins(auth[d]) # {} /\ DirectAdmins(auth'[d]) = {} =>
            \E w \in Workers : /\ task[w].pc = "emit" /\ task[w].dataset = d
                               /\ task[w].saw # DirectAdmins(auth[d])
  <1>1. ASSUME IInv, [Next]_vars, NEW d \in Datasets PROVE Overlapped(d)
    <2>0. auth \in [Datasets -> Authority] /\ queue \subseteq Pending /\ now \in Nat
      BY <1>1 DEF IInv, Types
    <2>1. CASE auth'[d] = auth[d]  BY <2>1 DEF DirectAdmins
    <2>2. CASE auth' = auth  BY <2>1, <2>2
    <2>3. ASSUME NEW q \in queue, Decided(q) PROVE Overlapped(d)
      <3> DEFINE a == auth[d]
                 e == q.entry
                 c == Apply(a, e)
      <3>1. CASE q.dataset # d  BY <2>0, <2>1, <2>3, <3>1 DEF Decided
      <3>2. CASE q.dataset = d
        <4>1. auth'[d] = c  BY <2>0, <2>3, <3>2 DEF Decided
        <4>2. /\ a \in Authority /\ e \in Promotions \cup Openings \cup AdminLoans
              /\ e \in Entries \cup Openings /\ e.type # "refused"
              /\ EntryStands(d, a, e, now) /\ SoundRecord(d, a, now)
          BY <1>1, <2>0, <3>2, PendingEntries DEF IInv, Waiting, Records
        <4>4. e \notin Claims \cup Grants \cup Revokes
          BY <4>2 DEF Promotions, Openings, AdminLoans, Claims, Grants, Revokes
        <4> HIDE DEF a, e, c
        <4>5. /\ e \in Promotions => e.subject \in DirectAdmins(c)
              /\ e \notin Claims \cup Grants \cup Revokes \cup Promotions => c.grants = a.grants
          BY <2>0, <4>2, AdminsMove DEF c
        <4>6. DirectAdmins(c) # {} \/ DirectAdmins(c) = DirectAdmins(a)
          BY <4>4, <4>5 DEF DirectAdmins
        <4> QED  BY <4>1, <4>6 DEF a
      <3> QED  BY <3>1, <3>2
    <2>4. ASSUME NEW w \in Workers, task[w].pc = "emit", ~Held(task[w].entry),
                 writes < MaxWrites, Written(task[w].dataset, task[w].entry)
          PROVE  Overlapped(d)
      <3> DEFINE a == auth[d]
                 e == task[w].entry
                 c == Apply(a, e)
      <3>1. CASE task[w].dataset # d
        BY <2>0, <2>1, <2>4, <3>1 DEF Written
      <3>2. CASE task[w].dataset = d
        <4>1. auth'[d] = c  BY <2>0, <2>4, <3>2 DEF Written
        <4>2. /\ a \in Authority /\ e \in Entries
              /\ EntryStands(d, a, e, now) /\ SoundRecord(d, a, now)
              /\ a.refusals < MaxWrites /\ FloorStands(task[w])
          BY <1>1, <2>4, <3>2, EmittedFacts
        <4>3. e \notin Promotions  BY <2>4 DEF Promotions, Held
        <4>4. e \in Grants \cup Revokes =>
                 task[w].saw = {} \/ task[w].saw \ {e.subject} # {}
          BY <4>2 DEF FloorStands, Grants, Revokes
        <4> HIDE DEF a, e, c
        <4>5. /\ e \in Grants \cup Revokes =>
                    DirectAdmins(c) = DirectAdmins(a) \ {e.subject} /\ e.subject \in Persons
              /\ e \in Claims => c.claimed /\ (a.claimed => c = a)
              /\ e \notin Claims \cup Grants \cup Revokes \cup Promotions => c.grants = a.grants
          BY <2>0, <4>2, AdminsMove DEF c
        <4>6. CASE e \in Claims
          <5>1. a.claimed => c = a  BY <4>5, <4>6
          <5>2. ~a.claimed => e.subject \in DirectAdmins(c)
            BY <4>2, <4>6, ClaimAppoints DEF c
          <5> QED  BY <4>1, <5>1, <5>2 DEF a
        <4>7. CASE e \in Grants \cup Revokes
          <5>1. DirectAdmins(c) = DirectAdmins(a) \ {e.subject}  BY <4>5, <4>7
          <5>2. task[w].saw = DirectAdmins(a) /\ DirectAdmins(a) # {} => DirectAdmins(c) # {}
            BY <4>4, <4>7, <5>1
          <5> QED  BY <2>4, <3>2, <4>1, <5>2 DEF a
        <4>8. CASE e \notin Claims \cup Grants \cup Revokes
          <5>1. DirectAdmins(c) = DirectAdmins(a)  BY <4>3, <4>5, <4>8 DEF DirectAdmins
          <5> QED  BY <4>1, <5>1 DEF a
        <4> QED  BY <4>6, <4>7, <4>8
      <3> QED  BY <3>1, <3>2
    <2> HIDE DEF Overlapped
    <2> QED  BY <1>1, <2>2, <2>3, <2>4, WhoWrites
  <1>2. IInv /\ [Next]_vars => [\A d \in Datasets : Overlapped(d)]_vars
    <2> SUFFICES ASSUME IInv, [Next]_vars PROVE \A d \in Datasets : Overlapped(d)  OBVIOUS
    <2> HIDE DEF Overlapped
    <2> QED  BY <1>1
  <1> QED  BY <1>2, Inductive, PTL DEF Spec, OrphanedOnlyByOverlap
=============================================================================
