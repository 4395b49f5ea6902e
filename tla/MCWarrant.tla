----------------------------- MODULE MCWarrant -----------------------------
(* Warrant for TLC.  The run starts from chains already written: each      *)
(* dataset claimed or not, and somebody waiting for a window or not.       *)
EXTENDS Warrant, TLC

CONSTANTS ann, bob, sue, d1, d2, g1, b1

Claimed(a, p) == ApplyClaim(a, [subject |-> p])
Promoted(a, p) == ApplyGrant(a, [subject |-> p, role |-> "admin"])
Lent(a, p, q) == ApplyDelegate(a, [id |-> g1, subject |-> q, role |-> "admin",
                                   by |-> p, expires |-> 1])
Asked(a, p) == ApplyRequested(a, [id |-> b1, by |-> p])
Voted(a, p) == ApplyVote(a, [id |-> b1, by |-> p, dataset |-> d2])

Mine == Claimed(Empty, ann)
InitialAuthorities ==
    {[d \in Datasets |-> Empty]} \cup
    {(d1 :> a) @@ (d2 :> Claimed(Empty, bob)) :
        a \in {Promoted(Mine, sue), Lent(Promoted(Mine, sue), sue, bob),
               Asked(Mine, ann), Voted(Asked(Empty, sue), bob),
               Voted(Asked(Mine, ann), bob)}}

MCInit ==
    /\ auth \in InitialAuthorities
    /\ queue = {} /\ now = 0 /\ writes = 0
    /\ task = [w \in Workers |-> Idle]

MCSpec == MCInit /\ [][Next]_vars

\* without a lost call, so that what goes wrong is the order of the calls
ReliableSpec == MCInit /\ [][Reliable]_vars

Symmetry == Permutations(Workers)
=============================================================================
