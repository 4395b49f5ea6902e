----------------------------- MODULE MCNemoClerk -----------------------------
(***************************************************************************)
(* Two turns of one user on two pages, one request to the desk, a ladder   *)
(* of two rungs: the first chooses no tools, the second answers under      *)
(* another model's name.                                                   *)
(***************************************************************************)
EXTENDS NemoClerk

CONSTANTS t1, t2, h

\* Bound: the first turn, then either the second turn or the desk beside it.
Used == {t \in Turns : turn[t].pc # "new"}
            \cup {c \in Callers \ Turns : call[c].pc # "idle"}

\* Bound: nobody signs out before there is a turn that is over.
LateSignOut == signouts' # signouts => \E t \in Turns : turn[t].pc = "done"

MCNext ==
    /\ Next
    /\ Used' \in {{}, {h}, {t1}, {t1, t2}, {t1, h}}
    /\ LateSignOut

\* Bound: the token is good when helm is offline, which no decision depends on.
MCInit == Init /\ (offline => token = "good")

MCSpec == MCInit /\ [][MCNext]_vars

MCSubjectOf == [t \in {t1, t2} |-> "ann"]
MCAreaOf    == [t \in {t1, t2} |-> IF t = t1 THEN "grid" ELSE "helm"]

=============================================================================
