------------------------------ MODULE MCSignet ------------------------------
(* Signet for TLC: an admin the table knows by an e-mail, a person it does  *)
(* not know, two logins, two requests at once, two signing keys.            *)
EXTENDS Signet, TLC

CONSTANTS dana, stan, dmail, dhost, shost

MCAliases == [u \in {dana, stan} |-> IF u = dana THEN <<dhost, dmail>> ELSE <<shost>>]

MCDefaults ==
    [s \in {dmail, dhost, shost} |->
        IF s = dmail THEN [role |-> "admin", global_role |-> ""] ELSE None]

Symmetry == Permutations(Threads) \cup Permutations(Logins)
=============================================================================
