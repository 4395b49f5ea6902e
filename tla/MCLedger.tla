------------------------------ MODULE MCLedger ------------------------------
(***************************************************************************)
(* Instances of Ledger for TLC: two processes on one data directory.       *)
(***************************************************************************)
EXTENDS Ledger, TLC

Short == {"effect.proposed"}
Mixed == {"effect.proposed", "config.refused"}
Long  == {"config.refused"}
None  == {}
Swaps == Permutations(Procs)
=============================================================================
