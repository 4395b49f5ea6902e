------------------------------- MODULE MCFeed -------------------------------
(***************************************************************************)
(* An instance of Feed for TLC: two threads, which no step tells apart,    *)
(* and two installs: a cache of before the clock correction beside the     *)
(* packaged seed, and neither of them.                                     *)
(***************************************************************************)
EXTENDS Feed, TLC

CONSTANTS h1, h2

Threads == {h1, h2}
Symmetry == Permutations(Threads)
FirstBoots == {[schema |-> 1, seed |-> TRUE], [schema |-> 0, seed |-> FALSE]}
=============================================================================
