---------------------------- MODULE MCGridWatch ----------------------------
(***************************************************************************)
(* Instances of GridWatch for TLC: one battery over two or three ticks.   *)
(***************************************************************************)
EXTENDS GridWatch

Battery  == {"battery_4"}
Two      == {1, 2}
Three    == {1, 2, 3}
Rule     == {"diverged", "clear"}
Model    == {"diverged", "clear", "abstained"}
Registry == {"irreversible"}
AnyClass == {"auto", "held", "irreversible"}
=============================================================================
