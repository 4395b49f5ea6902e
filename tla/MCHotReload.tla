---------------------------- MODULE MCHotReload ----------------------------
(***************************************************************************)
(* An instance of HotReload for TLC: two effect types and a handful of     *)
(* documents that tighten, loosen, are refused, or reuse a version.        *)
(***************************************************************************)
EXTENDS HotReload

shed == "grid.load_shed"
note == "grid.notice"

Rule(t, c) == [type |-> t, class |-> c]
File(s, v, rs) == [source |-> s, version |-> v, rules |-> rs, allowed |-> TRUE]

Strict    == File("strict.yaml", 1, <<Rule(shed, "irreversible"), Rule(note, "irreversible")>>)
\* NoticeWas is what notice.yaml said before an edit that kept its version.
Notice    == File("notice.yaml", 1, <<Rule(shed, "irreversible"), Rule(note, "held")>>)
NoticeRun == File("notice.yaml", 2, <<Rule(note, "auto")>>)
NoticeWas == File("notice.yaml", 1, <<Rule(note, "auto")>>)
Loose     == File("loose.yaml", 1, <<Rule(shed, "auto"), Rule(note, "held")>>)
Twice     == File("twice.yaml", 1, <<Rule(shed, "auto"), Rule(shed, "irreversible")>>)
Unsafe    == File("unsafe.yaml", 1, <<Rule(note, "held"), Rule(shed, "unsafe")>>)
Outside   == [Loose EXCEPT !.source = "/tmp/loose.yaml", !.allowed = FALSE]

TheTypes == {shed, note}
TheBoots == {Strict, Unsafe}
TheFiles == {Notice, NoticeRun, NoticeWas, Loose, Twice, Unsafe, Outside}
Dropped  == {Loose, Unsafe}
=============================================================================
