------------------------------ MODULE SirenProofs ------------------------------
(***************************************************************************)
(* For any effect types and any documents: while throughline is up, its    *)
(* registry is loosened only by a release a human gave, a document that is *)
(* applied was held under what was approved, and the chain knows the       *)
(* registry in force.  All of it stays true under siren's drops, and what siren     *)
(* registers is in force.  For any threads: an offline feed is silent, and *)
(* what it shows and caches belongs together.                              *)
(***************************************************************************)
EXTENDS HotReload, Feed, FiniteSetTheorems, SequenceTheorems, WellFoundedInduction, TLAPS

Registries == [Types -> Classes \cup {"none"}]
Loadable   == {f \in Files : Accepted(f)}
Held       == [file : Loadable, types : SUBSET Types]
Once       == {<<>>} \cup {<<f>> : f \in Files}

Shape ==
    /\ running \in Registries /\ recorded \in Registries
    /\ refusal \in BOOLEAN /\ up \in BOOLEAN
    /\ faults \in 0..MaxFaults /\ crashes \in 0..MaxCrashes
    /\ \A k \in DOMAIN staged : staged[k] \in Loadable /\ Key(staged[k]) = k

\* What the gate keeps of every hold.
Book ==
    /\ holds \in Seq(Held)
    /\ answers \in Seq({"pending", "approved", "rejected"})
    /\ outcome \in Seq({"none", "noop", "blocked", "applied"})
    /\ applied \in Seq(Once)
    /\ Len(answers) = Len(holds) /\ Len(outcome) = Len(holds) /\ Len(applied) = Len(holds)
    /\ held \subseteq Holds /\ releasing \subseteq Holds

\* A release runs once: what is being released is approved and not applied,
\* and what awaits its answer is not applied either.
ReleasedOnce ==
    /\ \A n \in releasing : answers[n] = "approved" /\ applied[n] = <<>>
    /\ \A n \in Holds : answers[n] # "approved" => applied[n] = <<>>

Invariant == Shape /\ Book /\ ReleasedOnce /\ RunningIsRecorded

-----------------------------------------------------------------------------
(* A registry read from a document                                         *)

LEMMA LastExists ==
  ASSUME NEW n \in Nat, NEW S, S \subseteq 1..n, S # {}
  PROVE  \E i \in S : \A j \in S : j <= i
<1> DEFINE T == {n - i : i \in S}
<1>1. T \subseteq Nat /\ T # {}
  <2>1. \A i \in S : n - i \in Nat
    OBVIOUS
  <2> QED
    BY <2>1
<1> HIDE DEF T
<1>2. \E x \in T : \A y \in T : ~(<<y, x>> \in OpToRel(<, Nat))
  BY <1>1, NatLessThanWellFounded, WFMin, Zenon
<1>3. ASSUME NEW y \in Nat, NEW x \in Nat, y < x
      PROVE  <<y, x>> \in OpToRel(<, Nat)
  <2>1. <<y, x>> \in {ss \in Nat \X Nat : ss[1] < ss[2]}
    BY <1>3
  <2> QED
    BY <2>1, Zenon DEF OpToRel
<1>4. PICK x \in T : \A y \in T : ~(<<y, x>> \in OpToRel(<, Nat))
  BY <1>2
<1>5. \A y \in T : ~(y < x)
  BY <1>1, <1>3, <1>4, Zenon
<1>6. PICK i \in S : x = n - i
  BY DEF T
<1>7. ASSUME NEW j \in S
      PROVE  j <= i
  <2>1. n - j \in T
    BY DEF T
  <2> QED
    BY <1>5, <1>6, <2>1
<1> QED
  BY <1>7

LEMMA RuleInForce ==
  ASSUME NEW f \in Files \cup BootFiles, NEW t \in Types
  PROVE  \/ RegistryOf(f)[t] = "none"
         \/ \E i \in DOMAIN f.rules : f.rules[i].type = t /\ RegistryOf(f)[t] = f.rules[i].class
<1> DEFINE at == {i \in DOMAIN f.rules : f.rules[i].type = t}
           final == CHOOSE i \in at : \A j \in at : j <= i
<1>1. RegistryOf(f)[t] = IF at = {} THEN "none" ELSE f.rules[final].class
  BY DEF RegistryOf
<1>2. f.rules \in Seq(Rules)
  BY ConfigAssumption
<1>3. at \subseteq 1..Len(f.rules) /\ Len(f.rules) \in Nat
  BY <1>2
<1>4. CASE at # {}
  <2>1. \E i \in at : \A j \in at : j <= i
    BY <1>3, <1>4, LastExists
  <2>2. final \in at
    BY <2>1
  <2> QED
    BY <1>1, <1>4, <2>2
<1> QED
  BY <1>1, <1>4

LEMMA RegistryIsOne ==
  ASSUME NEW f \in Files \cup BootFiles, Accepted(f)
  PROVE  RegistryOf(f) \in Registries
<1>1. \A t \in Types : RegistryOf(f)[t] \in Classes \cup {"none"}
  BY RuleInForce DEF Accepted
<1>2. RegistryOf(f) = [t \in Types |-> RegistryOf(f)[t]]
  BY DEF RegistryOf
<1> QED
  BY <1>1, <1>2 DEF Registries

\* A document that loosens nothing leaves nothing looser than it was.
LEMMA NothingLooser ==
  ASSUME NEW f \in Files, Downgrades(f) = {}, NEW t \in Types,
         running[t] \in {"none", "irreversible"}
  PROVE  RegistryOf(f)[t] \notin {"auto", "held"}
BY RuleInForce DEF Downgrades


-----------------------------------------------------------------------------
(* The invariant                                                           *)

LEMMA InitInvariant ==
  ASSUME Init
  PROVE  Invariant
<1>1. Empty \in Registries
  BY DEF Empty, Registries
<1>2. Shape
  <2>1. MaxFaults \in Nat /\ MaxCrashes \in Nat
    BY ConfigAssumption
  <2>2. staged = <<>> => DOMAIN staged = {}
    OBVIOUS
  <2>3. 0 \in 0..MaxFaults /\ 0 \in 0..MaxCrashes
    BY <2>1
  <2> QED
    BY <1>1, <2>2, <2>3, Zenon DEF Init, Shape
<1>3. Book
  BY DEF Init, Book, Holds
<1>4. ReleasedOnce /\ RunningIsRecorded
  BY DEF Init, ReleasedOnce, Holds, RunningIsRecorded
<1> QED
  BY <1>2, <1>3, <1>4 DEF Invariant

\* What putting a document in force does to the registry.
LEMMA LoadKeeps ==
  ASSUME Shape, RunningIsRecorded, NEW f \in Files, Accepted(f), Load(f, refusal' = FALSE)
  PROVE  /\ running' \in Registries /\ recorded' \in Registries
         /\ refusal' \in BOOLEAN /\ faults' \in 0..MaxFaults
         /\ up /\ up' = up => RunningIsRecorded'
<1>1. RegistryOf(f) \in Registries
  BY RegistryIsOne
<1>2. faults \in 0..MaxFaults /\ MaxFaults \in Nat
  BY ConfigAssumption DEF Shape
<1>3. CASE recorded' = RegistryOf(f) /\ refusal' = FALSE /\ UNCHANGED faults
  BY <1>1, <1>2, <1>3 DEF Load, RunningIsRecorded
<1>4. CASE /\ faults < MaxFaults /\ faults' = faults + 1 /\ UNCHANGED <<recorded, refusal>>
  BY <1>1, <1>2, <1>4 DEF Load, Shape, RunningIsRecorded
<1> QED
  BY <1>3, <1>4 DEF Load

\* A reload's own steps, and the boot's.
LEMMA RegistrySteps ==
  ASSUME Invariant,
         \/ \E f \in Files : Refuse(f) \/ Reload(f)
         \/ \E f \in BootFiles : Boot(f)
  PROVE  Invariant'
<1>1. UNCHANGED <<staged, gate, crashes>>
  BY DEF Refuse, Reload, Boot
<1>2. Book' /\ ReleasedOnce'
  BY <1>1 DEF gate, Invariant, Book, ReleasedOnce, Holds
<1>3. Shape' /\ RunningIsRecorded'
  <2>1. CASE \E f \in Files : Refuse(f)
    BY <2>1 DEF Refuse, Invariant, Shape, RunningIsRecorded
  <2>2. ASSUME NEW f \in Files, Reload(f)
        PROVE  Shape' /\ RunningIsRecorded'
    BY <1>1, <2>2, LoadKeeps DEF Reload, Invariant, Shape
  <2>3. ASSUME NEW f \in BootFiles, Boot(f)
        PROVE  Shape' /\ RunningIsRecorded'
    <3>1. Empty \in Registries
      BY DEF Empty, Registries
    <3>2. Accepted(f) => RegistryOf(f) \in Registries
      BY RegistryIsOne
    <3> QED
      BY <1>1, <2>3, <3>1, <3>2 DEF Boot, Invariant, Shape, RunningIsRecorded
  <2> QED
    BY <2>1, <2>2, <2>3
<1> QED
  BY <1>2, <1>3 DEF Invariant

LEMMA HoldKeeps ==
  ASSUME Invariant, NEW f \in Files, Hold(f)
  PROVE  Invariant'
<1> DEFINE h == [file |-> f, types |-> Downgrades(f)]
<1>1. h \in Held
  BY DEF Hold, Held, Loadable, Downgrades
<1>2. holds' = Append(holds, h)
  BY DEF Hold
<1> HIDE DEF h
<1>3. /\ holds' \in Seq(Held) /\ Len(holds') = Len(holds) + 1
      /\ Holds' = Holds \cup {Len(holds) + 1} /\ Holds = 1..Len(holds) /\ Len(holds) \in Nat
  BY <1>1, <1>2 DEF Invariant, Book, Holds
<1>4. /\ answers' = Append(answers, "pending") /\ outcome' = Append(outcome, "none")
      /\ applied' = Append(applied, <<>>) /\ held' = held \cup {Len(holds) + 1}
      /\ UNCHANGED <<running, recorded, refusal, staged, releasing, up, faults, crashes>>
  BY DEF Hold
<1>5. Book'
  <2>1. <<>> \in Once
    BY DEF Once
  <2>2. /\ answers' \in Seq({"pending", "approved", "rejected"}) /\ Len(answers') = Len(answers) + 1
    BY <1>4 DEF Invariant, Book
  <2>3. /\ outcome' \in Seq({"none", "noop", "blocked", "applied"}) /\ Len(outcome') = Len(outcome) + 1
    BY <1>4 DEF Invariant, Book
  <2>4. applied' \in Seq(Once) /\ Len(applied') = Len(applied) + 1
    BY <1>4, <2>1 DEF Invariant, Book
  <2>5. held' \subseteq Holds' /\ releasing' \subseteq Holds'
    BY <1>3, <1>4 DEF Invariant, Book
  <2> QED
    BY <1>3, <2>2, <2>3, <2>4, <2>5 DEF Invariant, Book
<1>6. ReleasedOnce'
  <2>1. \A n \in Holds : answers'[n] = answers[n] /\ applied'[n] = applied[n]
    BY <1>3, <1>4 DEF Invariant, Book
  <2>2. applied'[Len(holds) + 1] = <<>>
    BY <1>3, <1>4 DEF Invariant, Book
  <2>3. releasing \subseteq Holds
    BY DEF Invariant, Book
  <2> QED
    BY <1>3, <1>4, <2>1, <2>2, <2>3 DEF Invariant, ReleasedOnce
<1>7. Shape' /\ RunningIsRecorded'
  BY <1>4 DEF Invariant, Shape, RunningIsRecorded
<1> QED
  BY <1>5, <1>6, <1>7 DEF Invariant

LEMMA StageKeeps ==
  ASSUME Invariant, NEW n \in Holds, Stage(n)
  PROVE  Invariant'
<1>1. UNCHANGED <<running, recorded, refusal, holds, answers, releasing,
                  outcome, applied, up, faults, crashes>> /\ held' \subseteq held
  BY DEF Stage
<1>2. holds[n].file \in Loadable
  <2>1. holds[n] \in Held
    BY DEF Invariant, Book, Holds
  <2> QED
    BY <2>1 DEF Held
<1>3. \A k \in DOMAIN staged' : staged'[k] \in Loadable /\ Key(staged'[k]) = k
  BY <1>2 DEF Stage, Invariant, Shape
<1>4. Shape' /\ RunningIsRecorded'
  BY <1>1, <1>3 DEF Invariant, Shape, RunningIsRecorded
<1>5. Book' /\ ReleasedOnce'
  BY <1>1 DEF Invariant, Book, ReleasedOnce, Holds
<1> QED
  BY <1>4, <1>5 DEF Invariant

LEMMA DecisionKeeps ==
  ASSUME Invariant, NEW n \in Holds, Approve(n) \/ Reject(n)
  PROVE  Invariant'
<1>1. UNCHANGED <<running, recorded, refusal, staged, holds, held, outcome,
                  applied, up, faults, crashes>>
  BY DEF Approve, Reject
<1>2. PICK d \in {"approved", "rejected"} :
            /\ answers[n] = "pending" /\ answers' = [answers EXCEPT ![n] = d]
            /\ releasing' = IF d = "approved" THEN releasing \cup {n} ELSE releasing
  BY DEF Approve, Reject
<1>3. Shape' /\ RunningIsRecorded'
  BY <1>1 DEF Invariant, Shape, RunningIsRecorded
<1>4. n \in DOMAIN answers
  BY DEF Invariant, Book, Holds
<1>5. Book'
  <2>1. answers' \in Seq({"pending", "approved", "rejected"}) /\ Len(answers') = Len(answers)
    BY <1>2, <1>4 DEF Invariant, Book
  <2> QED
    BY <1>1, <1>2, <2>1 DEF Invariant, Book, Holds
<1>6. ReleasedOnce'
  <2>1. Holds' = Holds /\ releasing \subseteq Holds
    BY <1>1 DEF Holds, Invariant, Book
  <2>2. \A m \in Holds : answers'[m] = IF m = n THEN d ELSE answers[m]
    BY <1>2, <1>4 DEF Invariant, Book, Holds
  <2> QED
    BY <1>1, <1>2, <2>1, <2>2 DEF Invariant, ReleasedOnce
<1> QED
  BY <1>3, <1>5, <1>6 DEF Invariant


LEMMA ExecuteKeeps ==
  ASSUME Invariant, NEW n \in Holds, Execute(n) \/ ExecuteNothing(n)
  PROVE  Invariant'
<1>1. /\ n \in releasing /\ releasing' = releasing \ {n} /\ up /\ up' = up
      /\ UNCHANGED <<holds, answers, held, crashes>>
  BY DEF Execute, ExecuteNothing
<1>2. answers[n] = "approved"
  BY <1>1 DEF Invariant, ReleasedOnce
<1>3. Holds' = Holds /\ Holds = 1..Len(holds) /\ Len(holds) \in Nat
  BY <1>1 DEF Holds, Invariant, Book
<1>4. CASE ExecuteNothing(n)
  <2>1. /\ UNCHANGED <<running, recorded, refusal, staged, applied, faults>>
        /\ outcome' = [outcome EXCEPT ![n] = "noop"]
    BY <1>4 DEF ExecuteNothing
  <2>2. outcome' \in Seq({"none", "noop", "blocked", "applied"}) /\ Len(outcome') = Len(outcome)
    BY <1>3, <2>1 DEF Invariant, Book
  <2>3. Book'
    BY <1>1, <1>3, <2>1, <2>2 DEF Invariant, Book
  <2> QED
    BY <1>1, <1>3, <2>1, <2>3 DEF Invariant, Shape, ReleasedOnce, RunningIsRecorded
<1>5. CASE Execute(n)
  <2> DEFINE k == Key(holds[n].file)
             f == staged[k]
  <2>1. /\ k \in DOMAIN staged /\ staged' = [j \in DOMAIN staged \ {k} |-> staged[j]]
        /\ applied' = [applied EXCEPT ![n] = <<f>>]
        /\ Load(f, refusal' = FALSE)
        /\ \E o \in {"applied", "blocked"} : outcome' = [outcome EXCEPT ![n] = o]
    BY <1>5 DEF Execute
  <2>2. f \in Files /\ Accepted(f)
    BY <2>1 DEF Invariant, Shape, Loadable
  <2> HIDE DEF f
  <2>3. /\ running' \in Registries /\ recorded' \in Registries
        /\ refusal' \in BOOLEAN /\ faults' \in 0..MaxFaults
        /\ RunningIsRecorded'
    BY <1>1, <2>1, <2>2, LoadKeeps DEF Invariant
  <2>4. Shape' /\ RunningIsRecorded'
    BY <1>1, <2>1, <2>3 DEF Invariant, Shape, Loadable, Accepted
  <2>5. applied' \in Seq(Once) /\ Len(applied') = Len(applied)
    <3>1. <<f>> \in Once
      BY <2>2 DEF Once
    <3> QED
      BY <1>3, <2>1, <3>1 DEF Invariant, Book
  <2>6. outcome' \in Seq({"none", "noop", "blocked", "applied"}) /\ Len(outcome') = Len(outcome)
    BY <1>3, <2>1 DEF Invariant, Book
  <2>7. Book'
    BY <1>1, <1>3, <2>5, <2>6 DEF Invariant, Book
  <2>8. ReleasedOnce'
    <3>1. \A m \in Holds : m # n => applied'[m] = applied[m]
      BY <1>3, <2>1 DEF Invariant, Book
    <3>2. releasing \subseteq Holds
      BY DEF Invariant, Book
    <3> QED
      BY <1>1, <1>2, <1>3, <3>1, <3>2 DEF Invariant, ReleasedOnce
  <2> QED
    BY <2>4, <2>7, <2>8 DEF Invariant
<1> QED
  BY <1>4, <1>5


LEMMA CrashKeeps ==
  ASSUME Invariant, Crash \/ UNCHANGED vars
  PROVE  Invariant'
<1>1. CASE Crash
  <2>1. staged' = <<>> => DOMAIN staged' = {}
    OBVIOUS
  <2>2. crashes' \in 0..MaxCrashes
    BY <1>1, ConfigAssumption DEF Crash, Invariant, Shape
  <2>3. Shape' /\ RunningIsRecorded'
    BY <1>1, <2>1, <2>2, Zenon DEF Crash, Invariant, Shape, RunningIsRecorded
  <2>4. Book' /\ ReleasedOnce'
    BY <1>1 DEF Crash, Invariant, Book, ReleasedOnce, Holds
  <2> QED
    BY <2>3, <2>4 DEF Invariant
<1>2. CASE UNCHANGED vars
  BY <1>2 DEF vars, gate, Invariant, Shape, Book, ReleasedOnce, Holds, RunningIsRecorded,
              Loadable, Accepted
<1> QED
  BY <1>1, <1>2

LEMMA NextInvariant ==
  ASSUME Invariant, [Next]_vars
  PROVE  Invariant'
BY RegistrySteps, HoldKeeps, StageKeeps, DecisionKeeps, ExecuteKeeps, CrashKeeps DEF Next

LEMMA InvariantImplies ==
  ASSUME Invariant
  PROVE  RegistryIsRecorded
<1>1. \A n \in Holds : applied[n] \in {<<>>} \cup {<<f>> : f \in Files}
  BY DEF Invariant, Book, Holds, Once
<1>2. holds \in Seq([file : Files, types : SUBSET Types])
  <2>1. Held \subseteq [file : Files, types : SUBSET Types]
    BY DEF Held, Loadable
  <2>2. holds \in Seq(Held)
    BY DEF Invariant, Book
  <2> DEFINE any == [file : Files, types : SUBSET Types]
  <2> HIDE DEF any
  <2>3. Held \subseteq any
    BY <2>1 DEF any
  <2>4. holds \in Seq(any)
    BY <2>2, <2>3
  <2> QED
    BY <2>4 DEF any
<1>3. /\ answers \in [Holds -> {"pending", "approved", "rejected"}]
      /\ outcome \in [Holds -> {"none", "noop", "blocked", "applied"}]
  BY DEF Invariant, Book, Holds
<1>4. TypeOK
  BY <1>1, <1>2, <1>3 DEF Invariant, Shape, Book, Registries, Loadable, TypeOK
<1> QED
  BY <1>4 DEF Invariant, RegistryIsRecorded

\* The registry in force is the one the chain says was loaded last, or the
\* empty one of a refused boot, as long as every line could be written
\* (ConfigStore.apply).
THEOREM TheRunningIsRecorded == Spec => []RegistryIsRecorded
<1> QED
  BY InitInvariant, NextInvariant, InvariantImplies, PTL DEF Spec

\* No type becomes reversible while throughline runs but by a release that a
\* human approved and that had not been applied before (reload_config,
\* _execute_effect).
THEOREM LooseningNeedsRelease == Spec => LooseningIsReleased
<1>1. ASSUME Invariant, [Next]_vars, up, NEW t \in Types, Loosened(t)
      PROVE  \E n \in Holds : /\ Releases(n)
                             /\ RegistryOf(applied'[n][1])[t] \in {"auto", "held"}
  <2>1. running[t] \in {"none", "irreversible"} /\ running'[t] \in {"auto", "held"}
    BY <1>1 DEF Loosened
  <2>2. running' # running
    BY <2>1
  <2>3. ASSUME NEW f \in Files, Reload(f)
        PROVE  FALSE
    BY <2>1, <2>3, NothingLooser DEF Reload, Load
  <2>4. ASSUME NEW n \in Holds, Execute(n)
        PROVE  Releases(n) /\ RegistryOf(applied'[n][1]) = running'
    <3>1. answers[n] = "approved" /\ applied[n] = <<>>
      BY <1>1, <2>4 DEF Execute, Invariant, ReleasedOnce
    <3>2. n \in DOMAIN applied
      BY <1>1 DEF Invariant, Book, Holds
    <3> DEFINE f == staged[Key(holds[n].file)]
    <3>3. applied'[n] = <<f>> /\ running' = RegistryOf(f)
      BY <2>4, <3>2 DEF Execute, Load
    <3> HIDE DEF f
    <3>4. applied'[n] # <<>> /\ applied'[n][1] = f
      BY <3>3
    <3> QED
      BY <3>1, <3>3, <3>4 DEF Releases
  <2>5. PICK n \in Holds : Execute(n)
    BY <1>1, <2>2, <2>3
       DEF Next, vars, gate, Refuse, Hold, Stage, Approve, Reject, ExecuteNothing, Crash, Boot
  <2>6. Releases(n) /\ RegistryOf(applied'[n][1]) = running'
    BY <2>4, <2>5
  <2> QED
    BY <2>1, <2>6
<1>2. Invariant /\ [Next]_vars =>
          [up => \A t \in Types : Loosened(t) =>
                  \E n \in Holds : /\ Releases(n)
                                   /\ RegistryOf(applied'[n][1])[t] \in {"auto", "held"}]_vars
  BY <1>1
<1> QED
  BY <1>2, InitInvariant, NextInvariant, PTL DEF Spec, LooseningIsReleased

\* What is staged was held.
StagedWasHeld ==
    \A k \in DOMAIN staged : \E m \in Holds \ held : holds[m].file = staged[k]

LEMMA StagedWasHeldStep ==
  ASSUME Invariant, StagedWasHeld, [Next]_vars
  PROVE  StagedWasHeld'
<1>1. Holds = 1..Len(holds) /\ Len(holds) \in Nat
  BY DEF Invariant, Book, Holds
<1>2. CASE UNCHANGED <<holds, held, staged>>
  BY <1>2 DEF StagedWasHeld, Holds
<1>3. ASSUME NEW f \in Files, Hold(f)
      PROVE  StagedWasHeld'
  <2> DEFINE h == [file |-> f, types |-> Downgrades(f)]
  <2>1. holds' = Append(holds, h) /\ held' = held \cup {Len(holds) + 1} /\ staged' = staged
    BY <1>3 DEF Hold
  <2> HIDE DEF h
  <2>2. \A n \in Holds : n \in Holds' /\ holds'[n] = holds[n] /\ (n \notin held => n \notin held')
    BY <1>1, <2>1 DEF Invariant, Book, Holds
  <2> QED
    BY <2>1, <2>2 DEF StagedWasHeld
<1>4. ASSUME NEW n \in Holds, Stage(n)
      PROVE  StagedWasHeld'
  <2>1. /\ holds' = holds /\ Holds' = Holds /\ held' = held \ {n}
        /\ \A k \in DOMAIN staged' : \/ staged'[k] = holds[n].file
                                     \/ k \in DOMAIN staged /\ staged'[k] = staged[k]
    BY <1>4 DEF Stage, Holds
  <2> QED
    BY <2>1 DEF StagedWasHeld
<1>5. ASSUME NEW n \in Holds, Execute(n)
      PROVE  StagedWasHeld'
  <2>1. /\ UNCHANGED <<holds, held>> /\ Holds' = Holds
        /\ \A k \in DOMAIN staged' : k \in DOMAIN staged /\ staged'[k] = staged[k]
    BY <1>5 DEF Execute, Holds
  <2> QED
    BY <2>1 DEF StagedWasHeld
<1>6. CASE Crash
  BY <1>6 DEF Crash, StagedWasHeld
<1> QED
  BY <1>2, <1>3, <1>4, <1>5, <1>6
     DEF Next, vars, gate, Refuse, Reload, Approve, Reject, ExecuteNothing, Boot

\* Whatever versions the documents carry, what a release applies was held and
\* staged under the source and version that were approved, and nothing is applied
\* on anything but an approval (_staged_configs, _execute_effect).
THEOREM ApprovedIsApplied == Spec => []AppliedAsApproved
<1>1. Init => StagedWasHeld /\ AppliedAsApproved
  BY DEF Init, StagedWasHeld, AppliedAsApproved, Holds
<1>2. ASSUME Invariant, StagedWasHeld, AppliedAsApproved, [Next]_vars
      PROVE  AppliedAsApproved'
  <2>1. Holds = 1..Len(holds) /\ Len(holds) \in Nat
    BY <1>2 DEF Invariant, Book, Holds
  <2>2. CASE UNCHANGED <<holds, answers, applied>> /\ held' \subseteq held
    BY <1>2, <2>2 DEF AppliedAsApproved, Holds
  <2>3. ASSUME NEW f \in Files, Hold(f)
        PROVE  AppliedAsApproved'
    <3> DEFINE h == [file |-> f, types |-> Downgrades(f)]
    <3>1. /\ holds' = Append(holds, h) /\ answers' = Append(answers, "pending")
          /\ applied' = Append(applied, <<>>) /\ held' = held \cup {Len(holds) + 1}
      BY <2>3 DEF Hold
    <3> HIDE DEF h
    <3>2. Holds' = Holds \cup {Len(holds) + 1} /\ applied'[Len(holds) + 1] = <<>>
      BY <1>2, <3>1 DEF Invariant, Book, Holds
    <3>3. \A n \in Holds : /\ holds'[n] = holds[n] /\ answers'[n] = answers[n]
                           /\ applied'[n] = applied[n] /\ (n \notin held => n \notin held')
      BY <1>2, <2>1, <3>1 DEF Invariant, Book
    <3> QED
      BY <1>2, <3>2, <3>3 DEF AppliedAsApproved
  <2>4. ASSUME NEW n \in Holds, Approve(n) \/ Reject(n)
        PROVE  AppliedAsApproved'
    <3>1. UNCHANGED <<holds, applied, held>> /\ Holds' = Holds /\ answers[n] = "pending"
      BY <2>4 DEF Approve, Reject, Holds
    <3>2. \A m \in Holds : m # n => answers'[m] = answers[m]
      BY <1>2, <2>1, <2>4 DEF Approve, Reject, Invariant, Book
    <3> QED
      BY <1>2, <3>1, <3>2 DEF AppliedAsApproved
  <2>5. ASSUME NEW n \in Holds, Execute(n)
        PROVE  AppliedAsApproved'
    <3> DEFINE k == Key(holds[n].file)
               f == staged[k]
    <3>1. UNCHANGED <<holds, answers, held>> /\ Holds' = Holds /\ answers[n] = "approved"
      BY <1>2, <2>5 DEF Execute, Holds, Invariant, ReleasedOnce
    <3>2. applied' = [applied EXCEPT ![n] = <<f>>] /\ k \in DOMAIN staged
      BY <2>5 DEF Execute
    <3>3. PICK m \in Holds \ held : holds[m].file = f
      BY <1>2, <3>2 DEF StagedWasHeld
    <3>4. SameVersion(f, holds[n].file)
      <4>1. Key(f) = Key(holds[n].file)
        BY <1>2, <3>2 DEF Invariant, Shape
      <4> QED
        BY <4>1 DEF Key, SameVersion
    <3> HIDE DEF f
    <3>5. \A j \in Holds : applied'[j] = IF j = n THEN <<f>> ELSE applied[j]
      BY <1>2, <2>1, <3>2 DEF Invariant, Book
    <3> QED
      BY <1>2, <3>1, <3>3, <3>4, <3>5 DEF AppliedAsApproved
  <2>6. CASE Crash
    BY <2>2, <2>6 DEF Crash
  <2> QED
    BY <1>2, <2>2, <2>3, <2>4, <2>5, <2>6
       DEF Next, vars, gate, Refuse, Reload, Stage, ExecuteNothing, Boot
<1>3. Invariant /\ StagedWasHeld /\ [Next]_vars => StagedWasHeld'
  BY StagedWasHeldStep
<1> QED
  BY <1>1, <1>2, <1>3, InitInvariant, NextInvariant, PTL DEF Spec

-----------------------------------------------------------------------------
(* siren's drop                                                            *)

DropRecord == [at : {"idle", "drop", "answered", "emit", "waiting"},
               file : {<<>>} \cup {<<f>> : f \in DropFiles},
               by : {"mock", "real"}, pass : {1, 2}, hold : Nat,
               answer : {"none", "accepted", "refused", "held", "error"}]

\* What is under way is a document siren was asked to drop, and an acceptance
\* that throughline gave is of a document it has in force.
Dropping ==
    /\ drop \in [Drops -> DropRecord]
    /\ \A h \in Drops :
          /\ drop[h].at # "idle" => drop[h].file[1] \in DropFiles
          /\ drop[h].at = "answered" /\ drop[h].by = "real" /\ drop[h].answer = "accepted"
                => drop[h].file[1] \in loaded

LEMMA NothingDropped == NoDrop \in DropRecord /\ NoDrop.at = "idle"
<1>1. <<>> \in {<<>>} \cup {<<f>> : f \in DropFiles}
  OBVIOUS
<1> QED
  BY <1>1 DEF NoDrop, DropRecord

\* A step of one drop, of what it leaves behind and of the others.
LEMMA OneDrop ==
  ASSUME Dropping, NEW h \in Drops, NEW d \in DropRecord,
         drop' = [drop EXCEPT ![h] = d], loaded \subseteq loaded',
         d.at # "idle" => d.file[1] \in DropFiles,
         d.at = "answered" /\ d.by = "real" /\ d.answer = "accepted" => d.file[1] \in loaded'
  PROVE  Dropping'
<1>1. drop' \in [Drops -> DropRecord]
  BY DEF Dropping
<1>2. ASSUME NEW k \in Drops, k # h
      PROVE  drop'[k] = drop[k]
  BY <1>2 DEF Dropping
<1>3. drop'[h] = d
  BY DEF Dropping
<1> QED
  BY <1>1, <1>2, <1>3 DEF Dropping

\* An answer, of which only an acceptance of throughline's says something.
LEMMA AnswerGiven ==
  ASSUME Dropping, NEW h \in Drops, drop[h].at # "idle",
         NEW a \in {"accepted", "refused", "held", "error"}, Answer(h, a),
         loaded \subseteq loaded',
         drop[h].by = "real" /\ a = "accepted" => drop[h].file[1] \in loaded'
  PROVE  Dropping'
<1> DEFINE d == [drop[h] EXCEPT !.at = "answered", !.answer = a]
<1>1. drop[h] \in DropRecord
  BY DEF Dropping
<1>2. d \in DropRecord /\ d.file = drop[h].file /\ d.by = drop[h].by /\ d.answer = a
  BY <1>1 DEF DropRecord
<1>3. drop' = [drop EXCEPT ![h] = d]
  BY DEF Answer
<1>4. drop[h].file[1] \in DropFiles
  BY DEF Dropping
<1> HIDE DEF d
<1> QED
  BY <1>2, <1>3, <1>4, OneDrop

LEMMA BeginKeeps ==
  ASSUME Dropping, NEW h \in Drops, NEW f \in DropFiles, NEW by \in Substrates, Begin(h, f, by)
  PROVE  Dropping'
<1> DEFINE d == [NoDrop EXCEPT !.at = "drop", !.file = <<f>>, !.by = by]
<1>1. d \in DropRecord /\ d.file[1] = f /\ d.at = "drop"
  BY NothingDropped, HotReloadAssumption DEF DropRecord
<1>2. drop' = [drop EXCEPT ![h] = d] /\ UNCHANGED loaded
  BY DEF Begin
<1> HIDE DEF d
<1> QED
  BY <1>1, <1>2, OneDrop

LEMMA RecordKeeps ==
  ASSUME Dropping, NEW h \in Drops, Record(h)
  PROVE  Dropping'
<1>1. UNCHANGED loaded /\ drop[h].at = "answered" /\ drop[h].file[1] \in DropFiles
  BY DEF Record, Dropping
<1>2. CASE To(h, "emit")
  <2> DEFINE d == [drop[h] EXCEPT !.at = "emit"]
  <2>1. drop[h] \in DropRecord
    BY DEF Dropping
  <2>2. d \in DropRecord /\ d.file = drop[h].file /\ d.at = "emit"
    BY <2>1 DEF DropRecord
  <2>3. drop' = [drop EXCEPT ![h] = d]
    BY <1>2 DEF To
  <2> HIDE DEF d
  <2> QED
    BY <1>1, <2>2, <2>3, OneDrop
<1>3. CASE drop' = [drop EXCEPT ![h] = NoDrop]
  BY <1>1, <1>3, NothingDropped, OneDrop
<1> QED
  BY <1>2, <1>3 DEF Record

LEMMA EmitKeeps ==
  ASSUME Dropping, NEW h \in Drops, Emit(h)
  PROVE  Dropping'
<1> DEFINE d == [drop[h] EXCEPT !.at = "drop", !.pass = 2]
<1>1. drop[h] \in DropRecord /\ drop[h].file[1] \in DropFiles
  BY DEF Dropping, Emit
<1>2. d \in DropRecord /\ d.file = drop[h].file /\ d.at = "drop"
  BY <1>1 DEF DropRecord
<1>3. drop' = [drop EXCEPT ![h] = d] /\ UNCHANGED loaded
  BY DEF Emit
<1> HIDE DEF d
<1> QED
  BY <1>1, <1>2, <1>3, OneDrop

LEMMA WaitKeeps ==
  ASSUME Dropping, NEW h \in Drops, drop[h].at = "drop", UNCHANGED loaded, NEW n \in Nat,
         drop' = [drop EXCEPT ![h].at = "waiting", ![h].hold = n]
  PROVE  Dropping'
<1> DEFINE d == [drop[h] EXCEPT !.at = "waiting", !.hold = n]
<1>1. drop[h] \in DropRecord /\ drop[h].file[1] \in DropFiles
  BY DEF Dropping
<1>2. d \in DropRecord /\ d.file = drop[h].file /\ d.at = "waiting"
  BY <1>1 DEF DropRecord
<1>3. drop' = [drop EXCEPT ![h] = d]
  OBVIOUS
<1> HIDE DEF d
<1> QED
  BY <1>1, <1>2, <1>3, OneDrop

\* What siren asks of throughline is one of throughline's own steps.
LEMMA CallKeeps ==
  ASSUME Invariant, Dropping, NEW h \in Drops,
         \/ Called(h) \/ CalledAtCap(h) \/ HeldAnswer(h)
         \/ NoAnswer(h) \/ Unreachable(h) \/ Unheard(h)
  PROVE  Dropping' /\ [Next]_vars
<1>1. drop[h].at # "idle" => drop[h].file[1] \in Files
  BY HotReloadAssumption DEF Dropping
<1> DEFINE f == drop[h].file[1]
<1>2. CASE Called(h)
  <2>1. Asking(h) /\ f \in Files /\ drop[h].at = "drop"
    BY <1>1, <1>2 DEF Called, Asking
  <2>2. CASE Refuse(f) /\ Answer(h, "refused") /\ UNCHANGED loaded
    <3>1. Dropping'
      BY <2>1, <2>2, AnswerGiven
    <3> QED
      BY <2>1, <2>2, <3>1 DEF Next
  <2>3. CASE /\ Reload(f)
             /\ Answer(h, IF faults' = faults THEN "accepted" ELSE "error")
             /\ loaded' = loaded \cup {f}
    <3> DEFINE a == IF faults' = faults THEN "accepted" ELSE "error"
    <3>1. a \in {"accepted", "error"}
      OBVIOUS
    <3> HIDE DEF a
    <3>2. Answer(h, a)
      BY <2>3 DEF a
    <3>3. Dropping'
      BY <2>1, <2>3, <3>1, <3>2, AnswerGiven
    <3> QED
      BY <2>1, <2>3, <3>3 DEF Next
  <2>4. CASE /\ Hold(f)
             /\ drop' = [drop EXCEPT ![h].at = "waiting", ![h].hold = Len(holds')]
             /\ UNCHANGED loaded
    <3>1. Len(holds') \in Nat
      BY <2>1, <2>4, HoldKeeps DEF Invariant, Book
    <3> DEFINE n == Len(holds')
    <3>2. drop' = [drop EXCEPT ![h].at = "waiting", ![h].hold = n]
      BY <2>4
    <3> HIDE DEF n
    <3>3. Dropping'
      BY <2>1, <2>4, <3>1, <3>2, WaitKeeps DEF n
    <3> QED
      BY <2>1, <2>4, <3>3 DEF Next
  <2> QED
    BY <1>2, <2>2, <2>3, <2>4 DEF Called
<1>3. CASE CalledAtCap(h) \/ NoAnswer(h) \/ Unreachable(h)
  <2>1. Answer(h, "error") /\ UNCHANGED <<vars, loaded>> /\ drop[h].at # "idle"
    BY <1>3 DEF CalledAtCap, NoAnswer, Unreachable, Asking
  <2>2. Dropping'
    BY <2>1, AnswerGiven
  <2> QED
    BY <2>1, <2>2
<1>4. CASE HeldAnswer(h)
  <2>1. Answer(h, "held") /\ UNCHANGED loaded /\ drop[h].at # "idle" /\ Stage(drop[h].hold)
    BY <1>4 DEF HeldAnswer
  <2>2. drop[h].hold \in Holds
    BY <2>1 DEF Stage, Invariant, Book
  <2>3. Dropping'
    BY <2>1, AnswerGiven
  <2> QED
    BY <2>1, <2>2, <2>3 DEF Next
<1>5. CASE Unheard(h)
  <2>1. /\ Answer(h, "error") /\ drop[h].at # "idle" /\ f \in Files
        /\ loaded \subseteq loaded'
        /\ Refuse(f) \/ Hold(f) \/ Reload(f)
    BY <1>1, <1>5 DEF Unheard, Asking
  <2>2. Dropping'
    BY <2>1, AnswerGiven
  <2> QED
    BY <2>1, <2>2 DEF Next
<1> QED
  BY <1>2, <1>3, <1>4, <1>5

LEMMA HotNextKeeps ==
  ASSUME Invariant, Dropping, [HotNext]_all
  PROVE  Invariant' /\ Dropping' /\ [Next]_vars
<1>1. ASSUME NEW h \in Drops, NEW f \in DropFiles, NEW by \in Substrates, Begin(h, f, by)
      PROVE  Dropping' /\ [Next]_vars
  BY <1>1, BeginKeeps DEF Begin
<1>2. ASSUME NEW h \in Drops, DropMocked(h)
      PROVE  Dropping' /\ [Next]_vars
  <2> DEFINE a == IF Preflight(drop[h].file[1]) THEN "accepted" ELSE "refused"
  <2>1. a \in {"accepted", "refused"}
    OBVIOUS
  <2>2. Answer(h, a) /\ UNCHANGED <<vars, loaded>> /\ drop[h].at = "drop" /\ drop[h].by = "mock"
    BY <1>2 DEF DropMocked
  <2> HIDE DEF a
  <2>3. Dropping'
    BY <2>1, <2>2, AnswerGiven
  <2> QED
    BY <2>2, <2>3
<1>3. ASSUME NEW h \in Drops, Record(h) \/ Emit(h)
      PROVE  Dropping' /\ [Next]_vars
  BY <1>3, RecordKeeps, EmitKeeps DEF Record, Emit
<1>4. ASSUME Elsewhere
      PROVE  Dropping' /\ [Next]_vars
  <2>1. UNCHANGED <<drop, loaded>> /\ Next
    BY <1>4 DEF Elsewhere, siren
  <2>2. Dropping'
    BY <2>1 DEF Dropping
  <2> QED
    BY <2>1, <2>2
<1>5. ASSUME UNCHANGED all
      PROVE  Dropping' /\ [Next]_vars
  <2>1. UNCHANGED <<drop, loaded>> /\ UNCHANGED vars
    BY <1>5 DEF all, siren
  <2>2. Dropping'
    BY <2>1 DEF Dropping
  <2> QED
    BY <2>1, <2>2
<1>6. Dropping' /\ [Next]_vars
  BY <1>1, <1>2, <1>3, <1>4, <1>5, CallKeeps DEF HotNext
<1>7. Invariant'
  BY <1>6, NextInvariant
<1> QED
  BY <1>6, <1>7

LEMMA HotInitHolds ==
  ASSUME HotInit
  PROVE  Invariant /\ Dropping
<1>1. Invariant
  BY InitInvariant DEF HotInit
<1>2. Dropping
  <2>1. drop = [h \in Drops |-> NoDrop]
    BY DEF HotInit
  <2>2. drop \in [Drops -> DropRecord] /\ \A h \in Drops : drop[h].at = "idle"
    BY <2>1, NothingDropped
  <2> QED
    BY <2>2 DEF Dropping
<1> QED
  BY <1>1, <1>2

\* Whatever siren drops, loses and drops again, throughline behaves as Config
\* says it does: what is proved of it above holds under siren's drops
\* (HotReload.drop, POST /config/reload).
THEOREM DropsAreReloads == HotSpec => Spec
<1>1. HotInit => Init
  BY DEF HotInit
<1> QED
  BY <1>1, HotInitHolds, HotNextKeeps, PTL DEF HotSpec, Spec

\* siren registers a document only on the mock's word or once throughline has
\* put it in force: not while it is held, and not after an answer that never
\* came (reload.py, "No step is reported green on intent").
THEOREM GreenNeedsForce == HotSpec => GreenIsInForce
<1> DEFINE Green(h) == registered' # registered /\ drop[h].at = "answered" /\ drop'[h] # drop[h]
                           => drop[h].by = "mock" \/ drop[h].file[1] \in loaded
<1>1. ASSUME Dropping, HotNext, NEW h \in Drops
      PROVE  Green(h)
  <2>1. ASSUME registered' # registered, drop'[h] # drop[h]
        PROVE  drop[h].by = "mock" \/ drop[h].file[1] \in loaded
    <3>1. PICK k \in Drops : Record(k)
      <4>1. \A k \in Drops, f \in DropFiles, by \in Substrates : ~Begin(k, f, by)
        BY <2>1 DEF Begin
      <4>2. \A k \in Drops : ~DropMocked(k) /\ ~Emit(k)
        BY <2>1 DEF DropMocked, Emit
      <4>3. \A k \in Drops : /\ ~Called(k) /\ ~CalledAtCap(k) /\ ~HeldAnswer(k)
                             /\ ~NoAnswer(k) /\ ~Unreachable(k) /\ ~Unheard(k)
        BY <2>1 DEF Called, CalledAtCap, HeldAnswer, NoAnswer, Unreachable, Unheard
      <4>4. ~Elsewhere
        BY <2>1 DEF Elsewhere, siren
      <4> QED
        BY <1>1, <4>1, <4>2, <4>3, <4>4 DEF HotNext
    <3>2. drop'[h] # drop[h] => k = h
      BY <1>1, <3>1 DEF Record, To, Dropping
    <3>3. drop[k].at = "answered" /\ drop[k].answer = "accepted"
      BY <2>1, <3>1 DEF Record, Registers
    <3>4. drop[h].by \in {"mock", "real"}
      BY <1>1 DEF Dropping, DropRecord
    <3> QED
      BY <1>1, <2>1, <3>2, <3>3, <3>4 DEF Dropping
  <2> QED
    BY <2>1
<1>2. Dropping /\ [HotNext]_all => [\A h \in Drops : Green(h)]_all
  BY <1>1
<1> QED
  BY <1>2, HotInitHolds, HotNextKeeps, PTL DEF HotSpec, GreenIsInForce

-----------------------------------------------------------------------------
(* siren's feed                                                            *)

Places == {"idle", "choose", "bind", "guard", "refresh", "fetch", "send", "read", "rows",
           "asOf", "serving", "label", "open", "write", "rename"}
Words  == {"none", "mock", "real", "offline", "not reached", "live"}
Polls  == [fetch : -1..MaxFetches, off : Int]
Texts  == [rows : Polls, asOf : -1..MaxFetches, schema : 0..2]
Locals == [got : Polls, from : -1..MaxFetches, label : Words, file : Inodes \cup {0},
           op : {"none", "boot", "refresh", "follow", "keep"}]

FeedTyped ==
    /\ override \in {"none", "offline", "live"} /\ substrate \in {"mock", "real"}
    /\ rows \in Polls /\ asOf \in -1..MaxFetches
    /\ serving \in {"live", "snapshot"} /\ label \in {"live", "not reached", "offline", "none"}
    /\ files \in [Inodes -> Texts] /\ cache \in Inodes \cup {0} /\ tmp \in Inodes \cup {0}
    /\ pc \in [Handlers -> Places] /\ my \in [Handlers -> Locals]
    /\ fetches \in 0..MaxFetches
    /\ saw \in [Handlers -> BOOLEAN] /\ alone \in [Handlers -> BOOLEAN]
    /\ last \in [op : {"none", "boot", "refresh", "follow", "keep", "crash"},
                 alone : BOOLEAN, saw : BOOLEAN]

\* A text that parses is one poll's: its rows under its as-of, with the clocks
\* its schema says.
OnePoll(s) ==
    \/ s = Torn
    \/ /\ s.rows.fetch = s.asOf /\ s.asOf >= 0
       /\ \/ s.schema = 1 /\ s.rows.off = -7
          \/ s.schema = 2 /\ s.rows.off = 0

Disk ==
    /\ \A i \in Inodes : OnePoll(files[i])
    /\ cache = 0 \/ cache # tmp
    /\ rows.off = 0

\* What a handler at p holds, and saw of the switch.
Holding == {"rows", "asOf", "serving", "label", "open", "write", "rename"}
Writing == {"open", "write", "rename"}

Carries(l) ==
    /\ l.label \in {"live", "offline", "not reached", "none"}
    /\ l.label # "none" => l.got.off = 0 /\ l.got.fetch = l.from /\ l.from >= 0

Apt(p, l, seen) ==
    /\ p = "bind" => l.label \in {"mock", "real"}
    /\ p = "send" => seen = TRUE
    /\ p = "read" => l.label \in {"offline", "not reached"}
    /\ p \in Holding => Carries(l)
    /\ p \in Holding /\ l.label = "live" => seen = TRUE
    /\ p = "asOf" => l.label # "none"
    /\ p \in Writing => l.label = "live"
    /\ p \in {"write", "rename"} => l.file \in Inodes

\* A handler at work has seen the switch live if it is.
Aware == \A h \in Handlers : pc[h] # "idle" /\ ~Offline => saw[h] = TRUE

Alike == \A h \in Handlers : Apt(pc[h], my[h], saw[h])

\* Who is alone has no company.
Company == \A h, k \in Handlers : pc[h] # "idle" /\ pc[k] # "idle" /\ alone[h] = TRUE => k = h

\* What a handler without company left so far.
Lone(h) ==
    LET p == pc[h]
        l == my[h]
    IN  /\ l.op = "follow" /\ p \notin {"choose", "bind"} => substrate = SubstrateChoice
        /\ l.op = "follow" /\ p = "bind" => l.label = SubstrateChoice
        /\ p \in Holding \ {"rows"} => rows = IF l.label = "none" THEN NoRows ELSE l.got
        /\ p \in Holding \ {"rows", "asOf"} /\ l.label # "none" => asOf = l.from
        /\ p \in Writing \cup {"label"} => serving = IF l.label = "live" THEN "live" ELSE "snapshot"
        /\ p \in Writing => label = "live"
        /\ p \in {"write", "rename"} => tmp = l.file
        /\ p = "write" => files[l.file] = Torn
        /\ p = "rename" => files[l.file] # Torn

LoneWork == \A h \in Handlers : pc[h] # "idle" /\ alone[h] = TRUE => Lone(h)

\* What is shown once a handler that saw the switch so is done.
Spoken(seen) ==
    /\ label = "none" <=> rows = NoRows
    /\ label # "none" => rows.fetch = asOf
    /\ serving = "live" <=> label = "live"
    /\ seen # TRUE => serving = "snapshot"

Still == \A h \in Handlers : pc[h] = "idle"

Done ==
    Still /\ last.alone = TRUE =>
        /\ Spoken(last.saw)
        /\ last.op = "follow" => substrate = SubstrateChoice

FeedInv == FeedTyped /\ Disk /\ Aware /\ Alike /\ Company /\ LoneWork /\ Done

LEMMA BoundsAreThere ==
  /\ MaxFetches \in Nat /\ Cardinality(Handlers) \in Nat /\ IsFiniteSet(Handlers)
  /\ 0 \in -1..MaxFetches /\ -1 \in -1..MaxFetches /\ 0 \notin Inodes /\ 1 \in Inodes
  /\ EnvSubstrate \in {"mock", "real"} /\ EnvOffline \in BOOLEAN
<1>1. /\ MaxFetches \in Nat /\ IsFiniteSet(Handlers)
      /\ EnvSubstrate \in {"mock", "real"} /\ EnvOffline \in BOOLEAN
  BY FeedAssumption
<1>2. Cardinality(Handlers) \in Nat
  BY <1>1, FS_CardinalityType
<1>3. 0 \notin Inodes /\ 1 \in Inodes
  BY <1>2 DEF Inodes
<1> QED
  BY <1>1, <1>2, <1>3

LEMMA TextsAreTyped ==
  /\ NoRows \in Polls /\ NoRows.off = 0 /\ NoRows.fetch = -1
  /\ Torn \in Texts /\ Torn.rows = NoRows /\ Torn.asOf = -1 /\ Torn.schema = 0
  /\ \A r \in Polls, a \in -1..MaxFetches, s \in 0..2 :
        /\ Snapshot(r, a, s) \in Texts
        /\ Snapshot(r, a, s).rows = r /\ Snapshot(r, a, s).asOf = a /\ Snapshot(r, a, s).schema = s
  /\ Idle \in Locals /\ Idle.label = "none" /\ Idle.file = 0 /\ Idle.op = "none"
<1>1. NoRows \in Polls /\ NoRows.off = 0 /\ NoRows.fetch = -1
  BY BoundsAreThere DEF NoRows, Polls
<1>2. \A r \in Polls, a \in -1..MaxFetches, s \in 0..2 :
        /\ Snapshot(r, a, s) \in Texts
        /\ Snapshot(r, a, s).rows = r /\ Snapshot(r, a, s).asOf = a /\ Snapshot(r, a, s).schema = s
  BY DEF Snapshot, Texts
<1>3. Torn \in Texts /\ Torn.rows = NoRows /\ Torn.asOf = -1 /\ Torn.schema = 0
  BY <1>1, BoundsAreThere DEF Snapshot, Texts, Torn
<1>4. Idle \in Locals /\ Idle.label = "none" /\ Idle.file = 0 /\ Idle.op = "none"
  BY <1>1, BoundsAreThere DEF Idle, Locals, Words
<1> QED
  BY <1>1, <1>2, <1>3, <1>4

LEMMA ChoiceIsTyped == SubstrateChoice \in {"mock", "real"}
BY BoundsAreThere DEF SubstrateChoice

\* The text a boot, a failed poll or an offline refresh reads.
LEMMA CachedIsOnePoll ==
  ASSUME FeedInv
  PROVE  Cached \in Texts /\ OnePoll(Cached)
<1>1. Seed \in Texts /\ OnePoll(Seed)
  <2>1. [fetch |-> 0, off |-> 0] \in Polls
    BY BoundsAreThere DEF Polls
  <2> QED
    BY <2>1, BoundsAreThere, TextsAreTyped DEF Seed, OnePoll
<1>2. Torn \in Texts /\ OnePoll(Torn)
  BY TextsAreTyped DEF OnePoll
<1>3. cache # 0 => files[cache] \in Texts /\ OnePoll(files[cache])
  BY DEF FeedInv, FeedTyped, Disk
<1> QED
  BY <1>1, <1>2, <1>3 DEF Cached

LEMMA MigratedIsUtc ==
  ASSUME NEW s \in Texts, OnePoll(s)
  PROVE  /\ Migrate(s.rows, s.schema) \in Polls
         /\ s # Torn => /\ Migrate(s.rows, s.schema).off = 0
                        /\ Migrate(s.rows, s.schema).fetch = s.asOf
                        /\ s.asOf >= 0
<1>1. s.rows \in Polls /\ s.schema \in 0..2
  BY DEF Texts
<1>2. /\ Converted(s.rows) \in Polls
      /\ Converted(s.rows).off = s.rows.off + 7 /\ Converted(s.rows).fetch = s.rows.fetch
  BY <1>1 DEF Polls, Converted
<1> QED
  BY <1>1, <1>2 DEF Migrate, OnePoll

LEMMA NobodyIsBusy == Busy = {} <=> Still
BY DEF Busy, Still

\* A handler goes on, and stays at work.
LEMMA StepKeeps ==
  ASSUME FeedInv, NEW h \in Handlers, pc[h] # "idle",
         FeedTyped', Disk', UNCHANGED override, UNCHANGED ghost,
         pc'[h] # "idle",
         \A o \in Handlers \ {h} : pc'[o] = pc[o] /\ my'[o] = my[o],
         Apt(pc'[h], my'[h], saw[h]),
         alone[h] = TRUE => Lone(h)'
  PROVE  FeedInv'
<1>1. UNCHANGED <<saw, alone, last>>
  BY DEF ghost
<1>2. Aware'
  BY <1>1 DEF FeedInv, Aware, Offline
<1>3. Alike'
  <2>1. ASSUME NEW o \in Handlers
        PROVE  Apt(pc'[o], my'[o], saw[o])
    BY DEF FeedInv, Alike
  <2> QED
    BY <1>1, <2>1 DEF Alike
<1>4. \A o \in Handlers : pc'[o] # "idle" <=> pc[o] # "idle"
  OBVIOUS
<1>5. Company'
  BY <1>1, <1>4 DEF FeedInv, Company
<1>6. LoneWork'
  <2>1. ASSUME NEW o \in Handlers, pc'[o] # "idle", alone[o] = TRUE
        PROVE  Lone(o)'
    <3>1. o = h
      BY <1>4, <2>1 DEF FeedInv, Company
    <3> QED
      BY <2>1, <3>1
  <2> QED
    BY <1>1, <2>1 DEF LoneWork
<1>7. Done'
  BY DEF Done, Still
<1> QED
  BY <1>2, <1>3, <1>5, <1>6, <1>7 DEF FeedInv

\* A handler returns.
LEMMA EndKeeps ==
  ASSUME FeedInv, NEW h \in Handlers, pc[h] # "idle", NEW raised, End(h, raised),
         FeedTyped', Disk',
         alone[h] = TRUE => /\ Spoken(saw[h])'
                            /\ my[h].op = "follow" => substrate = SubstrateChoice
  PROVE  FeedInv'
<1>1. /\ UNCHANGED <<override, substrate, saw, alone>>
      /\ pc' = [pc EXCEPT ![h] = "idle"] /\ my' = [my EXCEPT ![h] = Idle]
      /\ last' = [op |-> my[h].op, alone |-> alone[h], saw |-> saw[h]]
  BY DEF End
<1>2. /\ pc'[h] = "idle" /\ \A o \in Handlers \ {h} : pc'[o] = pc[o] /\ my'[o] = my[o]
      /\ my'[h] = Idle
  BY <1>1 DEF FeedInv, FeedTyped
<1>3. Aware'
  BY <1>1, <1>2 DEF FeedInv, Aware, Offline
<1>4. Alike'
  <2>1. Apt(pc'[h], my'[h], saw[h])
    BY <1>2 DEF Apt, Holding, Writing
  <2>2. ASSUME NEW o \in Handlers
        PROVE  Apt(pc'[o], my'[o], saw[o])
    BY <1>2, <2>1 DEF FeedInv, Alike
  <2> QED
    BY <1>1, <2>2 DEF Alike
<1>5. Company'
  BY <1>1, <1>2 DEF FeedInv, Company
<1>6. LoneWork'
  <2>1. ASSUME NEW o \in Handlers, pc'[o] # "idle", alone[o] = TRUE
        PROVE  FALSE
    <3>1. o # h /\ pc[o] # "idle"
      BY <1>2, <2>1
    <3> QED
      BY <2>1, <3>1 DEF FeedInv, Company
  <2> QED
    BY <1>1, <2>1 DEF LoneWork
<1>7. Done'
  <2> SUFFICES ASSUME Still', last'.alone = TRUE
               PROVE  /\ Spoken(last.saw)'
                      /\ last'.op = "follow" => (substrate = SubstrateChoice)'
    BY DEF Done
  <2>1. last'.op = my[h].op /\ last'.alone = alone[h] /\ last'.saw = saw[h]
    BY <1>1
  <2>2. alone[h] = TRUE
    BY <2>1
  <2>3. SubstrateChoice' = SubstrateChoice
    BY <1>1 DEF SubstrateChoice, Offline
  <2> QED
    BY <1>1, <2>1, <2>2, <2>3 DEF Spoken
<1> QED
  BY <1>3, <1>4, <1>5, <1>6, <1>7 DEF FeedInv

\* A handler begins: it alone holds nothing, and the others have company.
LEMMA EnterKeeps ==
  ASSUME FeedInv, NEW h \in Handlers, NEW op \in {"boot", "refresh", "follow", "keep"},
         NEW p \in {"guard", "choose"}, Enter(h, op, p),
         op = "follow" => p = "choose",
         override' \in {"none", "offline", "live"},
         saw' \in [Handlers -> BOOLEAN],
         ~Offline' => saw'[h] = TRUE,
         \A o \in Handlers \ {h} : saw[o] = TRUE => saw'[o] = TRUE,
         \A o \in Handlers \ {h} : pc[o] # "idle" /\ ~Offline' => saw'[o] = TRUE
  PROVE  FeedInv'
<1> DEFINE l == [Idle EXCEPT !.op = op]
<1>1. /\ pc[h] = "idle" /\ pc' = [pc EXCEPT ![h] = p] /\ my' = [my EXCEPT ![h] = l]
      /\ alone' = [k \in Handlers |-> IF k = h THEN Busy = {} ELSE alone[k] /\ pc[k] = "idle"]
      /\ UNCHANGED <<feed, substrate, disk, fetches, last>>
  BY DEF Enter
<1>2. l \in Locals /\ l.op = op
  BY TextsAreTyped DEF Locals, Idle
<1> HIDE DEF l
<1>3. UNCHANGED <<rows, asOf, serving, label, files, cache, tmp>>
  BY <1>1 DEF feed, disk
<1>4. /\ pc' \in [Handlers -> Places] /\ my' \in [Handlers -> Locals]
      /\ pc'[h] = p /\ my'[h] = l
      /\ \A o \in Handlers \ {h} : pc'[o] = pc[o] /\ my'[o] = my[o]
  BY <1>1, <1>2 DEF FeedInv, FeedTyped, Places
<1>5. alone' \in [Handlers -> BOOLEAN]
  BY <1>1 DEF FeedInv, FeedTyped
<1>6. FeedTyped'
  BY <1>1, <1>3, <1>4, <1>5 DEF FeedInv, FeedTyped
<1>7. Disk'
  BY <1>3 DEF FeedInv, Disk
<1>8. Aware'
  BY <1>4 DEF Aware
<1>9. Alike'
  <2>1. Apt(pc'[h], my'[h], saw'[h])
    BY <1>4 DEF Apt, Holding, Writing
  <2>2. ASSUME NEW o \in Handlers \ {h}
        PROVE  Apt(pc'[o], my'[o], saw'[o])
    <3>1. Apt(pc[o], my[o], saw[o])
      BY DEF FeedInv, Alike
    <3> QED
      BY <1>4, <3>1 DEF Apt
  <2> QED
    BY <2>1, <2>2 DEF Alike
<1>10. alone'[h] = TRUE => Busy = {}
  BY <1>1
<1>11. \A o \in Handlers \ {h} : alone'[o] = TRUE => pc[o] = "idle"
  BY <1>1, Zenon
<1>12. Company'
  <2>1. ASSUME NEW o \in Handlers, NEW k \in Handlers, pc'[o] # "idle", pc'[k] # "idle", alone'[o] = TRUE
        PROVE  k = o
    <3>1. o = h
      BY <1>4, <1>11, <2>1
    <3>2. Busy = {}
      BY <1>10, <2>1, <3>1
    <3> QED
      BY <1>4, <2>1, <3>1, <3>2 DEF Busy
  <2> QED
    BY <2>1 DEF Company
<1>13. LoneWork'
  <2>1. ASSUME NEW o \in Handlers, pc'[o] # "idle", alone'[o] = TRUE
        PROVE  Lone(o)'
    <3>1. o = h
      BY <1>4, <1>11, <2>1
    <3>2. pc'[o] = p /\ my'[o].op = op
      BY <1>2, <1>4, <3>1
    <3> QED
      BY <3>2 DEF Lone, Holding, Writing
  <2> QED
    BY <2>1 DEF LoneWork
<1>14. Done'
  BY <1>4 DEF Done, Still
<1> QED
  BY <1>6, <1>7, <1>8, <1>9, <1>12, <1>13, <1>14 DEF FeedInv

LEMMA CreateAppKeeps ==
  ASSUME FeedInv, NEW h \in Handlers, CreateApp(h) \/ Refresh(h)
  PROVE  FeedInv'
<1>1. /\ Enter(h, "boot", "guard") \/ Enter(h, "refresh", "guard")
      /\ saw' = [saw EXCEPT ![h] = ~Offline] /\ UNCHANGED override
  BY DEF CreateApp, Refresh
<1>2. saw' \in [Handlers -> BOOLEAN]
  BY <1>1 DEF FeedInv, FeedTyped
<1>3. Offline' = Offline
  BY <1>1 DEF Offline
<1>4. saw'[h] = ~Offline
  BY <1>1 DEF FeedInv, FeedTyped
<1>5. ~Offline' => saw'[h] = TRUE
  BY <1>3, <1>4
<1>6. \A o \in Handlers \ {h} : saw'[o] = saw[o]
  BY <1>1 DEF FeedInv, FeedTyped
<1>7. \A o \in Handlers \ {h} : pc[o] # "idle" /\ ~Offline' => saw'[o] = TRUE
  BY <1>3, <1>6 DEF FeedInv, Aware
<1>8. override' \in {"none", "offline", "live"}
  BY <1>1 DEF FeedInv, FeedTyped
<1>9. ASSUME Enter(h, "boot", "guard")
      PROVE  FeedInv'
  BY <1>2, <1>5, <1>6, <1>7, <1>8, <1>9, EnterKeeps
<1>10. ASSUME Enter(h, "refresh", "guard")
      PROVE  FeedInv'
  BY <1>2, <1>5, <1>6, <1>7, <1>8, <1>10, EnterKeeps
<1> QED
  BY <1>1, <1>9, <1>10

LEMMA SetModeKeeps ==
  ASSUME FeedInv, NEW h \in Handlers, NEW sw \in {"none", "offline", "live"},
         NEW follow \in BOOLEAN, SetMode(h, sw, follow)
  PROVE  FeedInv'
<1> DEFINE op == IF follow THEN "follow" ELSE "keep"
           p  == IF follow THEN "choose" ELSE "guard"
<1>1. /\ override' = sw /\ Enter(h, op, p)
      /\ saw' = [Seen(sw) EXCEPT ![h] = ~OfflineBy(sw)]
  BY DEF SetMode
<1>2. op \in {"follow", "keep"} /\ p \in {"guard", "choose"} /\ (op = "follow" => p = "choose")
  OBVIOUS
<1> HIDE DEF op, p
<1>3. Offline' = OfflineBy(sw)
  BY <1>1 DEF Offline
<1>4. Seen(sw) \in [Handlers -> BOOLEAN] /\ \A k \in Handlers : Seen(sw)[k] = (saw[k] \/ ~OfflineBy(sw))
  BY DEF Seen, FeedInv, FeedTyped
<1>5. saw' \in [Handlers -> BOOLEAN]
  BY <1>1, <1>4
<1>6. saw'[h] = ~OfflineBy(sw) /\ \A o \in Handlers \ {h} : saw'[o] = (saw[o] \/ ~OfflineBy(sw))
  BY <1>1, <1>4
<1>7. ~Offline' => saw'[h] = TRUE
  BY <1>3, <1>6
<1>8. \A o \in Handlers \ {h} : saw[o] = TRUE => saw'[o] = TRUE
  BY <1>6
<1>9. \A o \in Handlers \ {h} : pc[o] # "idle" /\ ~Offline' => saw'[o] = TRUE
  BY <1>3, <1>6
<1>10. override' \in {"none", "offline", "live"}
  BY <1>1
<1>11. op \in {"boot", "refresh", "follow", "keep"}
  BY <1>2
<1> QED
  BY <1>1, <1>2, <1>5, <1>7, <1>8, <1>9, <1>10, <1>11, EnterKeeps

LEMMA NewProcessKeeps ==
  ASSUME FeedInv, NewProcess
  PROVE  FeedInv'
<1> DEFINE e == [op |-> "crash", alone |-> FALSE, saw |-> FALSE]
<1>1. /\ override' = "none" /\ rows' = NoRows /\ asOf' = -1 /\ serving' = "snapshot"
      /\ label' = "not reached" /\ substrate' \in {"mock", "real"}
      /\ pc' = [h \in Handlers |-> "idle"] /\ my' = [h \in Handlers |-> Idle]
      /\ last' = e /\ UNCHANGED <<files, cache, tmp, fetches, saw, alone>>
  BY BoundsAreThere DEF NewProcess, disk
<1>2. /\ e \in [op : {"none", "boot", "refresh", "follow", "keep", "crash"}, alone : BOOLEAN, saw : BOOLEAN]
      /\ e.alone = FALSE
  OBVIOUS
<1> HIDE DEF e
<1>3. FeedTyped'
  BY <1>1, <1>2, TextsAreTyped, BoundsAreThere DEF FeedInv, FeedTyped, Places
<1>4. Disk'
  BY <1>1, TextsAreTyped DEF FeedInv, Disk
<1>5. Aware' /\ Company' /\ LoneWork'
  BY <1>1 DEF Aware, Company, LoneWork
<1>6. Alike'
  BY <1>1 DEF Alike, Apt, Holding, Writing
<1>7. Done'
  BY <1>1, <1>2 DEF Done
<1> QED
  BY <1>3, <1>4, <1>5, <1>6, <1>7 DEF FeedInv

LEMMA FeedBegins ==
  ASSUME FeedInit
  PROVE  FeedInv
<1> DEFINE e == [op |-> "none", alone |-> FALSE, saw |-> FALSE]
<1>1. PICK found \in Installs :
        /\ cache = IF found.schema = 0 THEN 0 ELSE 1
        /\ files = [i \in Inodes |-> IF i = cache THEN Old(found.schema) ELSE Torn]
  BY DEF FeedInit
<1>2. /\ override = "none" /\ rows = NoRows /\ asOf = -1 /\ serving = "snapshot"
      /\ label = "not reached" /\ substrate = SubstrateChoice /\ tmp = 0
      /\ pc = [h \in Handlers |-> "idle"] /\ my = [h \in Handlers |-> Idle]
      /\ last = e /\ fetches = 0
      /\ saw = [h \in Handlers |-> FALSE] /\ alone = [h \in Handlers |-> FALSE]
  BY DEF FeedInit
<1>3. /\ e \in [op : {"none", "boot", "refresh", "follow", "keep", "crash"}, alone : BOOLEAN, saw : BOOLEAN]
      /\ e.alone = FALSE
  OBVIOUS
<1> HIDE DEF e
<1>4. found.schema \in 0..2
  BY FeedAssumption
<1>5. /\ Old(found.schema) \in Texts
      /\ found.schema # 0 => OnePoll(Old(found.schema))
  <2> DEFINE r == [fetch |-> 0, off |-> IF found.schema = 1 THEN -7 ELSE 0]
  <2>1. /\ r \in Polls /\ r.fetch = 0 /\ (found.schema = 1 => r.off = -7) /\ (found.schema # 1 => r.off = 0)
    BY BoundsAreThere DEF Polls
  <2>2. Old(found.schema) = Snapshot(r, 0, found.schema)
    BY DEF Old
  <2> HIDE DEF r
  <2> QED
    BY <1>4, <2>1, <2>2, BoundsAreThere, TextsAreTyped DEF OnePoll
<1>6. files \in [Inodes -> Texts]
  BY <1>1, <1>5, TextsAreTyped
<1>7. cache \in Inodes \cup {0} /\ (cache # 0 => found.schema # 0)
  BY <1>1, BoundsAreThere
<1>8. saw \in [Handlers -> BOOLEAN] /\ alone \in [Handlers -> BOOLEAN]
  BY <1>2
<1>9. FeedTyped
  <2>1. substrate \in {"mock", "real"}
    BY <1>2, ChoiceIsTyped
  <2>2. pc \in [Handlers -> Places] /\ my \in [Handlers -> Locals]
    BY <1>2, TextsAreTyped DEF Places
  <2>3. rows \in Polls /\ asOf \in -1..MaxFetches /\ fetches \in 0..MaxFetches
    <3>1. MaxFetches \in Nat
      BY BoundsAreThere
    <3>2. rows \in Polls
      BY <1>2, TextsAreTyped
    <3>3. asOf = -1 /\ fetches = 0
      BY <1>2
    <3>4. asOf \in -1..MaxFetches
      BY <3>1, <3>3
    <3>5. fetches \in 0..MaxFetches
      BY <3>1, <3>3
    <3> QED
      BY <3>2, <3>4, <3>5
  <2> QED
    BY <1>2, <1>3, <1>6, <1>7, <1>8, <2>1, <2>2, <2>3 DEF FeedTyped
<1>10. Disk
  <2>1. ASSUME NEW i \in Inodes
        PROVE  OnePoll(files[i])
    <3>1. CASE i = cache
      <4>1. files[i] = Old(found.schema) /\ found.schema # 0
        BY <1>1, <1>7, <3>1, BoundsAreThere
      <4> QED
        BY <1>5, <4>1
    <3>2. CASE i # cache
      BY <1>1, <3>2 DEF OnePoll
    <3> QED
      BY <3>1, <3>2
  <2>2. cache = 0 \/ cache # tmp
    BY <1>2
  <2> QED
    BY <1>2, <2>1, <2>2, TextsAreTyped DEF Disk
<1>11. Aware /\ Company /\ LoneWork
  BY <1>2 DEF Aware, Company, LoneWork
<1>12. Alike
  BY <1>2 DEF Alike, Apt, Holding, Writing
<1>13. Done
  BY <1>2, <1>3 DEF Done
<1> QED
  BY <1>9, <1>10, <1>11, <1>12, <1>13 DEF FeedInv

LEMMA TypedStays ==
  ASSUME FeedInv, UNCHANGED ghost, UNCHANGED override, substrate' \in {"mock", "real"},
         rows' \in Polls, asOf' \in -1..MaxFetches,
         serving' \in {"live", "snapshot"}, label' \in {"live", "not reached", "offline", "none"},
         files' \in [Inodes -> Texts], cache' \in Inodes \cup {0}, tmp' \in Inodes \cup {0},
         pc' \in [Handlers -> Places], my' \in [Handlers -> Locals], fetches' \in 0..MaxFetches
  PROVE  FeedTyped'
<1>1. UNCHANGED <<saw, alone, last>>
  BY DEF ghost
<1>2. saw' \in [Handlers -> BOOLEAN] /\ alone' \in [Handlers -> BOOLEAN]
  BY <1>1 DEF FeedInv, FeedTyped
<1>3. last' \in [op : {"none", "boot", "refresh", "follow", "keep", "crash"},
                 alone : BOOLEAN, saw : BOOLEAN]
  BY <1>1 DEF FeedInv, FeedTyped
<1>4. override' \in {"none", "offline", "live"}
  BY DEF FeedInv, FeedTyped
<1> QED
  BY <1>2, <1>3, <1>4 DEF FeedTyped

LEMMA FieldsStay ==
  ASSUME FeedInv, UNCHANGED feed
  PROVE  /\ rows' \in Polls /\ asOf' \in -1..MaxFetches
         /\ serving' \in {"live", "snapshot"} /\ label' \in {"live", "not reached", "offline", "none"}
         /\ rows' = rows /\ asOf' = asOf /\ serving' = serving /\ label' = label
BY DEF feed, FeedInv, FeedTyped

LEMMA FilesStay ==
  ASSUME FeedInv, UNCHANGED disk
  PROVE  /\ files' \in [Inodes -> Texts] /\ cache' \in Inodes \cup {0} /\ tmp' \in Inodes \cup {0}
         /\ files' = files /\ cache' = cache /\ tmp' = tmp
BY DEF disk, FeedInv, FeedTyped

\* Handler h goes to p with locals l; the fields of siren and its files stay.
LEMMA QuietStepKeeps ==
  ASSUME FeedInv, NEW h \in Handlers, pc[h] # "idle",
         NEW p \in Places \ {"idle"}, pc' = [pc EXCEPT ![h] = p],
         NEW l \in Locals, my' = [my EXCEPT ![h] = l],
         UNCHANGED override, UNCHANGED ghost, UNCHANGED substrate,
         UNCHANGED feed, UNCHANGED disk, fetches' \in 0..MaxFetches,
         Apt(p, l, saw[h]),
         alone[h] = TRUE => Lone(h)'
  PROVE  FeedInv'
<1>1. UNCHANGED <<rows, asOf, serving, label, files, cache, tmp, saw, alone, last>>
  BY DEF feed, disk, ghost
<1>2. /\ pc' \in [Handlers -> Places] /\ my' \in [Handlers -> Locals]
      /\ pc'[h] = p /\ my'[h] = l
      /\ \A o \in Handlers \ {h} : pc'[o] = pc[o] /\ my'[o] = my[o]
  BY DEF FeedInv, FeedTyped
<1>3. FeedTyped'
  <2>1. substrate' \in {"mock", "real"}
    BY DEF FeedInv, FeedTyped
  <2> QED
    BY <1>2, <2>1, TypedStays, FieldsStay, FilesStay
<1>4. Disk'
  BY <1>1 DEF FeedInv, Disk
<1> QED
  BY <1>2, <1>3, <1>4, StepKeeps

LEMMA ChooseKeeps ==
  ASSUME FeedInv, NEW h \in Handlers, Choose(h)
  PROVE  FeedInv'
<1> DEFINE l == [my[h] EXCEPT !.label = SubstrateChoice]
<1>1. /\ pc[h] = "choose" /\ pc' = [pc EXCEPT ![h] = "bind"] /\ my' = [my EXCEPT ![h] = l]
      /\ UNCHANGED <<override, ghost, substrate, feed, disk, fetches>>
  BY DEF Choose, Goto
<1>2. my[h] \in Locals /\ SubstrateChoice \in {"mock", "real"}
  BY ChoiceIsTyped DEF FeedInv, FeedTyped
<1>3. l \in Locals /\ l.label = SubstrateChoice /\ l.op = my[h].op
  BY <1>2 DEF Locals, Words
<1> HIDE DEF l
<1>4. pc'[h] = "bind" /\ my'[h] = l
  BY <1>1 DEF FeedInv, FeedTyped
<1>5. SubstrateChoice' = SubstrateChoice
  BY <1>1 DEF SubstrateChoice, Offline
<1>6. Lone(h)'
  BY <1>3, <1>4, <1>5 DEF Lone, Holding, Writing
<1>7. Apt("bind", l, saw[h])
  BY <1>2, <1>3 DEF Apt, Holding, Writing
<1>8. fetches' \in 0..MaxFetches
  BY <1>1 DEF FeedInv, FeedTyped
<1>9. "bind" \in Places \ {"idle"} /\ pc[h] # "idle"
  BY <1>1 DEF Places
<1> QED
  BY <1>1, <1>3, <1>6, <1>7, <1>8, <1>9, QuietStepKeeps

LEMMA BindKeeps ==
  ASSUME FeedInv, NEW h \in Handlers, Bind(h)
  PROVE  FeedInv'
<1>1. /\ pc[h] = "bind" /\ pc' = [pc EXCEPT ![h] = "guard"] /\ substrate' = my[h].label
      /\ UNCHANGED <<override, ghost, feed, disk, my, count>>
  BY DEF Bind
<1>2. UNCHANGED <<rows, asOf, serving, label, files, cache, tmp, saw, alone, last, fetches>>
  BY <1>1 DEF feed, disk, ghost, count
<1>3. my[h].label \in {"mock", "real"}
  BY <1>1 DEF FeedInv, Alike, Apt
<1>4. /\ pc' \in [Handlers -> Places] /\ pc'[h] = "guard"
      /\ \A o \in Handlers \ {h} : pc'[o] = pc[o] /\ my'[o] = my[o]
  BY <1>1 DEF FeedInv, FeedTyped, Places
<1>5. FeedTyped'
  <2>1. my' \in [Handlers -> Locals] /\ fetches' \in 0..MaxFetches
    BY <1>1, <1>2 DEF FeedInv, FeedTyped
  <2> QED
    BY <1>1, <1>3, <1>4, <2>1, TypedStays, FieldsStay, FilesStay
<1>6. Disk'
  BY <1>2 DEF FeedInv, Disk
<1>7. Apt(pc'[h], my'[h], saw[h])
  BY <1>4 DEF Apt, Holding, Writing
<1>8. SubstrateChoice' = SubstrateChoice
  BY <1>1 DEF SubstrateChoice, Offline
<1>9. alone[h] = TRUE => Lone(h)'
  <2>1. alone[h] = TRUE /\ my[h].op = "follow" => my[h].label = SubstrateChoice
    BY <1>1 DEF FeedInv, LoneWork, Lone
  <2> QED
    BY <1>1, <1>4, <1>8, <2>1 DEF Lone, Holding, Writing
<1> QED
  BY <1>1, <1>4, <1>5, <1>6, <1>7, <1>9, StepKeeps

\* What a handler that goes on to an earlier place has left does not change.
LEMMA LoneGoesOn ==
  ASSUME FeedInv, NEW h \in Handlers, pc[h] \notin {"idle", "choose", "bind"}, alone[h] = TRUE,
         pc'[h] \in {"refresh", "fetch", "send", "read", "rows"}, my'[h].op = my[h].op,
         UNCHANGED substrate, UNCHANGED override
  PROVE  Lone(h)'
<1>1. SubstrateChoice' = SubstrateChoice
  BY DEF SubstrateChoice, Offline
<1>2. my[h].op = "follow" => substrate = SubstrateChoice
  BY DEF FeedInv, LoneWork, Lone
<1> QED
  BY <1>1, <1>2 DEF Lone, Holding, Writing

LEMMA CheckKeeps ==
  ASSUME FeedInv, NEW h \in Handlers, Check(h)
  PROVE  FeedInv'
<1>1. /\ pc[h] \in {"guard", "refresh", "fetch"}
      /\ UNCHANGED <<override, ghost, substrate, feed, disk, fetches>>
  BY DEF Check, Goto
<1>2. my[h] \in Locals /\ pc[h] # "idle"
  BY <1>1 DEF FeedInv, FeedTyped
<1>3. fetches' \in 0..MaxFetches
  BY <1>1 DEF FeedInv, FeedTyped
<1>4. CASE Offline
  <2> DEFINE l == [my[h] EXCEPT !.label = "offline"]
  <2>1. pc' = [pc EXCEPT ![h] = "read"] /\ my' = [my EXCEPT ![h] = l]
    BY <1>4 DEF Check, Goto
  <2>2. l \in Locals /\ l.label = "offline" /\ l.op = my[h].op
    BY <1>2 DEF Locals, Words
  <2> HIDE DEF l
  <2>3. pc'[h] = "read" /\ my'[h] = l
    BY <2>1 DEF FeedInv, FeedTyped
  <2>4. alone[h] = TRUE => Lone(h)'
    BY <1>1, <2>2, <2>3, LoneGoesOn
  <2>5. Apt("read", l, saw[h]) /\ "read" \in Places \ {"idle"}
    BY <2>2 DEF Apt, Holding, Writing, Places
  <2> QED
    BY <1>1, <1>2, <1>3, <2>1, <2>2, <2>4, <2>5, QuietStepKeeps
<1>5. CASE ~Offline
  <2> DEFINE p == After(pc[h])
  <2>1. pc' = [pc EXCEPT ![h] = p] /\ my' = my
    BY <1>5 DEF Check, Goto
  <2>2. p \in {"refresh", "fetch", "send"}
    BY <1>1 DEF After
  <2> HIDE DEF p
  <2>3. pc'[h] = p /\ my' = [my EXCEPT ![h] = my[h]]
    BY <2>1 DEF FeedInv, FeedTyped
  <2>4. alone[h] = TRUE => Lone(h)'
    BY <1>1, <2>1, <2>2, <2>3, LoneGoesOn
  <2>5. saw[h] = TRUE
    BY <1>2, <1>5 DEF FeedInv, Aware
  <2>6. Apt(p, my[h], saw[h]) /\ p \in Places \ {"idle"}
    BY <2>2, <2>5 DEF Apt, Holding, Writing, Places
  <2> QED
    BY <1>1, <1>2, <1>3, <2>1, <2>3, <2>4, <2>6, QuietStepKeeps
<1> QED
  BY <1>4, <1>5

LEMMA FetchedKeeps ==
  ASSUME FeedInv, NEW h \in Handlers, Fetched(h)
  PROVE  FeedInv'
<1> DEFINE n  == fetches + 1
           g  == Converted(Source(n))
           l1 == [my[h] EXCEPT !.got = g]
           l2 == [l1 EXCEPT !.from = n]
           l  == [l2 EXCEPT !.label = "live"]
<1>1. /\ pc[h] = "send" /\ fetches < MaxFetches /\ fetches' = n
      /\ pc' = [pc EXCEPT ![h] = "rows"]
      /\ my' = [my EXCEPT ![h].got = g, ![h].from = n, ![h].label = "live"]
      /\ UNCHANGED <<override, ghost, substrate, feed, disk>>
  BY DEF Fetched, Goto
<1>2. my[h] \in Locals /\ my \in [Handlers -> Locals] /\ fetches \in 0..MaxFetches
  BY DEF FeedInv, FeedTyped
<1>3. n \in 0..MaxFetches /\ n \in -1..MaxFetches /\ n >= 0
  BY <1>1, <1>2, BoundsAreThere
<1> HIDE DEF n
<1>4. g \in Polls /\ g.off = 0 /\ g.fetch = n
  BY <1>3 DEF Polls, Converted, Source
<1> HIDE DEF g
<1>5. l1 \in Locals /\ l1.got = g /\ l1.op = my[h].op
  BY <1>2, <1>4 DEF Locals
<1>6. my' = [my EXCEPT ![h] = l]
  BY <1>1, <1>2
<1> HIDE DEF l1
<1>7. l2 \in Locals /\ l2.got = g /\ l2.from = n /\ l2.op = my[h].op
  BY <1>3, <1>5 DEF Locals
<1> HIDE DEF l2
<1>8. l \in Locals /\ l.got = g /\ l.from = n /\ l.label = "live" /\ l.op = my[h].op
  BY <1>7 DEF Locals, Words
<1> HIDE DEF l
<1>9. pc'[h] = "rows" /\ my'[h] = l
  BY <1>1, <1>6 DEF FeedInv, FeedTyped
<1>10. alone[h] = TRUE => Lone(h)'
  BY <1>1, <1>8, <1>9, LoneGoesOn
<1>11. saw[h] = TRUE
  BY <1>1 DEF FeedInv, Alike, Apt
<1>12. Apt("rows", l, saw[h]) /\ "rows" \in Places \ {"idle"} /\ pc[h] # "idle"
  BY <1>1, <1>3, <1>4, <1>8, <1>11 DEF Apt, Carries, Holding, Writing, Places
<1>13. fetches' \in 0..MaxFetches
  BY <1>1, <1>3
<1> QED
  BY <1>1, <1>6, <1>8, <1>10, <1>12, <1>13, QuietStepKeeps

LEMMA NotFetchedKeeps ==
  ASSUME FeedInv, NEW h \in Handlers, NotFetched(h)
  PROVE  FeedInv'
<1> DEFINE l == [my[h] EXCEPT !.label = "not reached"]
<1>1. /\ pc[h] = "send" /\ pc' = [pc EXCEPT ![h] = "read"] /\ my' = [my EXCEPT ![h] = l]
      /\ UNCHANGED <<override, ghost, substrate, feed, disk, fetches>>
  BY DEF NotFetched, Goto
<1>2. my[h] \in Locals
  BY DEF FeedInv, FeedTyped
<1>3. l \in Locals /\ l.label = "not reached" /\ l.op = my[h].op
  BY <1>2 DEF Locals, Words
<1> HIDE DEF l
<1>4. pc'[h] = "read" /\ my'[h] = l
  BY <1>1 DEF FeedInv, FeedTyped
<1>5. alone[h] = TRUE => Lone(h)'
  BY <1>1, <1>3, <1>4, LoneGoesOn
<1>6. Apt("read", l, saw[h]) /\ "read" \in Places \ {"idle"} /\ pc[h] # "idle"
  BY <1>1, <1>3 DEF Apt, Holding, Writing, Places
<1>7. fetches' \in 0..MaxFetches
  BY <1>1 DEF FeedInv, FeedTyped
<1> QED
  BY <1>1, <1>3, <1>5, <1>6, <1>7, QuietStepKeeps

LEMMA ReadSnapshotKeeps ==
  ASSUME FeedInv, NEW h \in Handlers, ReadSnapshot(h)
  PROVE  FeedInv'
<1> DEFINE g  == Migrate(Cached.rows, Cached.schema)
           a  == Cached.asOf
           b  == IF Cached = Torn THEN "none" ELSE my[h].label
           l1 == [my[h] EXCEPT !.got = g]
           l2 == [l1 EXCEPT !.from = a]
           l  == [l2 EXCEPT !.label = b]
<1>1. /\ pc[h] = "read" /\ pc' = [pc EXCEPT ![h] = "rows"]
      /\ my' = [my EXCEPT ![h].got = g, ![h].from = a, ![h].label = IF Cached = Torn THEN "none" ELSE @]
      /\ UNCHANGED <<override, ghost, substrate, feed, disk, fetches>>
  BY DEF ReadSnapshot, Goto
<1>2. my[h] \in Locals /\ my \in [Handlers -> Locals]
  BY DEF FeedInv, FeedTyped
<1>3. my[h].label \in {"offline", "not reached"}
  BY <1>1 DEF FeedInv, Alike, Apt
<1>4. /\ g \in Polls /\ a \in -1..MaxFetches
      /\ Cached # Torn => g.off = 0 /\ g.fetch = a /\ a >= 0
  BY CachedIsOnePoll, MigratedIsUtc DEF Texts
<1>5. b \in {"offline", "not reached", "none"} /\ (b # "none" => Cached # Torn)
  BY <1>3
<1> HIDE DEF g, a
<1>6. my' = [my EXCEPT ![h] = l]
  BY <1>1, <1>2
<1> HIDE DEF b
<1>7. l1 \in Locals /\ l1.got = g /\ l1.op = my[h].op
  BY <1>2, <1>4 DEF Locals
<1> HIDE DEF l1
<1>8. l2 \in Locals /\ l2.got = g /\ l2.from = a /\ l2.op = my[h].op
  BY <1>4, <1>7 DEF Locals
<1> HIDE DEF l2
<1>9. l \in Locals /\ l.got = g /\ l.from = a /\ l.label = b /\ l.op = my[h].op
  BY <1>5, <1>8 DEF Locals, Words
<1> HIDE DEF l
<1>10. pc'[h] = "rows" /\ my'[h] = l
  BY <1>1, <1>6 DEF FeedInv, FeedTyped
<1>11. alone[h] = TRUE => Lone(h)'
  BY <1>1, <1>9, <1>10, LoneGoesOn
<1>12. Apt("rows", l, saw[h]) /\ "rows" \in Places \ {"idle"} /\ pc[h] # "idle"
  BY <1>1, <1>4, <1>5, <1>9 DEF Apt, Carries, Holding, Writing, Places
<1>13. fetches' \in 0..MaxFetches
  BY <1>1 DEF FeedInv, FeedTyped
<1> QED
  BY <1>1, <1>6, <1>9, <1>11, <1>12, <1>13, QuietStepKeeps

\* Handler h assigns to a field and goes to p.
LEMMA AssignKeeps ==
  ASSUME FeedInv, NEW h \in Handlers, pc[h] # "idle",
         NEW p \in Places \ {"idle"}, Goto(h, p), UNCHANGED <<disk, my, fetches>>,
         rows' \in Polls, rows'.off = 0, asOf' \in -1..MaxFetches,
         serving' \in {"live", "snapshot"}, label' \in {"live", "not reached", "offline", "none"},
         Apt(p, my[h], saw[h]),
         alone[h] = TRUE => Lone(h)'
  PROVE  FeedInv'
<1>1. pc' = [pc EXCEPT ![h] = p] /\ UNCHANGED override /\ UNCHANGED ghost /\ UNCHANGED substrate
      /\ UNCHANGED disk /\ UNCHANGED my /\ UNCHANGED fetches
  BY DEF Goto
<1>2. /\ pc' \in [Handlers -> Places] /\ my' \in [Handlers -> Locals] /\ fetches' \in 0..MaxFetches
      /\ pc'[h] = p /\ my'[h] = my[h] /\ substrate' \in {"mock", "real"}
      /\ \A o \in Handlers \ {h} : pc'[o] = pc[o] /\ my'[o] = my[o]
  BY <1>1 DEF FeedInv, FeedTyped
<1>3. FeedTyped'
  BY <1>1, <1>2, TypedStays, FilesStay
<1>4. Disk'
  BY <1>1, FilesStay DEF FeedInv, Disk
<1>5. pc'[h] # "idle"
  BY <1>2
<1>6. Apt(pc'[h], my'[h], saw[h])
  BY <1>2
<1> QED
  BY <1>1, <1>2, <1>3, <1>4, <1>5, <1>6, StepKeeps

\* What an assignment leaves of a handler without company.
LEMMA LoneBefore ==
  ASSUME FeedInv, NEW h \in Handlers, pc[h] # "idle", UNCHANGED <<override, substrate>>,
         alone[h] = TRUE
  PROVE  Lone(h) /\ SubstrateChoice' = SubstrateChoice /\ substrate' = substrate
BY DEF FeedInv, LoneWork, SubstrateChoice, Offline

LEMMA AssignRowsKeeps ==
  ASSUME FeedInv, NEW h \in Handlers, AssignRows(h)
  PROVE  FeedInv'
<1> DEFINE p == IF my[h].label = "none" THEN "serving" ELSE "asOf"
<1>1. /\ pc[h] = "rows" /\ rows' = IF my[h].label = "none" THEN NoRows ELSE my[h].got
      /\ Goto(h, p) /\ UNCHANGED <<asOf, serving, label, disk, my, fetches>>
  BY DEF AssignRows
<1>2. /\ pc' = [pc EXCEPT ![h] = p] /\ UNCHANGED <<override, substrate>>
  BY <1>1 DEF Goto
<1>3. /\ Carries(my[h]) /\ my[h] \in Locals /\ (my[h].label = "live" => saw[h] = TRUE)
      /\ asOf' \in -1..MaxFetches /\ serving' \in {"live", "snapshot"}
      /\ label' \in {"live", "not reached", "offline", "none"}
  BY <1>1 DEF FeedInv, FeedTyped, Alike, Apt, Holding
<1>4. rows' \in Polls /\ rows'.off = 0
  BY <1>1, <1>3, TextsAreTyped DEF Locals, Carries
<1>5. p \in {"serving", "asOf"} /\ (p = "asOf" => my[h].label # "none")
      /\ (p # "asOf" => my[h].label = "none")
  OBVIOUS
<1> HIDE DEF p
<1>6. pc'[h] = p /\ my'[h] = my[h]
  BY <1>1, <1>2 DEF FeedInv, FeedTyped
<1>7. alone[h] = TRUE => Lone(h)'
  <2> SUFFICES ASSUME alone[h] = TRUE
               PROVE  Lone(h)'
    OBVIOUS
  <2>1. Lone(h) /\ SubstrateChoice' = SubstrateChoice /\ substrate' = substrate
    BY <1>1, <1>2, LoneBefore
  <2> QED
    BY <1>1, <1>5, <1>6, <2>1 DEF Lone, Holding, Writing
<1>8. Apt(p, my[h], saw[h]) /\ p \in Places \ {"idle"} /\ pc[h] # "idle"
  BY <1>1, <1>3, <1>5 DEF Apt, Holding, Writing, Places
<1>9. UNCHANGED <<disk, my, fetches>>
  BY <1>1
<1> QED
  BY <1>1, <1>3, <1>4, <1>7, <1>8, <1>9, AssignKeeps

LEMMA AssignAsOfKeeps ==
  ASSUME FeedInv, NEW h \in Handlers, AssignAsOf(h)
  PROVE  FeedInv'
<1>1. /\ pc[h] = "asOf" /\ asOf' = my[h].from
      /\ Goto(h, "serving") /\ UNCHANGED <<rows, serving, label, disk, my, fetches>>
  BY DEF AssignAsOf
<1>2. /\ pc' = [pc EXCEPT ![h] = "serving"] /\ UNCHANGED <<override, substrate>>
  BY <1>1 DEF Goto
<1>3. /\ Carries(my[h]) /\ my[h] \in Locals /\ (my[h].label = "live" => saw[h] = TRUE)
      /\ rows' \in Polls /\ rows'.off = 0 /\ serving' \in {"live", "snapshot"}
      /\ label' \in {"live", "not reached", "offline", "none"}
  BY <1>1 DEF FeedInv, FeedTyped, Disk, Alike, Apt, Holding
<1>4. asOf' \in -1..MaxFetches
  BY <1>1, <1>3 DEF Locals
<1>5. pc'[h] = "serving" /\ my'[h] = my[h]
  BY <1>1, <1>2 DEF FeedInv, FeedTyped
<1>6. alone[h] = TRUE => Lone(h)'
  <2> SUFFICES ASSUME alone[h] = TRUE
               PROVE  Lone(h)'
    OBVIOUS
  <2>1. Lone(h) /\ SubstrateChoice' = SubstrateChoice /\ substrate' = substrate
    BY <1>1, <1>2, LoneBefore
  <2> QED
    BY <1>1, <1>5, <2>1 DEF Lone, Holding, Writing
<1>7. Apt("serving", my[h], saw[h]) /\ "serving" \in Places \ {"idle"} /\ pc[h] # "idle"
  BY <1>1, <1>3 DEF Apt, Holding, Writing, Places
<1>8. UNCHANGED <<disk, my, fetches>>
  BY <1>1
<1> QED
  BY <1>1, <1>3, <1>4, <1>6, <1>7, <1>8, AssignKeeps

LEMMA AssignServingKeeps ==
  ASSUME FeedInv, NEW h \in Handlers, AssignServing(h)
  PROVE  FeedInv'
<1>1. /\ pc[h] = "serving" /\ serving' = IF my[h].label = "live" THEN "live" ELSE "snapshot"
      /\ Goto(h, "label") /\ UNCHANGED <<rows, asOf, label, disk, my, fetches>>
  BY DEF AssignServing
<1>2. /\ pc' = [pc EXCEPT ![h] = "label"] /\ UNCHANGED <<override, substrate>>
  BY <1>1 DEF Goto
<1>3. /\ Carries(my[h]) /\ (my[h].label = "live" => saw[h] = TRUE)
      /\ rows' \in Polls /\ rows'.off = 0 /\ asOf' \in -1..MaxFetches
      /\ label' \in {"live", "not reached", "offline", "none"}
  BY <1>1 DEF FeedInv, FeedTyped, Disk, Alike, Apt, Holding
<1>4. serving' \in {"live", "snapshot"}
  BY <1>1
<1>5. pc'[h] = "label" /\ my'[h] = my[h]
  BY <1>1, <1>2 DEF FeedInv, FeedTyped
<1>6. alone[h] = TRUE => Lone(h)'
  <2> SUFFICES ASSUME alone[h] = TRUE
               PROVE  Lone(h)'
    OBVIOUS
  <2>1. Lone(h) /\ SubstrateChoice' = SubstrateChoice /\ substrate' = substrate
    BY <1>1, <1>2, LoneBefore
  <2> QED
    BY <1>1, <1>5, <2>1 DEF Lone, Holding, Writing
<1>7. Apt("label", my[h], saw[h]) /\ "label" \in Places \ {"idle"} /\ pc[h] # "idle"
  BY <1>1, <1>3 DEF Apt, Holding, Writing, Places
<1>8. UNCHANGED <<disk, my, fetches>>
  BY <1>1
<1> QED
  BY <1>1, <1>3, <1>4, <1>6, <1>7, <1>8, AssignKeeps

LEMMA EndTyped ==
  ASSUME FeedInv, NEW h \in Handlers, NEW raised, End(h, raised), UNCHANGED fetches,
         files' \in [Inodes -> Texts], cache' \in Inodes \cup {0}, tmp' \in Inodes \cup {0},
         rows' \in Polls, asOf' \in -1..MaxFetches,
         serving' \in {"live", "snapshot"}, label' \in {"live", "not reached", "offline", "none"}
  PROVE  FeedTyped'
<1> DEFINE e == [op |-> my[h].op, alone |-> alone[h], saw |-> saw[h]]
           Lasts == [op : {"none", "boot", "refresh", "follow", "keep", "crash"},
                     alone : BOOLEAN, saw : BOOLEAN]
<1>1. /\ pc' = [pc EXCEPT ![h] = "idle"] /\ my' = [my EXCEPT ![h] = Idle]
      /\ override' = override /\ substrate' = substrate /\ saw' = saw /\ alone' = alone
      /\ last' = e
  BY DEF End
<1>2. e \in Lasts
  <2>1. /\ my[h].op \in {"none", "boot", "refresh", "follow", "keep"}
        /\ alone[h] \in BOOLEAN /\ saw[h] \in BOOLEAN
    BY DEF FeedInv, FeedTyped, Locals
  <2> QED
    BY <2>1
<1> HIDE DEF e
<1>3. pc' \in [Handlers -> Places] /\ my' \in [Handlers -> Locals]
  BY <1>1, TextsAreTyped DEF FeedInv, FeedTyped, Places
<1>4. saw' \in [Handlers -> BOOLEAN] /\ alone' \in [Handlers -> BOOLEAN]
  BY <1>1 DEF FeedInv, FeedTyped
<1>5. /\ override' \in {"none", "offline", "live"} /\ substrate' \in {"mock", "real"}
      /\ fetches' \in 0..MaxFetches
  BY <1>1 DEF FeedInv, FeedTyped
<1> QED
  BY <1>1, <1>2, <1>3, <1>4, <1>5 DEF FeedTyped

\* A handler that is done with the fields, and had no company, leaves rows, an
\* as-of and a label that belong together.
LEMMA LoneSpeaksTrue ==
  ASSUME FeedInv, NEW h \in Handlers, pc[h] \in Writing \cup {"label"}, alone[h] = TRUE,
         UNCHANGED <<rows, asOf, serving>>, UNCHANGED saw, label' = my[h].label
  PROVE  /\ Spoken(saw[h])'
         /\ my[h].op = "follow" => substrate = SubstrateChoice
<1>1. Lone(h) /\ Apt(pc[h], my[h], saw[h]) /\ pc[h] \in Holding \ {"rows", "asOf"}
      /\ pc[h] \notin {"choose", "bind"}
  BY DEF FeedInv, LoneWork, Alike, Writing, Holding
<1>2. Carries(my[h]) /\ (my[h].label = "live" => saw[h] = TRUE)
  BY <1>1 DEF Apt
<1>3. /\ rows = IF my[h].label = "none" THEN NoRows ELSE my[h].got
      /\ my[h].label # "none" => asOf = my[h].from
      /\ serving = IF my[h].label = "live" THEN "live" ELSE "snapshot"
      /\ my[h].op = "follow" => substrate = SubstrateChoice
  BY <1>1 DEF Lone
<1>4. my[h].label # "none" => rows # NoRows /\ rows.fetch = asOf
  <2> SUFFICES ASSUME my[h].label # "none"
               PROVE  rows # NoRows /\ rows.fetch = asOf
    OBVIOUS
  <2>1. rows = my[h].got /\ asOf = my[h].from
    BY <1>3
  <2>2. my[h].got.fetch = my[h].from /\ my[h].from >= 0
    BY <1>2 DEF Carries
  <2>3. NoRows.fetch = -1
    BY TextsAreTyped
  <2>4. rows.fetch = asOf /\ asOf >= 0
    BY <2>1, <2>2
  <2>5. CASE rows = NoRows
    BY <2>3, <2>4, <2>5
  <2> QED
    BY <2>4, <2>5
<1>5. my[h].label = "none" => rows = NoRows
  BY <1>3
<1>6. saw[h] # TRUE => serving = "snapshot"
  BY <1>2, <1>3
<1>7. serving = "live" <=> my[h].label = "live"
  BY <1>3
<1>8. Spoken(saw[h])'
  BY <1>4, <1>5, <1>6, <1>7 DEF Spoken
<1> QED
  BY <1>3, <1>8

LEMMA AssignLabelKeeps ==
  ASSUME FeedInv, NEW h \in Handlers, AssignLabel(h)
  PROVE  FeedInv'
<1>1. /\ pc[h] = "label" /\ label' = my[h].label
      /\ UNCHANGED <<rows, asOf, serving, disk, fetches>>
  BY DEF AssignLabel
<1>2. /\ Carries(my[h]) /\ (my[h].label = "live" => saw[h] = TRUE) /\ my[h] \in Locals
      /\ rows' \in Polls /\ rows'.off = 0 /\ asOf' \in -1..MaxFetches
      /\ serving' \in {"live", "snapshot"}
  BY <1>1 DEF FeedInv, FeedTyped, Disk, Alike, Apt, Holding
<1>3. label' \in {"live", "not reached", "offline", "none"}
  BY <1>1, <1>2 DEF Carries
<1>4. CASE my[h].label = "live"
  <2>1. Goto(h, "open") /\ UNCHANGED my
    BY <1>4 DEF AssignLabel
  <2>2. /\ pc' = [pc EXCEPT ![h] = "open"] /\ UNCHANGED <<override, substrate>>
    BY <2>1 DEF Goto
  <2>3. pc'[h] = "open" /\ my'[h] = my[h]
    BY <2>1, <2>2 DEF FeedInv, FeedTyped
  <2>4. alone[h] = TRUE => Lone(h)'
    <3> SUFFICES ASSUME alone[h] = TRUE
                 PROVE  Lone(h)'
      OBVIOUS
    <3>1. Lone(h) /\ SubstrateChoice' = SubstrateChoice /\ substrate' = substrate
      BY <1>1, <2>2, LoneBefore
    <3> QED
      BY <1>1, <1>4, <2>3, <3>1 DEF Lone, Holding, Writing
  <2>5. Apt("open", my[h], saw[h]) /\ "open" \in Places \ {"idle"} /\ pc[h] # "idle"
    BY <1>1, <1>2, <1>4 DEF Apt, Holding, Writing, Places
  <2>6. UNCHANGED <<disk, my, fetches>>
    BY <1>1, <2>1
  <2> QED
    BY <1>2, <1>3, <2>1, <2>4, <2>5, <2>6, AssignKeeps
<1>5. CASE my[h].label # "live"
  <2>1. End(h, FALSE)
    BY <1>5 DEF AssignLabel
  <2>2. /\ pc' = [pc EXCEPT ![h] = "idle"] /\ my' = [my EXCEPT ![h] = Idle]
        /\ UNCHANGED <<override, substrate, saw, alone>>
        /\ last' = [op |-> my[h].op, alone |-> alone[h], saw |-> saw[h]]
    BY <2>1 DEF End
  <2>3. FeedTyped'
    BY <1>1, <1>2, <1>3, <2>1, FilesStay, EndTyped
  <2>4. Disk'
    BY <1>1, FilesStay DEF FeedInv, Disk
  <2>5. alone[h] = TRUE => /\ Spoken(saw[h])'
                           /\ my[h].op = "follow" => substrate = SubstrateChoice
    BY <1>1, <2>2, LoneSpeaksTrue
  <2>6. pc[h] # "idle"
    BY <1>1
  <2> QED
    BY <2>1, <2>3, <2>4, <2>5, <2>6, EndKeeps
<1> QED
  BY <1>4, <1>5

\* Two names and the open files are fewer than the inodes.
LEMMA FreeIsThere ==
  ASSUME FeedInv, tmp = 0
  PROVE  Free # {}
<1> DEFINE n == Cardinality(Handlers)
           f == [h \in Handlers |-> my[h].file]
           R == {f[h] : h \in Handlers}
<1>1. n \in Nat /\ IsFiniteSet(Handlers)
  BY BoundsAreThere
<1>2. f \in Surjection(Handlers, R)
  BY DEF Surjection
<1>3. IsFiniteSet(R) /\ Cardinality(R) <= n
  BY <1>1, <1>2, FS_Surjection
<1>4. Cardinality(R) \in Nat
  BY <1>3, FS_CardinalityType
<1>5. IsFiniteSet(R \cup {cache}) /\ Cardinality(R \cup {cache}) <= n + 1
  <2>1. /\ IsFiniteSet(R \cup {cache})
        /\ Cardinality(R \cup {cache}) = IF cache \in R THEN Cardinality(R) ELSE Cardinality(R) + 1
    BY <1>3, FS_AddElement
  <2> HIDE DEF R, n
  <2> QED
    BY <1>1, <1>3, <1>4, <2>1
<1>6. Cardinality(R \cup {cache}) \in Nat
  BY <1>5, FS_CardinalityType
<1>7. Cardinality(Inodes) = n + 2
  BY <1>1, FS_Interval DEF Inodes
<1>8. CASE Free = {}
  <2>1. {my[h].file : h \in Handlers} = R
    OBVIOUS
  <2>2. Inodes \subseteq {cache, tmp} \cup R
    BY <1>8, <2>1 DEF Free
  <2>3. Inodes \subseteq R \cup {cache}
    BY <2>2, BoundsAreThere
  <2> HIDE DEF R
  <2>4. Inodes \in SUBSET (R \cup {cache})
    BY <2>3
  <2>5. Cardinality(Inodes) <= Cardinality(R \cup {cache})
    BY <1>5, <2>4, FS_Subset
  <2> QED
    BY <1>1, <1>5, <1>6, <1>7, <2>5
<1> QED
  BY <1>8

LEMMA LowestFree ==
  ASSUME Free # {}
  PROVE  (CHOOSE i \in Free : \A j \in Free : i <= j) \in Free
<1>1. Free \subseteq Nat
  BY BoundsAreThere DEF Free, Inodes
<1>2. \E i \in Free : \A j \in Free : ~(<<j, i>> \in OpToRel(<, Nat))
  BY <1>1, NatLessThanWellFounded, WFMin, Zenon
<1>3. ASSUME NEW j \in Nat, NEW i \in Nat, j < i
      PROVE  <<j, i>> \in OpToRel(<, Nat)
  <2>1. <<j, i>> \in {ss \in Nat \X Nat : ss[1] < ss[2]}
    BY <1>3
  <2> QED
    BY <2>1, Zenon DEF OpToRel
<1>4. PICK i \in Free : \A j \in Free : ~(<<j, i>> \in OpToRel(<, Nat))
  BY <1>2
<1>5. \A j \in Free : j \in Nat /\ ~(j < i)
  BY <1>1, <1>3, <1>4
<1>6. \A j \in Free : i <= j
  BY <1>1, <1>5
<1> QED
  BY <1>6

\* The file a handler opens is nobody's cache.
LEMMA OpenedIsFree ==
  ASSUME FeedInv, NEW h \in Handlers, OpenTmp(h)
  PROVE  \E f \in Inodes \ {cache} :
            /\ tmp' = f /\ files' = [files EXCEPT ![f] = Torn]
            /\ my' = [my EXCEPT ![h].file = f]
<1> DEFINE f == IF tmp # 0 THEN tmp ELSE CHOOSE i \in Free : \A j \in Free : i <= j
<1>1. tmp' = f /\ files' = [files EXCEPT ![f] = Torn] /\ my' = [my EXCEPT ![h].file = f]
  BY DEF OpenTmp
<1>2. CASE tmp # 0
  <2>1. f = tmp
    BY <1>2
  <2>2. tmp \in Inodes /\ tmp # cache
    BY <1>2 DEF FeedInv, FeedTyped, Disk
  <2> QED
    BY <1>1, <2>1, <2>2
<1>3. CASE tmp = 0
  <2>1. f \in Free
    BY <1>3, FreeIsThere, LowestFree
  <2>2. f \in Inodes /\ f # cache
    BY <2>1 DEF Free
  <2> HIDE DEF f
  <2> QED
    BY <1>1, <2>2
<1> QED
  BY <1>2, <1>3

LEMMA OpenTmpKeeps ==
  ASSUME FeedInv, NEW h \in Handlers, OpenTmp(h)
  PROVE  FeedInv'
<1>1. /\ pc[h] = "open" /\ pc' = [pc EXCEPT ![h] = "write"] /\ UNCHANGED <<feed, cache, fetches>>
      /\ UNCHANGED override /\ UNCHANGED ghost /\ UNCHANGED substrate
  BY DEF OpenTmp, Goto
<1>2. PICK f \in Inodes \ {cache} : /\ tmp' = f /\ files' = [files EXCEPT ![f] = Torn]
                                    /\ my' = [my EXCEPT ![h].file = f]
  BY OpenedIsFree
<1> DEFINE l == [my[h] EXCEPT !.file = f]
<1>3. my[h] \in Locals /\ pc \in [Handlers -> Places] /\ my \in [Handlers -> Locals]
      /\ files \in [Inodes -> Texts]
  BY DEF FeedInv, FeedTyped
<1>4. /\ l \in Locals /\ l.file = f /\ l.op = my[h].op /\ l.label = my[h].label
      /\ l.got = my[h].got /\ l.from = my[h].from
  BY <1>2, <1>3 DEF Locals
<1>5. my' = [my EXCEPT ![h] = l]
  BY <1>2, <1>3
<1> HIDE DEF l
<1>6. /\ pc' \in [Handlers -> Places] /\ my' \in [Handlers -> Locals]
      /\ pc'[h] = "write" /\ my'[h] = l
      /\ \A o \in Handlers \ {h} : pc'[o] = pc[o] /\ my'[o] = my[o]
  BY <1>1, <1>3, <1>4, <1>5 DEF Places
<1>7. /\ files' \in [Inodes -> Texts] /\ files'[f] = Torn
      /\ \A i \in Inodes \ {f} : files'[i] = files[i]
  BY <1>2, <1>3, TextsAreTyped
<1>8. tmp' \in Inodes \cup {0} /\ cache' \in Inodes \cup {0} /\ fetches' \in 0..MaxFetches
      /\ substrate' \in {"mock", "real"}
  BY <1>1, <1>2 DEF FeedInv, FeedTyped
<1>9. UNCHANGED feed
  BY <1>1
<1>10. FeedTyped'
  BY <1>1, <1>6, <1>7, <1>8, <1>9, FieldsStay, TypedStays
<1>11. Disk'
  <2>1. \A i \in Inodes : OnePoll(files'[i])
    BY <1>7 DEF FeedInv, Disk, OnePoll
  <2>2. cache' = cache /\ tmp' # cache
    BY <1>1, <1>2
  <2> QED
    BY <1>9, <2>1, <2>2, FieldsStay DEF FeedInv, Disk
<1>12. Apt(pc[h], my[h], saw[h])
  BY DEF FeedInv, Alike
<1>13. Apt(pc'[h], my'[h], saw[h])
  <2>1. Carries(my[h]) /\ my[h].label = "live" /\ saw[h] = TRUE
    BY <1>1, <1>12 DEF Apt, Holding, Writing
  <2>2. Carries(l) /\ l.label = "live" /\ l.file \in Inodes
    BY <1>4, <2>1 DEF Carries
  <2> QED
    BY <1>6, <2>1, <2>2 DEF Apt, Holding, Writing
<1>14. alone[h] = TRUE => Lone(h)'
  <2> SUFFICES ASSUME alone[h] = TRUE
               PROVE  Lone(h)'
    OBVIOUS
  <2>1. Lone(h) /\ SubstrateChoice' = SubstrateChoice /\ substrate' = substrate
    BY <1>1, LoneBefore
  <2>2. rows' = rows /\ asOf' = asOf /\ serving' = serving /\ label' = label
    BY <1>9, FieldsStay
  <2> QED
    BY <1>1, <1>2, <1>4, <1>6, <1>7, <2>1, <2>2 DEF Lone, Holding, Writing
<1>15. pc[h] # "idle" /\ pc'[h] # "idle"
  BY <1>1, <1>6
<1> QED
  BY <1>1, <1>6, <1>10, <1>11, <1>13, <1>14, <1>15, StepKeeps

\* What a handler writes into its file is one poll.
LEMMA ToCacheIsOnePoll ==
  ASSUME FeedInv, NEW h \in Handlers, pc[h] = "write"
  PROVE  ToCache(h) \in Texts /\ OnePoll(ToCache(h)) /\ ToCache(h) # Torn
<1>1. my[h] \in Locals /\ Carries(my[h]) /\ my[h].label = "live"
  BY DEF FeedInv, FeedTyped, Alike, Apt, Holding, Writing
<1>2. /\ my[h].got \in Polls /\ my[h].from \in -1..MaxFetches /\ my[h].from >= 0
      /\ my[h].got.off = 0 /\ my[h].got.fetch = my[h].from
  BY <1>1 DEF Locals, Carries
<1>3. /\ ToCache(h) \in Texts /\ ToCache(h).rows = my[h].got
      /\ ToCache(h).asOf = my[h].from /\ ToCache(h).schema = 2
  BY <1>2, TextsAreTyped DEF ToCache
<1>4. ToCache(h) # Torn
  BY <1>3, TextsAreTyped
<1> QED
  BY <1>2, <1>3, <1>4 DEF OnePoll

LEMMA WriteTmpKeeps ==
  ASSUME FeedInv, NEW h \in Handlers, WriteTmp(h)
  PROVE  FeedInv'
<1> DEFINE f == my[h].file
<1>1. /\ pc[h] = "write" /\ pc' = [pc EXCEPT ![h] = "rename"]
      /\ UNCHANGED <<feed, cache, tmp, my, fetches>>
      /\ UNCHANGED override /\ UNCHANGED ghost /\ UNCHANGED substrate
  BY DEF WriteTmp, Goto
<1>2. PICK over \in {ToCache(h)} \cup (IF files[f] = Torn THEN {} ELSE {Torn}) :
          files' = [files EXCEPT ![f] = over]
  BY DEF WriteTmp
<1>3. f \in Inodes /\ Apt(pc[h], my[h], saw[h])
  BY <1>1 DEF FeedInv, Alike, Apt
<1>4. over \in Texts /\ OnePoll(over) /\ (files[f] = Torn => over # Torn)
  BY <1>1, <1>2, ToCacheIsOnePoll, TextsAreTyped DEF OnePoll
<1>5. pc \in [Handlers -> Places] /\ my \in [Handlers -> Locals] /\ files \in [Inodes -> Texts]
  BY DEF FeedInv, FeedTyped
<1>6. /\ pc' \in [Handlers -> Places] /\ my' \in [Handlers -> Locals]
      /\ pc'[h] = "rename" /\ my'[h] = my[h]
      /\ \A o \in Handlers \ {h} : pc'[o] = pc[o] /\ my'[o] = my[o]
  BY <1>1, <1>5 DEF Places
<1> HIDE DEF f
<1>7. /\ files' \in [Inodes -> Texts] /\ files'[f] = over
      /\ \A i \in Inodes \ {f} : files'[i] = files[i]
  BY <1>2, <1>3, <1>4, <1>5
<1>8. tmp' \in Inodes \cup {0} /\ cache' \in Inodes \cup {0} /\ fetches' \in 0..MaxFetches
      /\ substrate' \in {"mock", "real"}
  BY <1>1 DEF FeedInv, FeedTyped
<1>9. UNCHANGED feed
  BY <1>1
<1>10. FeedTyped'
  BY <1>1, <1>6, <1>7, <1>8, <1>9, FieldsStay, TypedStays
<1>11. Disk'
  <2>1. \A i \in Inodes : OnePoll(files'[i])
    BY <1>4, <1>7 DEF FeedInv, Disk
  <2>2. cache' = cache /\ tmp' = tmp
    BY <1>1
  <2> QED
    BY <1>9, <2>1, <2>2, FieldsStay DEF FeedInv, Disk
<1>12. Apt(pc'[h], my'[h], saw[h])
  BY <1>1, <1>3, <1>6 DEF Apt, Carries, Holding, Writing
<1>13. alone[h] = TRUE => Lone(h)'
  <2> SUFFICES ASSUME alone[h] = TRUE
               PROVE  Lone(h)'
    OBVIOUS
  <2>1. Lone(h) /\ SubstrateChoice' = SubstrateChoice /\ substrate' = substrate
    BY <1>1, LoneBefore
  <2>2. rows' = rows /\ asOf' = asOf /\ serving' = serving /\ label' = label
    BY <1>9, FieldsStay
  <2>3. files'[my[h].file] # Torn
    BY <1>1, <1>4, <1>7, <2>1 DEF Lone, f
  <2> QED
    BY <1>1, <1>6, <2>1, <2>2, <2>3 DEF Lone, Holding, Writing
<1>14. pc[h] # "idle" /\ pc'[h] # "idle"
  BY <1>1, <1>6
<1> QED
  BY <1>1, <1>6, <1>10, <1>11, <1>12, <1>13, <1>14, StepKeeps

\* A handler that wrote the fields ends, whatever becomes of its file.
LEMMA WriterEndKeeps ==
  ASSUME FeedInv, NEW h \in Handlers, pc[h] \in Writing, NEW raised, End(h, raised),
         UNCHANGED feed, UNCHANGED files, UNCHANGED fetches,
         cache' \in Inodes \cup {0}, tmp' \in Inodes \cup {0}, cache' = 0 \/ cache' # tmp'
  PROVE  FeedInv'
<1>1. /\ UNCHANGED <<override, substrate, saw, alone>>
  BY DEF End
<1>2. files' \in [Inodes -> Texts]
  BY DEF FeedInv, FeedTyped
<1>3. FeedTyped'
  BY <1>2, FieldsStay, EndTyped
<1>4. Disk'
  BY FieldsStay DEF FeedInv, Disk
<1>5. alone[h] = TRUE => /\ Spoken(saw[h])'
                         /\ my[h].op = "follow" => substrate = SubstrateChoice
  <2> SUFFICES ASSUME alone[h] = TRUE
               PROVE  /\ Spoken(saw[h])'
                      /\ my[h].op = "follow" => substrate = SubstrateChoice
    OBVIOUS
  <2>1. label = "live" /\ my[h].label = "live"
    BY DEF FeedInv, LoneWork, Lone, Alike, Apt, Writing
  <2>2. UNCHANGED <<rows, asOf, serving>> /\ UNCHANGED saw /\ label' = my[h].label
    BY <1>1, <2>1, FieldsStay
  <2> QED
    BY <2>2, LoneSpeaksTrue
<1>6. pc[h] # "idle"
  BY DEF Writing
<1> QED
  BY <1>3, <1>4, <1>5, <1>6, EndKeeps

LEMMA RenameKeeps ==
  ASSUME FeedInv, NEW h \in Handlers, Rename(h)
  PROVE  FeedInv'
<1>1. /\ pc[h] \in Writing /\ cache' = tmp /\ tmp' = 0 /\ tmp # 0
      /\ End(h, FALSE) /\ UNCHANGED feed /\ UNCHANGED files /\ UNCHANGED fetches
  BY DEF Rename, Writing
<1>2. cache' \in Inodes \cup {0} /\ tmp' \in Inodes \cup {0} /\ cache' # tmp'
  BY <1>1 DEF FeedInv, FeedTyped
<1> QED
  BY <1>1, <1>2, WriterEndKeeps

LEMMA WriteFailsKeeps ==
  ASSUME FeedInv, NEW h \in Handlers, RenameLost(h) \/ WriteFails(h)
  PROVE  FeedInv'
<1>1. /\ pc[h] \in Writing /\ End(h, TRUE) /\ UNCHANGED feed /\ UNCHANGED disk /\ UNCHANGED fetches
  BY DEF RenameLost, WriteFails, Writing
<1>2. /\ cache' \in Inodes \cup {0} /\ tmp' \in Inodes \cup {0} /\ (cache' = 0 \/ cache' # tmp')
      /\ UNCHANGED files
  BY <1>1, FilesStay DEF FeedInv, Disk
<1> QED
  BY <1>1, <1>2, WriterEndKeeps

LEMMA FeedInvStays ==
  ASSUME FeedInv, [FeedNext]_feedVars
  PROVE  FeedInv'
<1>1. CASE \E h \in Handlers : CreateApp(h) \/ Refresh(h)
  BY <1>1, CreateAppKeeps
<1>2. CASE \E h \in Handlers, sw \in {"none", "offline", "live"}, follow \in BOOLEAN :
              SetMode(h, sw, follow)
  BY <1>2, SetModeKeeps
<1>3. CASE \E h \in Handlers : Step(h)
  BY <1>3, ChooseKeeps, BindKeeps, CheckKeeps, FetchedKeeps, NotFetchedKeeps, ReadSnapshotKeeps,
     AssignRowsKeeps, AssignAsOfKeeps, AssignServingKeeps, AssignLabelKeeps,
     OpenTmpKeeps, WriteTmpKeeps, RenameKeeps, WriteFailsKeeps DEF Step
<1>4. CASE NewProcess
  BY <1>4, NewProcessKeeps
<1>5. CASE UNCHANGED feedVars
  <2>1. UNCHANGED <<override, rows, asOf, serving, label, substrate, files, cache, tmp, pc, my, fetches,
                    saw, alone, last>>
    BY <1>5 DEF feedVars, feed, disk, count, ghost
  <2>2. UNCHANGED ghost /\ UNCHANGED feed /\ UNCHANGED disk /\ UNCHANGED override
    BY <1>5 DEF feedVars
  <2>3. /\ substrate' \in {"mock", "real"} /\ pc' \in [Handlers -> Places]
        /\ my' \in [Handlers -> Locals] /\ fetches' \in 0..MaxFetches
    BY <2>1 DEF FeedInv, FeedTyped
  <2>4. FeedTyped'
    BY <2>2, <2>3, FieldsStay, FilesStay, TypedStays
  <2>5. Disk' /\ Aware' /\ Alike' /\ Company'
    BY <2>1 DEF FeedInv, Disk, Aware, Offline, Alike, Company
  <2>6. LoneWork'
    BY <2>1 DEF FeedInv, LoneWork, Lone, SubstrateChoice, Offline
  <2>7. Done'
    BY <2>1 DEF FeedInv, Done, Still, Spoken, SubstrateChoice, Offline
  <2> QED
    BY <2>4, <2>5, <2>6, <2>7 DEF FeedInv
<1> QED
  BY <1>1, <1>2, <1>3, <1>4, <1>5 DEF FeedNext

LEMMA FeedHolds ==
  ASSUME FeedInv
  PROVE  FeedIsSound /\ OfflineSendsNothing /\ AloneItSpeaksTrue
<1>1. FeedTypeOK
  <2>1. rows.fetch \in -1..MaxFetches
    BY DEF FeedInv, FeedTyped, Polls
  <2>2. \A h \in Handlers : pc[h] = "open" /\ tmp = 0 => Free # {}
    BY FreeIsThere
  <2> QED
    BY <2>1, <2>2 DEF FeedTypeOK, FeedInv, FeedTyped, Disk
<1>2. SubstrateFollows
  <2> SUFFICES ASSUME Busy = {}, last.alone, last.op = "follow"
               PROVE  substrate = SubstrateChoice
    BY DEF SubstrateFollows
  <2>1. last.alone \in BOOLEAN
    BY DEF FeedInv, FeedTyped
  <2>2. last.alone = TRUE
    BY <2>1
  <2> QED
    BY <2>2, NobodyIsBusy DEF FeedInv, Done
<1>3. CacheIsOnePoll
  <2> SUFFICES ASSUME cache # 0, files[cache] # Torn
               PROVE  files[cache].rows.fetch = files[cache].asOf
    BY DEF CacheIsOnePoll
  <2>1. cache \in Inodes
    BY DEF FeedInv, FeedTyped
  <2> QED
    BY <2>1 DEF FeedInv, Disk, OnePoll
<1>4. ClocksAreUtc
  BY DEF ClocksAreUtc, FeedInv, Disk
<1>5. OfflineSendsNothing
  <2>1. ASSUME NEW h \in Handlers, pc[h] = "send"
        PROVE  saw[h]
    <3>1. saw[h] = TRUE
      BY <2>1 DEF FeedInv, Alike, Apt
    <3> QED
      BY <3>1
  <2> QED
    BY <2>1 DEF OfflineSendsNothing
<1>6. AloneItSpeaksTrue
  <2> SUFFICES ASSUME Busy = {}, last.alone
               PROVE  /\ label = "none" <=> rows = NoRows
                      /\ label # "none" => rows.fetch = asOf
                      /\ serving = "live" <=> label = "live"
                      /\ ~last.saw => serving = "snapshot"
    BY DEF AloneItSpeaksTrue
  <2>1. last.alone \in BOOLEAN /\ last.saw \in BOOLEAN
    BY DEF FeedInv, FeedTyped
  <2>2. last.alone = TRUE /\ (~last.saw => last.saw # TRUE)
    BY <2>1
  <2>3. Spoken(last.saw)
    BY <2>2, NobodyIsBusy DEF FeedInv, Done
  <2> QED
    BY <2>2, <2>3 DEF Spoken
<1> QED
  BY <1>1, <1>2, <1>3, <1>4, <1>5, <1>6 DEF FeedIsSound

LEMMA WholeStays ==
  ASSUME FeedInv, [FeedNext]_feedVars, Whole, \A h \in Busy : alone[h]
  PROVE  Whole'
<1>1. ASSUME UNCHANGED disk
      PROVE  Whole'
  BY <1>1 DEF disk, Whole
<1>2. ASSUME NEW h \in Handlers, pc[h] # "idle"
      PROVE  Lone(h)
  <2>1. alone[h] /\ alone[h] \in BOOLEAN
    BY <1>2 DEF FeedInv, FeedTyped, Busy
  <2>2. alone[h] = TRUE
    BY <2>1
  <2> QED
    BY <1>2, <2>2 DEF FeedInv, LoneWork
<1>3. files \in [Inodes -> Texts]
  BY DEF FeedInv, FeedTyped
<1>4. ASSUME NEW h \in Handlers, OpenTmp(h)
      PROVE  Whole'
  <2>1. PICK f \in Inodes \ {cache} : files' = [files EXCEPT ![f] = Torn]
    BY <1>4, OpenedIsFree
  <2>2. cache' = cache
    BY <1>4 DEF OpenTmp
  <2>3. cache # 0 => cache \in Inodes
    BY DEF FeedInv, FeedTyped
  <2> QED
    BY <1>3, <2>1, <2>2, <2>3 DEF Whole
<1>5. ASSUME NEW h \in Handlers, WriteTmp(h)
      PROVE  Whole'
  <2> DEFINE f == my[h].file
  <2>1. pc[h] = "write" /\ cache' = cache /\ \E over : files' = [files EXCEPT ![f] = over]
    BY <1>5 DEF WriteTmp
  <2>2. tmp = f
    BY <1>2, <2>1 DEF Lone
  <2>3. cache # 0 => cache \in Inodes /\ cache # f
    BY <2>2 DEF FeedInv, FeedTyped, Disk
  <2> HIDE DEF f
  <2> QED
    BY <1>3, <2>1, <2>3 DEF Whole
<1>6. ASSUME NEW h \in Handlers, Rename(h)
      PROVE  Whole'
  <2>1. pc[h] = "rename" /\ cache' = tmp /\ files' = files
    BY <1>6 DEF Rename
  <2>2. tmp = my[h].file /\ files[my[h].file] # Torn
    BY <1>2, <2>1 DEF Lone
  <2> QED
    BY <2>1, <2>2 DEF Whole
<1>7. ASSUME NEW h \in Handlers, Step(h)
      PROVE  UNCHANGED disk \/ OpenTmp(h) \/ WriteTmp(h) \/ Rename(h)
  BY <1>7 DEF Step, Choose, Bind, Check, Fetched, NotFetched, ReadSnapshot, AssignRows,
     AssignAsOf, AssignServing, AssignLabel, RenameLost, WriteFails
<1>8. CASE \E h \in Handlers : Step(h)
  BY <1>1, <1>4, <1>5, <1>6, <1>7, <1>8
<1>9. CASE \E h \in Handlers : CreateApp(h) \/ Refresh(h)
  BY <1>1, <1>9 DEF CreateApp, Refresh, Enter
<1>10. CASE \E h \in Handlers, sw \in {"none", "offline", "live"}, follow \in BOOLEAN :
               SetMode(h, sw, follow)
  BY <1>1, <1>10 DEF SetMode, Enter
<1>11. CASE NewProcess
  BY <1>1, <1>11 DEF NewProcess
<1>12. CASE UNCHANGED feedVars
  BY <1>1, <1>12 DEF feedVars
<1> QED
  BY <1>8, <1>9, <1>10, <1>11, <1>12 DEF FeedNext

LEMMA FeedStands == FeedSpec => []FeedInv
<1>1. FeedInv /\ [FeedNext]_feedVars => FeedInv'
  BY FeedInvStays
<1>2. FeedInit => FeedInv
  BY FeedBegins
<1> QED
  BY <1>1, <1>2, PTL DEF FeedSpec

\* The variables have their types, a change of mode without company leaves the
\* substrate of the switch, and the cache is one poll with its clocks in UTC,
\* for any threads, polls, failing writes and crashes (feed.py).
THEOREM FeedStaysSound == FeedSpec => []FeedIsSound
BY FeedStands, FeedHolds, PTL

\* A handler that saw the switch offline from its beginning on never opens a
\* socket, however the switch flips under the others (feed.py, fetch_live).
THEOREM OfflineIsSilent == FeedSpec => []OfflineSendsNothing
BY FeedStands, FeedHolds, PTL

\* A handler without company leaves rows, as-of, label and serving that belong
\* together, whatever others left behind before it (feed.py, refresh).
THEOREM AloneSpeaksTrue == FeedSpec => []AloneItSpeaksTrue
BY FeedStands, FeedHolds, PTL

\* Only company can tear the cache: with one handler at work no step, crash or
\* failing write takes a whole one away (feed.py, write_snapshot).
THEOREM CacheStaysWhole == FeedSpec => CacheIsWhole
<1>1. FeedInv /\ [FeedNext]_feedVars => [Whole /\ (\A h \in Busy : alone[h]) => Whole']_feedVars
  BY WholeStays
<1> QED
  BY <1>1, FeedStands, PTL DEF FeedSpec, CacheIsWhole

=============================================================================
