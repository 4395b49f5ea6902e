------------------------------- MODULE Config -------------------------------
(***************************************************************************)
(* throughline's effect registry: POST /config/reload, the check that a    *)
(* candidate loosens nothing, the hold at the gate when it does, and the   *)
(* executor that applies what a human released.  The gate itself is seen   *)
(* as Release sees it, an approval that can be given or refused once; its  *)
(* own failures are in Gate.                                               *)
(*                                                                         *)
(* A hold suspends in Relay before its candidate is staged, a release      *)
(* suspends in Relay before the executor runs; everything else in between  *)
(* is one step of the event loop.                                          *)
(***************************************************************************)
EXTENDS Naturals, Sequences, FiniteSets

CONSTANTS
    Types,            \* effect types the registry may name
    Files,            \* the documents a reload may be pointed at
    BootFiles,        \* the documents a boot may find at config_path
    MaxPending,       \* Gate.max_pending_duplicates
    MaxHolds,         \* bound: holds
    MaxFaults,        \* bound: failed appends of config.loaded
    MaxCrashes        \* bound: crashes

\* A rule: reversible and auto-executing, reversible and held, irreversible;
\* or refused, because irreversible and auto-executing or of no known class.
Classes == {"auto", "held", "irreversible"}
Rules   == [type : Types, class : Classes \cup {"unsafe", "unknown"}]

ASSUME ConfigAssumption ==
    /\ \A f \in Files \cup BootFiles :
          /\ f.rules \in Seq(Rules)
          /\ f.allowed \in BOOLEAN
    /\ BootFiles # {}
    /\ MaxPending \in Nat \ {0}
    /\ MaxHolds \in Nat
    /\ MaxFaults \in Nat
    /\ MaxCrashes \in Nat

VARIABLES
    running,    \* ConfigStore._current, by effect type
    recorded,   \* the registry of the last config.loaded in the chain
    refusal,    \* Substrate.boot_refusal is set
    staged,     \* Substrate._staged_configs: key -> file, where there is one
    holds,      \* the candidates held at the gate, with what they loosen
    answers,    \* hold -> pending, approved or rejected
    held,       \* holds whose reload handler is suspended in Relay
    releasing,  \* holds whose release is suspended in Relay
    outcome,    \* hold -> what its release did: none, noop, blocked, applied
    applied,    \* hold -> the file its release applied, as <<file>>, or <<>>
    up, faults, crashes

gate == <<holds, answers, held, releasing, outcome, applied>>
vars == <<running, recorded, refusal, staged, gate, up, faults, crashes>>

Holds == DOMAIN holds

-----------------------------------------------------------------------------
\* Mutant: the refusal of irreversible auto-executing rules is lost.
AcceptedUnsafe(f) ==
    \A i \in DOMAIN f.rules : f.rules[i].class # "unknown"

Accepted(f) == \A i \in DOMAIN f.rules : f.rules[i].class \in Classes

\* by_effect_type: a later rule for a type replaces an earlier one.
RegistryOf(f) ==
    [t \in Types |->
        LET at == {i \in DOMAIN f.rules : f.rules[i].type = t} IN
        IF at = {} THEN "none"
        ELSE f.rules[CHOOSE i \in at : \A j \in at : j <= i].class]

\* Mutant: a type the registry never heard of is nothing to be loosened.
DowngradesRegistered(f) ==
    {t \in Types : \E i \in DOMAIN f.rules :
        /\ f.rules[i].type = t
        /\ f.rules[i].class \in {"auto", "held"}
        /\ running[t] = "irreversible"}

\* The types f would make reversible that the running registry does not.
Downgrades(f) ==
    {t \in Types : \E i \in DOMAIN f.rules :
        /\ f.rules[i].type = t
        /\ f.rules[i].class \in {"auto", "held"}
        /\ running[t] \in {"none", "irreversible"}}

\* Mutant: the version is left out of the digest.
KeyBySource(f) == f.source

\* The effect id of a hold is a digest of source and version.
Key(f) == <<f.source, f.version>>

PendingMatching(f) ==
    {n \in Holds : /\ answers[n] = "pending"
                   /\ holds[n].file.source = f.source
                   /\ holds[n].types = Downgrades(f)}

-----------------------------------------------------------------------------
(* POST /config/reload                                                     *)

\* ConfigStore.apply swaps first and appends config.loaded then; on is what
\* the caller does once the append is down.
Load(f, on) ==
    /\ running' = RegistryOf(f)
    /\ \/ recorded' = RegistryOf(f) /\ on /\ UNCHANGED faults
       \/ /\ faults < MaxFaults
          /\ faults' = faults + 1
          /\ UNCHANGED <<recorded, refusal>>

\* Mutant: the rules read before the refused one become active.
RefuseHalfApplied(f) ==
    LET read == {i \in DOMAIN f.rules : \A j \in 1..i : f.rules[j].class \in Classes} IN
    /\ up
    /\ ~(f.allowed /\ Accepted(f))
    /\ refusal' = TRUE
    /\ running' = RegistryOf([f EXCEPT !.rules = SubSeq(@, 1, Cardinality(read))])
    /\ UNCHANGED <<recorded, staged, gate, up, faults, crashes>>

Refuse(f) ==
    /\ up
    /\ ~(f.allowed /\ Accepted(f))
    /\ refusal' = TRUE
    /\ UNCHANGED <<running, recorded, staged, gate, up, faults, crashes>>

Reload(f) ==
    /\ up
    /\ f.allowed /\ Accepted(f)
    /\ Downgrades(f) = {}
    /\ Load(f, refusal' = FALSE)
    /\ UNCHANGED <<staged, gate, up, crashes>>

\* The candidate goes to the gate; past the cap on near-duplicates the gate
\* refuses it and the reload ends in an error.
Hold(f) ==
    /\ up
    /\ f.allowed /\ Accepted(f)
    /\ Downgrades(f) # {}
    /\ Cardinality(PendingMatching(f)) < MaxPending
    /\ Len(holds) < MaxHolds
    /\ holds' = Append(holds, [file |-> f, types |-> Downgrades(f)])
    /\ answers' = Append(answers, "pending")
    /\ outcome' = Append(outcome, "none")
    /\ applied' = Append(applied, <<>>)
    /\ held' = held \cup {Len(holds) + 1}
    /\ UNCHANGED <<running, recorded, refusal, staged, releasing, up, faults, crashes>>

\* gate.submit returns: the candidate is staged under the effect's id.
Stage(n) ==
    /\ up
    /\ n \in held
    /\ held' = held \ {n}
    /\ staged' = [k \in DOMAIN staged \cup {Key(holds[n].file)} |->
                     IF k = Key(holds[n].file) THEN holds[n].file ELSE staged[k]]
    /\ UNCHANGED <<running, recorded, refusal, holds, answers, releasing,
                   outcome, applied, up, faults, crashes>>

-----------------------------------------------------------------------------
(* The decision and the executor                                           *)

Approve(n) ==
    /\ up
    /\ answers[n] = "pending"
    /\ answers' = [answers EXCEPT ![n] = "approved"]
    /\ releasing' = releasing \cup {n}
    /\ UNCHANGED <<running, recorded, refusal, staged, holds, held, outcome,
                   applied, up, faults, crashes>>

Reject(n) ==
    /\ up
    /\ answers[n] = "pending"
    /\ answers' = [answers EXCEPT ![n] = "rejected"]
    /\ UNCHANGED <<running, recorded, refusal, staged, holds, held, releasing,
                   outcome, applied, up, faults, crashes>>

\* Substrate._execute_effect with nothing staged under the effect's id.
ExecuteNothing(n) ==
    /\ up
    /\ n \in releasing
    /\ Key(holds[n].file) \notin DOMAIN staged
    /\ releasing' = releasing \ {n}
    /\ outcome' = [outcome EXCEPT ![n] = "noop"]
    /\ UNCHANGED <<running, recorded, refusal, staged, holds, answers, held,
                   applied, up, faults, crashes>>

\* The staged candidate is popped and applied.  An append that raises comes
\* back through Relay as a rejection: the effect is blocked.
Execute(n) ==
    LET k == Key(holds[n].file) IN
    /\ up
    /\ n \in releasing
    /\ k \in DOMAIN staged
    /\ releasing' = releasing \ {n}
    /\ staged' = [j \in DOMAIN staged \ {k} |-> staged[j]]
    /\ applied' = [applied EXCEPT ![n] = <<staged[k]>>]
    /\ Load(staged[k], refusal' = FALSE)
    /\ outcome' = [outcome EXCEPT ![n] =
                      IF faults' = faults THEN "applied" ELSE "blocked"]
    /\ UNCHANGED <<holds, answers, held, up, crashes>>

-----------------------------------------------------------------------------
(* Boot: the operator's file is the baseline, whatever it says; a refused  *)
(* one leaves the registry empty.  What was staged is gone.                *)

Empty == [t \in Types |-> "none"]

Crash ==
    /\ up
    /\ crashes < MaxCrashes
    /\ crashes' = crashes + 1
    /\ up' = FALSE
    /\ staged' = <<>>
    /\ held' = {}
    /\ releasing' = {}
    /\ UNCHANGED <<running, recorded, refusal, holds, answers, outcome,
                   applied, faults>>

Boot(f) ==
    /\ ~up
    /\ up' = TRUE
    /\ running' = IF Accepted(f) THEN RegistryOf(f) ELSE Empty
    /\ recorded' = IF Accepted(f) THEN RegistryOf(f) ELSE recorded
    /\ refusal' = ~Accepted(f)
    /\ UNCHANGED <<staged, gate, faults, crashes>>

Init ==
    /\ running = Empty
    /\ recorded = Empty
    /\ refusal = FALSE
    /\ staged = <<>>
    /\ holds = <<>>
    /\ answers = <<>>
    /\ held = {}
    /\ releasing = {}
    /\ outcome = <<>>
    /\ applied = <<>>
    /\ up = FALSE
    /\ faults = 0
    /\ crashes = 0

Next ==
    \/ \E f \in Files : Refuse(f) \/ Reload(f) \/ Hold(f)
    \/ \E n \in Holds : Stage(n) \/ Approve(n) \/ Reject(n)
    \/ \E n \in Holds : ExecuteNothing(n) \/ Execute(n)
    \/ Crash
    \/ \E f \in BootFiles : Boot(f)

Spec == Init /\ [][Next]_vars

-----------------------------------------------------------------------------
(* Properties                                                              *)

\* The values the variables take.
TypeOK ==
    /\ running \in [Types -> Classes \cup {"none"}]
    /\ recorded \in [Types -> Classes \cup {"none"}]
    /\ refusal \in BOOLEAN
    /\ \A k \in DOMAIN staged : staged[k] \in Files /\ Key(staged[k]) = k
    /\ holds \in Seq([file : Files, types : SUBSET Types])
    /\ answers \in [Holds -> {"pending", "approved", "rejected"}]
    /\ held \subseteq Holds
    /\ releasing \subseteq Holds
    /\ outcome \in [Holds -> {"none", "noop", "blocked", "applied"}]
    /\ \A n \in Holds : applied[n] \in {<<>>} \cup {<<f>> : f \in Files}
    /\ up \in BOOLEAN
    /\ faults \in 0..MaxFaults
    /\ crashes \in 0..MaxCrashes

Loosened(t) == running[t] \in {"none", "irreversible"} /\ running'[t] \in {"auto", "held"}

Releases(n) == answers[n] = "approved" /\ applied[n] = <<>> /\ applied'[n] # <<>>

\* While the service is up no type becomes reversible but by the executor,
\* for a hold a human approved and by a document that says so of that type,
\* whatever reloads, boots and failed appends came between (README, "Who may
\* change what the gate holds").
LooseningIsReleased ==
    [][up => \A t \in Types : Loosened(t) =>
               \E n \in Holds : /\ Releases(n)
                                /\ RegistryOf(applied'[n][1])[t] \in {"auto", "held"}]_vars

SameVersion(f, g) == f.source = g.source /\ f.version = g.version

\* What a release applies was held at the gate, and staged, under the source and
\* version that were approved, and is applied on an approval only.  A version
\* may name two documents, as it defaults to 1: the one held last under it is
\* applied then (_staged_configs).
AppliedAsApproved ==
    \A n \in Holds : applied[n] # <<>> =>
        /\ answers[n] = "approved"
        /\ \E m \in Holds \ held :
              SameVersion(holds[m].file, holds[n].file) /\ applied[n] = <<holds[m].file>>

\* What is applied is the document that was held under the approval
\* (throughline/README.md:204, "Approving it applies the config; rejecting it
\* does not").  It is not, once a second document of the same source and version
\* was held meanwhile.
HeldIsApplied ==
    \A n \in Holds : applied[n] # <<>> => applied[n] = <<holds[n].file>>

\* Approving a held candidate applies it, or fails doing so (README:
\* "Approving it applies the config; rejecting it does not").  It does neither
\* after a restart.
ApprovedApplies == \A n \in Holds : outcome[n] # "noop"

\* As long as no append of config.loaded failed, the registry in force is the
\* one the chain says was loaded last, or, when the boot file was refused, the
\* empty one (ConfigStore.apply).
RunningIsRecorded ==
    up /\ faults = 0 => running = recorded \/ (refusal /\ running = Empty)

\* The variables have their types, and the registry in force is the one last
\* ledgered (ConfigStore.apply).
RegistryIsRecorded == TypeOK /\ RunningIsRecorded

=============================================================================
