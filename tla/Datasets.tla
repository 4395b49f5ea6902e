------------------------------- MODULE Datasets -------------------------------
(***************************************************************************)
(* What data the federation stands on: each component loads its declared   *)
(* registry at boot and on request, whole or not at all, and shows why one *)
(* was refused; helm asks every component in turn and answers found, no    *)
(* such dataset, or cannot tell.  Registries are reloaded, components die  *)
(* and calls are lost between two of helm's reads.                         *)
(***************************************************************************)
EXTENDS Integers, SequencesExt

CONSTANTS
    Components,     \* COMPONENTS, the sequence helm reads
    Attached,       \* those that are built and attach_datasets
    Ledgered,       \* those that pass a ledger: throughline
    Declared,       \* declared_datasets.yaml: component -> entries, of some
    Documents,      \* what a registry file may say
    FirstDocument,  \* what every file says at first
    SomeIds,        \* dataset ids asked for
    Lookups,        \* reads helm is asked for
    MaxWrites, MaxLosses, MaxDeaths   \* bounds: files written, calls lost, kills

Names == ToSet(Components)

ASSUME DatasetsAssumption ==
    /\ Components \in Seq(Names) /\ Components # <<>>
    /\ Ledgered \subseteq Attached /\ Attached \subseteq Names
    /\ DOMAIN Declared \subseteq Names
    /\ \A doc \in Documents \cup {FirstDocument} : doc.entries \in Seq(ToSet(doc.entries))
    /\ MaxWrites \in Nat /\ MaxLosses \in Nat /\ MaxDeaths \in Nat

VARIABLES
    file,      \* component -> its registry file
    serving,   \* component -> whether its process answers
    running,   \* component -> dataset_registry_store.current
    refusal,   \* component -> dataset_refusal on display, a policy or "none"
    recorded,  \* component -> its last config.loaded of datasets since boot
    reading,   \* lookup -> what is asked and the blocks read so far
    answered,  \* lookup -> what helm answered
    settled,   \* lookups since whose start no registry, process or call broke
    writes, losses, deaths

registryVars == <<file, serving, running, refusal, recorded, reading, answered,
                  settled, writes, losses, deaths>>
storeVars  == <<running, refusal, recorded>>
lookupVars == <<reading, answered>>

-----------------------------------------------------------------------------
(* A registry file                                                         *)

\* parse_registry's checks of the i-th entry, in order: the policy and
\* whether the entry breaks it.
Checks(es, i) ==
    LET e == es[i] IN
    << [policy |-> "dataset-entry-shape",
        broken |-> e.id = "" \/ (\E k \in 1..i-1 : es[k].id = e.id) \/ ~e.named],
       [policy |-> "dataset-licence-required",    broken |-> ~e.licence],
       [policy |-> "dataset-provenance-required", broken |-> ~e.provenance],
       [policy |-> "dataset-mode-must-be-known",
        broken |-> e.mode \notin {"live", "cached", "fixture", "declared-unavailable"}],
       [policy |-> "dataset-entry-shape",
        broken |-> \/ e.kind \notin {"real", "synthetic"}
                   \/ e.availability \notin {"available", "unavailable", "degraded"}],
       [policy |-> "cached-dataset-must-carry-as-of",
        broken |-> e.mode = "cached" /\ ~e.as_of],
       [policy |-> "no-availability-claim-without-evidence",
        broken |-> \/ e.mode = "fixture" /\ e.kind # "synthetic"
                   \/ e.mode = "declared-unavailable" /\ e.availability # "unavailable"
                   \/ e.mode = "cached" /\ e.availability = "available" /\ ~e.offline_cache],
       [policy |-> "dataset-entry-shape", broken |-> ~e.counted] >>

Least(S) == CHOOSE n \in S : \A m \in S : n <= m

Broken(es, i) == LET checks == Checks(es, i) IN {n \in 1..8 : checks[n].broken}

Policy(es, i) == Checks(es, i)[Least(Broken(es, i))].policy

\* Mutant: an id declared twice is let through, the later entry winning by_id.
VerdictTwice(es) ==
    LET bad == {i \in DOMAIN es : Broken(<<es[i]>>, 1) # {}}
    IN  IF bad = {} THEN "none" ELSE Policy(<<es[Least(bad)]>>, 1)

\* The policy of the first broken check of the first broken entry.
Verdict(es) ==
    LET bad == {i \in DOMAIN es : Broken(es, i) # {}}
    IN  IF bad = {} THEN "none" ELSE Policy(es, Least(bad))

\* load_registry of a path inside the allowlist.
Load(doc) ==
    IF doc.form # "list" THEN "dataset-entry-shape" ELSE
    IF Verdict(doc.entries) # "none" THEN Verdict(doc.entries) ELSE
    IF doc.versioned THEN "none" ELSE "dataset-entry-shape"

Empty == [declared |-> FALSE, entries |-> <<>>]
Registry(doc) == [declared |-> TRUE, entries |-> doc.entries]

-----------------------------------------------------------------------------
(* A component                                                             *)

Disturbed == settled' = {}

WriteFile(c, doc) ==
    /\ writes < MaxWrites /\ writes' = writes + 1
    /\ file[c] # doc /\ file' = [file EXCEPT ![c] = doc]
    /\ UNCHANGED <<serving, storeVars, lookupVars, settled, losses, deaths>>

\* Mutant: a refused candidate replaces the registry up to its bad entry.
KeptPart(c, doc) ==
    [declared |-> TRUE,
     entries |-> SelectSeq(doc.entries, LAMBDA e : Verdict(<<e>>) = "none")]

\* What runs after a refused reload.
Kept(c, doc) == running[c]

\* DatasetRegistryStore.reload: the swap comes before its line, so a failed
\* append raises with the new registry in place and the old refusal on show.
Reloads(c, doc, written) ==
    LET verdict == Load(doc) IN
    /\ running' = [running EXCEPT ![c] = IF verdict = "none" THEN Registry(doc) ELSE Kept(c, doc)]
    /\ refusal' = [refusal EXCEPT ![c] = IF written THEN verdict ELSE @]
    /\ recorded' = [recorded EXCEPT ![c] = IF written /\ verdict = "none"
                                           THEN Registry(doc) ELSE @]

Appended(c, written) ==
    IF written THEN UNCHANGED losses
    ELSE c \in Ledgered /\ losses < MaxLosses /\ losses' = losses + 1

\* POST /datasets/reload of the component's own path.
Reload(c, written) ==
    /\ serving[c]
    /\ Appended(c, written)
    /\ Reloads(c, file[c], written)
    /\ Disturbed
    /\ UNCHANGED <<file, serving, lookupVars, writes, deaths>>

\* ... or of a path outside the allowlist: 403, and nothing read.
ReloadOutside(c, written) ==
    /\ serving[c]
    /\ Appended(c, written)
    /\ refusal' = [refusal EXCEPT ![c] = IF written THEN "config-source-must-be-allowlisted" ELSE @]
    /\ UNCHANGED <<file, serving, running, recorded, lookupVars, settled, writes, deaths>>

\* Mutant: a registry nobody declared is no refusal.
UndeclaredPassed == "none"

Undeclared == "dataset-registry-must-exist"

\* attach_datasets on a fresh store.  A failed append stops the boot.
Boot(c) ==
    /\ ~serving[c] /\ c \in Attached
    /\ serving' = [serving EXCEPT ![c] = TRUE]
    /\ IF file[c].form = "missing"
       THEN /\ refusal' = [refusal EXCEPT ![c] = Undeclared]
            /\ UNCHANGED <<running, recorded>>
       ELSE Reloads(c, file[c], TRUE)
    /\ Disturbed
    /\ UNCHANGED <<file, lookupVars, writes, losses, deaths>>

\* Mutant: a process that comes back starts from the registry it last ran.
AfterDeathKept(c) == running[c]

\* The store of a process that is gone is the empty one the next starts with.
AfterDeath(c) == Empty

Die(c) ==
    /\ serving[c] /\ deaths < MaxDeaths /\ deaths' = deaths + 1
    /\ serving' = [serving EXCEPT ![c] = FALSE]
    /\ running' = [running EXCEPT ![c] = AfterDeath(c)]
    /\ refusal' = [refusal EXCEPT ![c] = "none"]
    /\ recorded' = [recorded EXCEPT ![c] = Empty]
    /\ Disturbed
    /\ UNCHANGED <<file, lookupVars, writes, losses>>

-----------------------------------------------------------------------------
(* helm's federated view                                                   *)

Block(c, reachable, declared, es) ==
    [component |-> c, reachable |-> reachable, declared_only |-> declared, datasets |-> es]

\* Mutant: a component that does not answer has no datasets.
FallbackToNone(c) == Block(c, FALSE, TRUE, <<>>)

\* _declared: what the declaration file says, or unknown.
Fallback(c) ==
    IF c \in DOMAIN Declared THEN Block(c, FALSE, TRUE, Declared[c])
    ELSE Block(c, FALSE, FALSE, <<>>)

\* Mutant: only a live read counts as knowing.
KnownLive(b) == b.reachable

Known(b) == b.reachable \/ b.declared_only

Unread(blocks) == {i \in DOMAIN blocks : ~Known(blocks[i])}

\* locate: where the entries of that id are, and the first in display order.
Hits(blocks, id) ==
    {p \in UNION {{i} \X DOMAIN blocks[i].datasets : i \in DOMAIN blocks} :
        blocks[p[1]].datasets[p[2]].id = id}

FirstHit(hits) ==
    CHOOSE p \in hits : \A o \in hits : p[1] < o[1] \/ (p[1] = o[1] /\ p[2] <= o[2])

\* summary's status, and its total of what is known.
Summary(blocks) ==
    [status |-> IF Unread(blocks) = {} THEN "complete"
                ELSE IF Unread(blocks) = DOMAIN blocks THEN "unknown" ELSE "partial",
     total  |-> Len(FlattenSeq([i \in DOMAIN blocks |-> blocks[i].datasets]))]

\* A page, the clerk's get_dataset, or the whole list begins to read.
AskHelm(q, what, id) ==
    /\ reading[q].what = "nothing"
    /\ reading' = [reading EXCEPT ![q] = [what |-> what, id |-> id, blocks |-> <<>>]]
    /\ settled' = settled \cup {q}
    /\ UNCHANGED <<file, serving, storeVars, answered, writes, losses, deaths>>

\* for_component of the next one: its GET /datasets, or what was declared.
Read(q, heard) ==
    LET n == Len(reading[q].blocks) + 1
        c == Components[n]
    IN  /\ reading[q].what # "nothing" /\ n <= Len(Components)
        /\ heard => serving[c]
        /\ IF heard \/ ~serving[c] THEN UNCHANGED <<losses, settled>>
           ELSE /\ losses < MaxLosses /\ losses' = losses + 1
                /\ settled' = settled \ {q}
        /\ reading' = [reading EXCEPT ![q].blocks =
               Append(@, IF heard THEN Block(c, TRUE, FALSE, running[c].entries) ELSE Fallback(c))]
        /\ UNCHANGED <<file, serving, storeVars, answered, writes, deaths>>

\* Mutant: find's None is told as a definite absence.
AbsentAlways(blocks) == 404

\* An absence is asserted only if every registry was read or declared.
Absent(blocks) == IF Unread(blocks) = {} THEN 404 ELSE 503

\* The answer, from the blocks alone.  warrant says whether it knows the
\* dataset's owners; it cannot while throughline is away.
Answer(q, owners) ==
    LET r == reading[q]
        hits == Hits(r.blocks, r.id)
        hit == FirstHit(hits)
        status == IF r.what = "list"
                  THEN IF Summary(r.blocks).status = "unknown" THEN 503 ELSE 200
                  ELSE IF hits = {} THEN Absent(r.blocks)
                  ELSE IF r.what = "page" /\ ~owners THEN 503 ELSE 200
    IN  /\ Len(r.blocks) = Len(Components) /\ answered[q].status = 0
        /\ owners => \E c \in Ledgered : serving[c]
        /\ answered' = [answered EXCEPT ![q] =
               [status |-> status, summary |-> Summary(r.blocks),
                entry |-> IF r.what = "list" \/ hits = {} THEN {}
                          ELSE {r.blocks[hit[1]].datasets[hit[2]]}]]
        /\ UNCHANGED <<file, serving, storeVars, reading, settled, writes, losses, deaths>>

RegistryInit ==
    /\ file = [c \in Names |-> FirstDocument]
    /\ serving = [c \in Names |-> FALSE]
    /\ running = [c \in Names |-> Empty]
    /\ refusal = [c \in Names |-> "none"]
    /\ recorded = [c \in Names |-> Empty]
    /\ reading = [q \in Lookups |-> [what |-> "nothing", id |-> "", blocks |-> <<>>]]
    /\ answered = [q \in Lookups |->
           [status |-> 0, summary |-> [status |-> "unknown", total |-> 0], entry |-> {}]]
    /\ settled = {} /\ writes = 0 /\ losses = 0 /\ deaths = 0

RegistryNext ==
    \/ \E c \in Attached : \/ \E doc \in Documents : WriteFile(c, doc)
                           \/ Boot(c) \/ Die(c)
                           \/ \E w \in BOOLEAN : Reload(c, w) \/ ReloadOutside(c, w)
    \/ \E q \in Lookups :
          \/ \E what \in {"page", "tool"}, id \in SomeIds : AskHelm(q, what, id)
          \/ AskHelm(q, "list", "")
          \/ \E b \in BOOLEAN : Read(q, b) \/ Answer(q, b)

RegistrySpec == RegistryInit /\ [][RegistryNext]_registryVars

-----------------------------------------------------------------------------
(* Properties                                                              *)

\* The variables have their types.
RegistryTypeOK ==
    /\ \A c \in Names : /\ serving[c] => c \in Attached
                        /\ ~running[c].declared => running[c] = Empty
                        /\ serving[c] \/ running[c] = Empty
    /\ \A q \in Lookups : /\ answered[q].status \in {0, 200, 404, 503}
                          /\ Len(reading[q].blocks) <= Len(Components)

\* A dataset id in a registry that runs names one entry, so that the component
\* (by_id, the last) and helm (the first) say the same of it.
OneEntryPerId ==
    \A c \in Names : \A i, k \in DOMAIN running[c].entries :
        running[c].entries[i].id = running[c].entries[k].id => i = k

\* A component that stands on no registry says why, whatever was loaded,
\* refused, killed and booted before (attach_datasets: "an EMPTY registry and
\* the refusal on display").
EmptyIsExplained ==
    \A c \in Names : serving[c] /\ ~running[c].declared => refusal[c] # "none"

\* The registry in force is the one whose load is the last on the chain, or a
\* line could not be written (datasets.py, DatasetRegistryStore).
RegistryIsLedgered ==
    \A c \in Ledgered : losses = 0 => recorded[c] = running[c]

\* What a component that answers holds of a dataset, or else what is declared
\* of it; nothing if nobody can say.
Tells(c, id) ==
    \E e \in ToSet(IF serving[c] THEN running[c].entries
                   ELSE IF c \in DOMAIN Declared THEN Declared[c] ELSE <<>>) : e.id = id

CanTell(c) == serving[c] \/ c \in DOMAIN Declared

\* If nothing broke in while helm read, "no such dataset" is told only where
\* every component was in a position to say so, and "cannot tell" only where
\* one was not or the owners are unknown (datasets.py: "An absence is a fact
\* only when every registry was actually read").
AbsenceIsEstablished ==
    \A q \in settled :
        LET told == answered[q].status
            r == reading[q]
        IN  (told # 0 /\ r.what # "list") =>
               /\ told = 404 => \A c \in Names : CanTell(c) /\ ~Tells(c, r.id)
               /\ told = 503 => \/ r.what = "page" /\ \E c \in Names : Tells(c, r.id)
                                \/ \E c \in Names : ~CanTell(c)
               /\ answered[q].entry # {} => \E c \in Names : Tells(c, r.id)

\* Whatever broke in: a list that calls itself complete counts every component
\* that was read or declared, and one that nobody contributed to is a 503, not
\* an empty federation (datasets_routes.py: "an empty list is a claim, and we
\* do not have one to make").
CountsAreWhole ==
    \A q \in Lookups :
        LET bs == reading[q].blocks IN
        (answered[q].status # 0 /\ reading[q].what = "list") =>
           /\ answered[q].summary.status = "complete" <=>
                 \A i \in DOMAIN bs : bs[i].reachable \/ bs[i].component \in DOMAIN Declared
           /\ answered[q].status = 503 <=>
                 \A i \in DOMAIN bs : ~bs[i].reachable /\ bs[i].component \notin DOMAIN Declared

\* The variables have their types, an id names one entry, an empty registry is
\* explained and the one in force is ledgered, through refused reloads, failed
\* lines, kills and boots (DatasetRegistryStore, attach_datasets).
RegistriesAreSound ==
    RegistryTypeOK /\ OneEntryPerId /\ EmptyIsExplained /\ RegistryIsLedgered

\* helm asserts an absence, an uncertainty or a count only where the registries
\* bear it out (FederatedDatasets.locate, summary).
LookupsAreHonest == AbsenceIsEstablished /\ CountsAreWhole
===============================================================================
