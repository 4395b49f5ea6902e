# Verification of nemotron-city-os

The repository is five cooperating services that let AI components *propose*
effects on a city and let a human *release* the irreversible ones.
**throughline** (8600) is the substrate: a hash-chained ledger, a registry of
effect rules, an approval queue and the effect gate. **docket** (8601),
**breaker** (8602) and **siren** (8603) are producers that post signals,
judgments and effects to it. **helm** (8610) is the console: people log in,
read the chain and decide approvals; its *warrant* part turns the chain into a
permission graph and its *nemoclerk* part is an agent that may not release.

This directory models that behaviour in TLA+, checks it with TLC on small
instances, and proves the results that matter most with TLAPS for every value
of the constants. Paths below are relative to `src/`.

- [1. Inventory](#1-inventory)
- [2. Modules and how they correspond to the code](#2-modules-and-how-they-correspond-to-the-code)
- [3. Runs](#3-runs)
- [4. Where code and documentation part](#4-where-code-and-documentation-part)
- [5. Proofs](#5-proofs)
- [6. Abstractions, and what is not modelled](#6-abstractions-and-what-is-not-modelled)
- [7. Plan](#7-plan)

To run: `tlc -workers 2 -config GateFaults.cfg MCGate`, `tlapm GateProofs.tla`;
`PROJECT.json` lists every run with its module, every theorem, every hazard,
and the source lines of every definition.

## 1. Inventory

### throughline (`throughline/throughline/`)

| part | state | operations | what is hard |
|---|---|---|---|
| gate (`gate.py`) | `_effects` by effect id; the Effect objects handlers hold | `submit`, `decide`, `_execute`, `_restore` | every ledger append can raise; the process can die between two durable writes; handlers suspend in Relay and others run meanwhile; one id, several submissions |
| approval queue (`approvals.py`) | `_items`, the JSON cache `approvals.json` | `enqueue`, `decide`, `pending_matching`, `_load` | two durable records (cache and chain) that can disagree; rebuilt at boot |
| Relay mirror (`relay.py`) | the registered guardrail | `execute` | calls back into the gate, turns exceptions into rejections |
| ledger (`ledger.py`) | the JSONL chain; a cached seq and head per process | `append`, `verify`, `read` | several processes on one file, torn tails, fsync, edits from outside |
| config (`config.py`, `service.py`) | running registry, staged candidates, boot refusal | stage, `downgrades`, `hold_config_downgrade`, `apply`, boot | checked against one registry and applied over another; staging is in memory only |
| HTTP (`app.py`) | none | handlers, error mapping | what a caller is told after a partial failure |
| walk (`walk.py`) | none | `walk_effect` | hops joined by ids in lines anybody could have edited |
| dataset registries (`datasets.py`, `datasets_api.py`; every component attaches one) | the registry in force, the refusal on display | `parse_registry`, reload, boot | swapped before the line is appended; a refused one must change nothing |
| redaction, CLI | none | strings on the way out | |

Correct means: nothing held runs without a recorded human decision, nothing
runs before it is in the chain, each approval is good for one run, a crash or a
failed write loses no hold and no decision, the chain is one chain and verify
names an edit, the registry is loosened by a release only, and a walk whose
hops verify names the judgment an effect came from.

### breaker (`breaker/breaker/`)

| part | state | operations | what is hard |
|---|---|---|---|
| GridWatch (`engine.py`) | `history`, `evaluations`, `proposals`, `dispatches`, its own `ledger` | `ingest`, `decide`, `refresh` | readings in any order; a lost answer to a post or a decision; decisions given at the gate's own surface; restarts with empty memory; a withdrawal the gate does not hear of |
| rule and judges (`rule.py`, `judge.py`, `substrates.py`) | verdict cache, the active substrate | `evaluate`, `judge`, select | a judge that abstains, the substrate switched between readings |
| client (`throughline.py`, `app.py`, `service.py`) | real or mock, chosen at boot | HTTP calls, error mapping | what is claimed when no answer came |

Correct means: no dispatch without a human's approval of its own, none lost that
was released, one event and one approval for one divergence.

### siren (`siren/siren/`)

| part | state | operations | what is hard |
|---|---|---|---|
| feed (`feed.py`) | `FeedState` (rows, as-of, serving, label), the offline switch, the snapshot file and its temporary one | `refresh`, `status`, `set_offline`, `write_snapshot`, migration | handlers run in a thread pool over unsynchronised state; a live fetch in flight at the switch to offline; two writers of one temporary file |
| hot reload (`reload.py`, `service.py`) | `registered_classes`, the last drop | `drop` | a drop held at the gate and released later; the file read twice; a lost answer |
| substrate | mock or real | select, `emit` | follows the switch unless asked not to |

Correct means: rows never appear under another fetch's provenance, offline
opens no socket, what is shown as registered was in force.

### docket (`docket/docket/`)

| part | state | operations | what is hard |
|---|---|---|---|
| judge (`judge.py`) | none | `judge_permit` | at most two attempts, abstention when the quote does not verify |
| quotes (`quotes.py`) | none | `verify_quote` | white space and digit groups normalised, but not inside quotations |
| routing, app (`routing.py`, `app.py`) | in-memory judgments, one substrate client | judge, route | three calls, any of which fails or loses its answer; a repeated route |

Correct means: nothing published is uncited, an honest span is not rejected, an
abstention has no effect, and an effect walks back to its sentence.

### helm (`helm/helm/`)

| part | state | operations | what is hard |
|---|---|---|---|
| login (`oidc.py`, `signet.py`, `attest.py`) | pending logins, key cache, sessions, `roles.json` and its copy in memory | start, callback, refresh of keys, role changes | a login completed once and in time; keys rotated; rows read, changed and written back by several requests |
| warrant (`warrant/`) | none of its own: a graph projected from the chain | claim, grant, revoke, delegate, break-glass, sweeps | guards on one snapshot, writes on a later chain; quorum; expiry by the clock; the last administrator |
| console (`app.py`, `console.py`, `views.py`, `clients.py`) | a caller token, a health cache | decide, reload a class, reads | what is told of a call whose answer got lost |
| nemoclerk (`nemoclerk/`) | the ladder of models, one "current server", sessions, replay cache | a turn: tools, probes, the ledgered line | turns share one object; sign-out meanwhile |
| datasets (`datasets.py`, `datasets_routes.py`) | none | federated read, the page, the clerk's tool | registries read one after another while they are reloaded and die |

Correct means: an agent releases nothing, what is told happened, an answer names the model that served it, a session names who signed in, authority
is widened at the gate only, and an absence is told only where it was
established.

### How they interact

Producers and the console call throughline over HTTP; every call and every
answer can be lost. The gate calls Relay, which calls back the executor. The
ledger file is shared by every process opened on the same directory, under a
file lock. warrant and nemoclerk write only through throughline and read its
chain. siren's hot reload is throughline's `POST /config/reload`. helm reads
the dataset registries of all components.

## 2. Modules and how they correspond to the code

| module | models | role |
|---|---|---|
| `Gate` | `gate.py`, `approvals.py`, `relay.py`, the handlers of `app.py`, `service.py`'s boot | the gate, one step per durable write |
| `Release` | what the gate promises its callers | abstract specification |
| `GateRefinement` | | the mapping from `Gate` to `Release` |
| `Ledger` | `ledger.py`, the boot's verify and alarm | the file, its lock and the processes on it |
| `Config` | `config.py`, `service.py`'s hold, stage and executor, `/config/reload` | the registry and who may loosen it |
| `HotReload` | siren's `reload.py` and its call | extends `Config`: throughline with siren as a caller |
| `GridWatch` | `engine.py` and the gate as breaker sees it | a producer and what is lost between it and the gate |
| `Feed` | siren's `feed.py`, `service.py` | threads over one unsynchronised state and one file |
| `Warrant` | `warrant/` | authority as a fold of the chain, requests that overlap |
| `Signet` | `oidc.py`, `signet.py` | logins, keys, and the role table |
| `Console` | `console.py`, `clients.py`, the routes that decide | who decides and what is told |
| `NemoClerk` | `nemoclerk/` | extends `Console`: the clerk's turns as callers of the desk |
| `Quotes` | `quotes.py` | operators over characters |
| `Walk` | `walk.py` | an operator over the chain |
| `Docket` | `judge.py`, `routing.py`, docket's `app.py` | extends `Quotes` and `Walk`: judge, route, edit, walk |
| `Datasets` | `datasets.py`, `datasets_api.py`, helm's `datasets.py`, `datasets_routes.py` | the registries and helm's reading of them |
| `MCGate`, `MCLedger`, `MCHotReload`, `MCGridWatch`, `MCFeed`, `MCWarrant`, `MCSignet`, `MCNemoClerk`, `MCDocket` | | instances for TLC |
| `GateProofs`, `LedgerProofs`, `GridProofs`, `SignetProofs`, `WarrantProofs` | | theorems about the module of that name |
| `SirenProofs`, `ConsoleProofs`, `DocketProofs` | | theorems about `Config`, `HotReload` and `Feed`; `Console` and `NemoClerk`; `Datasets` and `Docket` |

**Gate.** throughline is one asyncio event loop and its only suspending await is
the call of Relay. `loop` is the coroutine that holds the loop and the write it
makes next; `parked` are the coroutines suspended in Relay. `submit` is
`Submit`, `Propose` and then `Execute`, or `Cap`, or `Enqueue` and `Queue`;
`decide` is `Decide`, `Decided`, `Reject` or `Approve`, `Execute`; Relay is
`Relay` (guardrail and callback), `Resume` and `Mirror`; the end of `_execute`
is `Settle`. Each names the one durable write it makes, so that `Crash` and
`LedgerFails` can come between any two. A submission is a number: it stands for
the Effect object and for the approval minted for it. `effects` maps an effect
id to the submission that last wrote its record, which is how an id posted
twice behaves in the code. `Restart` rebuilds queue and records as `_load` and
`_restore` do. `ran` and `told` record what the executor did and which callers
were answered 503; no action reads them.

**Ledger.** A process asks, locks, reads the tail under the lock, writes and
syncs; it can be killed in between, the machine can lose what no fsync covered,
and a write can be cut off. A line is a record with a digest of what it covers.

**Config and HotReload.** `Hold` puts a loosening candidate at the gate, `Stage`
is the rest of `hold_config_downgrade` after the await, `Approve` the decision,
`Execute` and `ExecuteNothing` the executor. `Load` is `ConfigStore.apply`: it
swaps first and appends then. `recorded` is the registry of the last
`config.loaded`. A drop of siren's is `Begin`, the pre-flight (against the mock
that is all there is), a call that throughline accepts, refuses, holds or does
not answer, `Record`, `Emit` and the second drop. `Elsewhere` is any other step
of throughline's. `loaded` only remembers what a drop put in force.

**GridWatch.** A handler of breaker blocks its only event loop, so one handler is
one step; a lost answer is an action of its own. `approvals` and `effects` are
the gate's, in the reduced form breaker can observe. `shed` counts dispatches
over all of breaker's lives. `recovered` remembers the latest tick at which a
window was judged not to diverge, from `history`; no action reads it.

**Feed.** A step is one read or write of something threads share: a check of the
switch, an assignment to one field of `FeedState`, one call on a file. Files are
inodes with names, so that a rename under another writer's feet does what it
does. Rows are known by the fetch that brought them and by how far their clocks
are off UTC. `saw`, `alone` and `last` remember who overlapped whom; no action
reads them. The names `FeedSpec`, `FeedTypeOK` and the like keep it apart from
`Config`, with which it shares a proof module.

**Warrant.** `auth` is the fold of the executed authz effects
(`projection.build`), so applying one entry more is one step (`Apply`). A verb
(`Claim`, `Grant`, ... `VoteBreakglass`, `Sweep`) reads a snapshot, guards on it
and leaves its entry in the worker's task; `Emit` writes it, `EnterBreakglass`
and `Release` are what follows of the same request, and every other request can
come between. `queue` is what the gate holds for a
human (`Held`): a promotion and the entry of a window by their registry rows, and a
delegation that lends the admin role by what its signal confers. The id of a request, a delegation
or a window is minted fresh, so no two requests under way carry one. `VotesOnce`
chooses whether somebody may send a second vote while the first is on its way.

**Signet.** `Begin`, `Callback` (which takes the pending login), `Exchange`,
`Verify`, `Resolve`, `Copy` and `Save` are the steps of one request between two
accesses to what others share. An administrator's change is `Ask`, `Copy`,
`Save`. `mem` and `disk` are the role table twice, because a write assigns the
first and may fail on the second.

**Console and NemoClerk.** A call is a thread: it fetches the queue, rules on
what it read (`RefusedHere`), forwards, and ledgers a refusal, with the request
or its answer lost at will. A turn of the clerk asks the ladder, calls a rung,
lets it choose tools, acts through the desk as the caller `"clerk"`, phrases
and ledgers. A question to approve takes something pending; a model that chooses the
tool names any id and either decision (`Attempts`), and the gate refuses an agent's
approval of an irreversible effect but not its reject (`GateRefuses`). `serving` and `reported` are the two attributes of the one object
all turns share. `Probe` threads try the rungs behind them.

**Docket, Quotes, Walk.** A text is a sequence of characters, so
`verify_quote`'s normalisation is computed, not assumed. NFKC is two tables, `Folds`
(what a character decomposes to) and `Composes` (which mark a letter before it takes),
and `Fold` applies them from left to right; the run has a superscript, a ligature, a
no-break space, a wide quotation mark, an accent that stands alone and a combining one.
`route_judgment` is three steps, each of which can fail or lose its answer. A
line is altered when its body no longer has the digest it carries; `Edit` may
rewrite ids in any line, and `WalkEffect` is evaluated on the result.

**Datasets.** `Verdict` is `parse_registry`: the policy of the first broken
check of the first broken entry. `Reload`, `Boot` and `Die` move a component's
store; `Read` is one of helm's calls, one component at a time, and `Answer` the
page, the list or the clerk's tool. `settled` remembers the lookups nothing broke
into; no action reads it.

## 3. Runs

A property in italics below is a conjunction of the named parts after it.

| run | question | bounds |
|---|---|---|
| `GateFaults` | Is what runs ledgered first (`WriteAhead`), released (`ReleasedByDecision`) and run once (`RunsOnce`)? Does the queue rebuilt from the chain keep holds and decisions (*`HoldsAreKept`*: `HoldsAreTraced`, `PendingHasEffect`, `RecordSurvives`)? Is every step one of `Release`: is an approval decided once, for good, and spent once (`KeepsPromise`)? Until a write fails, do queue and records agree with the chain and does the cap hold, across a boot too (*`FollowsTheLedger`*: `QueueAgreesWithLedger`, `UnrefusedMatchesLedger`, `CapHolds`)? | two near-duplicate irreversible effects and an auto-executing one, cap 1, two submissions with ids that may repeat, one signal, one fault, one crash |
| `GateReuse` | Does an irreversible effect run on an approval only, and is an approval that was shown one good for a run on an attested human's decision only (`AttestedRelease`)? | an irreversible submission and one held by its rule under one id, two submissions, attested, unattested and agents' decisions, one refusal, no fault |
| `GateLive` | Is what was approved, and what executes on its own, executed (`CarriedOut`)? Is a grant that confers an escalating role held (`ConferralIsReleased`)? | an effect held by its rule and a grant, ids that may repeat, a signal of either role, no fault and no crash |
| `LedgerChain` | Is the file one chain and does verify name the first edit (`NamesTheEdit`)? Is nothing chained to a torn line (*`FileIsSound`*: `TypeOK`, `TearIsLast`)? Does what an append promised stay (`AckedIsKept`)? | two processes, three lines, three boots, one each of crash, failed fsync, torn write and edit |
| `ConfigReload` | Is a type loosened only by a release of a document (`LooseningIsReleased`) that declares it so, and is what is applied held under the approved version (`AppliedAsApproved`)? Is the registry in force the recorded one (*`RegistryIsRecorded`*: `TypeOK`, `RunningIsRecorded`)? Was what siren shows as registered put in force (`GreenIsInForce`)? | two types, seven documents (tighter, looser, a type named twice, two of one version, unsafe, outside the allowlist), two holds, one drop of siren's, one failed append, one crash, one lost call, a boot file that may be refused |
| `GridDispatch` | Has every dispatch an approval of its own (*`DispatchesAreSound`*: `TypeOK`, `DispatchesAreApproved`), and is a release observed any number of times dispatched, and once in one life of breaker (`ObservedOnce`)? | one battery, two ticks, four approvals, two losses, one restart, cap 2 |
| `GridRepeat` | With every answer heard (*`OneEvent`*): one open proposal for a battery (`OneOpenPerUnit`), one approval for a divergence (`OneApprovalPerEffect`), no second before a recovery (`NextEventAfterRecovery`)? | one battery, three ticks in any order and repeated, any registry, four approvals |
| `SirenFeed` | Does a handler that saw offline put nothing on the wire (`OfflineSendsNothing`)? Does a refresh alone leave rows, as-of and label that belong together, whatever overlapping ones left (`AloneItSpeaksTrue`)? Is the cache never torn by a lone writer (`CacheIsWhole`), one poll, in UTC, and the substrate the chosen one (*`FeedIsSound`*: `FeedTypeOK`, `SubstrateFollows`, `CacheIsOnePoll`, `ClocksAreUtc`)? | two handlers (symmetric), three requests, two polls, one failed write or crash, a first boot with an old cache or with nothing |
| `WarrantRace` | Does one owner come of rival claims, is a lapse recorded only after it (*`RecordIsSound`*: `TypeOK`, `OneOwner`, `LapseIsPast`)? Was a window voted in by two others of two datasets (`GlassIsVoted`)? Is authority widened by the gate only (`WidenedAtTheGate`) and a dataset orphaned only by an overlap (`OrphanedOnlyByOverlap`)? | two datasets, three people of which one is a steward, two workers (symmetric), one delegation and one window each, nobody voting twice at once, two writes after each of six chains, one tick |
| `Login` | Does a login complete once, for the person whose token was verified (*`LoginIsSound`*: `TypeOK`, `OncePerLogin`, `SessionNamesItsUser`)? Is the key fresh (`AcceptedKeyFresh`)? Do rows move by an administrator only (`RowsMoveByAdmin`)? | two people, three subjects, two logins, two threads (symmetric), two keys, TTL 2 in three ticks, two changes, one failed write, one restart |
| `ClerkTurn` | Does no agent release anything, or decide anything of the reversible class (`AgentsReleaseNothing`)? Is what is told of a call what happened (*`TellsTheTruth`*: `AnswersAreTrue`, `LedgeredIsOnTheChain`, `PerformedHappened`)? Does a turn name its model (*`NamesItsServer`*: `AloneTurnNamesItsServer`, `NamedRungServed`)? Does the first reachable rung lead and a sign-out clear (*`ClerkIsSound`*: `TypeOK`, `ActiveLeads`, `SignOutClears`)? | two turns of one person on two pages, or one of them beside a person at the desk, two approvals, a ladder of two rungs, three questions, one lost call, one rung that flips, one sign-out |
| `RouteWalk` | Is every published finding cited and no honest span refused (*`QuotesAreSound`*: `PublishedIsCited`, `HonestSpanAccepted`)? Are effects traceable and answers true (*`RoutesAreSound`*: `TypeOK`, `OnlyAcceptedLeaves`, `EffectIsTraceable`, `AnswerIsOnTheChain`)? Does a walk whose hops verify tell the truth in an edited file (`VerifiedWalkIsTrue`)? Are registries whole and explained (*`RegistriesAreSound`*: `RegistryTypeOK`, `OneEntryPerId`, `EmptyIsExplained`, `RegistryIsLedgered`) and what helm says of them established (*`LookupsAreHonest`*: `AbsenceIsEstablished`, `CountsAreWhole`)? | every description of up to four characters of four kinds by every quote of up to three, and some of each with characters that fold, two routes, two judgments, one fault, one edit, one restart; three components of which one is not built, five registry files, one lookup, two writes, one loss, one death |

`RouteWalk` runs docket and the registries side by side: docket moves on every
description but one, the registries on that one. The two share no variable, so
interleaving them would only multiply the states.

**Why the bounds are enough.** Two submissions are the fewest with two approvals
for one id, a near-duplicate over the cap, and an effect overwritten while the
first waits. One crash and one fault already come between every two writes of
every handler; a boot followed by another fault is within `GateFaults`. Two
processes are the fewest that contend for the lock, three lines let an edit have
a line before and after it. Two holds are the fewest where one document could be
applied for another. Three ticks let a late reading come before, between or
after the other two. Two handlers of siren, two workers of warrant and two
threads of signet are the fewest that overlap, and the third request lets a
lone one follow two overlapping ones. Warrant starts from chains already
written (a claim, a promotion, a loan, a request for a window, a vote), so that
two more writes reach every verb's end; a window needs two votes of two
datasets and so three people. Two rungs let an eviction have a successor.
Quotes of three characters have a digit on each side of a space. A failure that needs
more of something than this is not excluded by the runs; what is proved in
section 5 holds for any number.

**Deadlock** is checked in `ConfigReload`, `GridDispatch` and `GridRepeat`. In
the others the bounds on requests, crashes, ticks and boots stop the system.

**Fairness.** `Gate!FairSpec`: the event loop runs what is ready (`Handler`,
`Resume`) and Relay answers every call; nobody owes a request and nothing
has to fail. `CarriedOut` is checked without crashes because the code does not
retry: an approved effect whose process dies before the executor is not run
after the boot. `GridWatch!FairSpec`: whoever refreshes does so again and again
for every proposal and whoever relays a decision tries again; deciding at the
gate owes nothing. breaker's service has no such refresher, so `Refreshes` is
`FALSE` where the claim of a dispatch (`ReleasesAreDispatched`) is put to TLC, which finds it
violated though every relay is tried again and again (section 4). No run claims it;
`GridDispatch` checks safety, which needs no fairness. The other modules claim
no progress: their handlers end or fail, and nothing there waits for another.

## 4. Where code and documentation part

These were met while modelling. They limit the claim of a passing run, which
states the case in which it holds; TLC shows each of them when the bound or
constant named, or the property named, is put in place of the run's own. Properties
of the modules that are violated this way and that no run checks are marked so in
their comments: `IrreversibleIsAttested`, `ToldTheTruth`, `HeldIsApplied`,
`ApprovedApplies`, `ReleasesAreDispatched`, `AgentsDecideNothing`, `PublishedStands`.

### throughline and breaker

| seen | what happens | quoted line |
|---|---|---|
| `QueueAgreesWithLedger` with one failed append | the queue and its cache settle before `approval.decided` is appended (`gate.py:699`); the approval is spent and the chain does not know | `gate.py:285` "Rebuild effect state from the ledger — it is the source of truth." |
| `ToldTheTruth` in `GateFaults` | the executor ran, the append after it failed, and the caller is told `effect_executed: false` | `app.py:216-220` "Fail closed: an unwritable ledger halts effects, it does not skip them." |
| `Ledger!Durable` with one torn write | a line that lost only its newline is taken for whole, and the next is glued to it | `ledger.py:161-162` "a caller that sees this return knows the line is durable" |
| `Config!ApprovedApplies` | staging is in memory: after a restart an approval of a held document applies nothing | `throughline/README.md:204` "Approving it applies the config; rejecting it does not" |
| `ReleasesAreDispatched` under `FairSpec` in `GridDispatch` with `Refreshes = FALSE` and no restart | a release breaker did not hear of is not dispatched until somebody calls `refresh` (`engine.py:425`), and nothing in breaker's service does | `breaker/README.md:63-65` "the dispatch executes exactly once however many times the release is observed" |
| `GateFaults` with `Cap` counted in `UnrefusedMatchesLedger` | `submit` ledgers `effect.refused` with the status still `proposed` and sets `rejected` afterwards, so the record a boot rebuilds differs (`gate.py:492-504`) | `gate.py:285` |
| `GateFaults` (ids may repeat) | a second post of a queued id past the cap turns the record of the effect that still waits to rejected (`gate.py:485, 504`) | `app.py:283-284` "The effect stays refused; nothing already queued or decided is touched." |
| `GateLive` | an effect held by a reversible rule passes the guardrail and Relay calls the callback that asserts it is never called (`relay.py:43`, `gate.py:524-536`); Relay hides the assertion and the chain mirrors a rejection | `gate.py:534-535` "gate bypassed: … executed while held for approval" |
| `IrreversibleIsAttested` in `GateReuse` | an effect id posted twice has one record: the unattested approval of the reversible submission releases the irreversible one posted under its id later (`gate.py:724`) | `gate.py:33` "Releasing a queued IRREVERSIBLE effect takes more than a well-formed body." |
| `LedgerChain` | a torn last line breaks the chain; the boot that finds it cannot append its alarm and does not come up (`service.py:154-160`) | `throughline/README.md:77-79` "A chain that fails verification at boot raises an alarm into the ledger" |
| `LedgerChain` (a long body) | after a line longer than 64 KiB every append refuses the tail though the chain verifies (`ledger.py:142-150`) | `ledger.py:131` |
| `HeldIsApplied` in `ConfigReload` | staging is keyed by source and version, which defaults to 1: the second document replaces the staged first, and the first's approval applies it (`service.py:225-246`) | `throughline/README.md:204` "Approving it applies the config; rejecting it does not" |
| `Config`, two holds and a tightening between | the loosened types are computed at the hold and applied over the registry at release (`app.py:470`, `service.py:263`) | `throughline/README.md:203-204` "records exactly what would have been loosened" |
| `Config` | `auto_execute` turned on for a reversible held type is no downgrade (`config.py:286-292`) | `config.py:278` "Effect types the candidate would make *easier* to execute." |
| `RunningIsRecorded` with a failed append | the registry is swapped before `config.loaded` is appended (`config.py:341-347`) | `config.py:340` "One rebind, nothing partial." |
| `OneOpenPerUnit` with a fault | a withdrawn proposal whose release meets a failing executor is set back to waiting beside the next one (`engine.py:475`) | `engine.py:184` "One open proposal per unit" |
| `GridDispatch` | a withdrawn proposal's approval stays pending at the gate, can be given and dispatches (`engine.py:302-314`) | `models.py:101-102` |
| `GridRepeat` | a judge that abstains on a later window withdraws the open proposal (`engine.py:161-171, 129-132`) | `engine.py:283-284` "the condition itself cleared" |
| `OneApprovalPerEffect` with a fault | after a lost answer the same reading posts the effect again and a second approval is queued, while the caller was told that no effect was created (`app.py:146`, `engine.py:356`) | `engine.py:214-217` |
| `DispatchesAreApproved` with `Classes` containing auto and refreshes | with load_shed loosened in the registry the effect runs at the post and a refresh dispatches what `_propose` refused (`engine.py:385-393`) | `engine.py:9-10` |

### siren

| seen | what happens | quoted line |
|---|---|---|
| `AloneItSpeaksTrue` without `last.alone` | two overlapping refreshes leave the rows of one under the as-of and label of the other (`feed.py:455`) | `service.py:3` "Every payload that carries incident rows carries the as-of label with them." |
| `Feed` | a live fetch in flight when the switch goes offline still lands and shows live rows (`feed.py:355`) | `feed.py:11` "Offline means offline, at runtime." |
| `CacheIsWhole` without `alone` | two writers share one temporary file: one `os.replace` raises, or an empty file is renamed (`feed.py:340-342`) | `feed.py:336-337` "A reader never sees a half-written cache" |
| `Feed` | `write_snapshot`'s OSError leaves a refresh as a 500 | `service.py:123` "Never raises: a failed poll degrades to snapshot" |
| `HotReload` | a held drop that a human releases later stays shown as held, and the release may overtake the record of it (`reload.py:317`); a second drop that is held or refused is answered 200 | `reload.py:218` "No step is reported green on intent." |
| `HotReload` (`Unheard`) | a lost answer is shown as refused by throughline, `substrate-unreachable`, while the new config runs (`reload.py:276-279`) | same |

### docket, the walk and the registries

| seen | what happens | quoted line |
|---|---|---|
| `HonestSpanAccepted` with its condition on marks dropped | a span cut off before a combining mark, or beginning with one, is folded apart from the letter the source joins it to, and is rejected (`quotes.py:84`) | `quotes.py:14` |
| `HonestSpanAccepted` over all spans | an apostrophe opens a quotation, so a byte-exact span behind it with grouped digits is rejected (`quotes.py:144`) | `quotes.py:14` "a purely byte-exact match would reject honest" quotes |
| `PublishedStands` in `RouteWalk` | NFKC folds both sides before they are compared (`quotes.py:84`): the quote "102 sq ft" is accepted and published for "10² sq ft" | `quotes.py:80-82` NFKC folding changes "presentation, never which characters were claimed to be in the source" |
| `PublishedIsCited` without `Ink` | white space between digits is dropped: the quote "92" is accepted for "9 2"; a reply with a valid quote and an empty finding is published as accepted | `quotes.py:124` "appear verbatim" |
| `Docket` | every route request mints a fresh effect id, so a route repeated after a lost answer executes twice | `routing.py:3` "An accepted judgment produces one reversible effect" |
| `CallFails` | `SubstrateUnavailable` inside `route_judgment` is not caught: 500, with the signal, the judgment or even the effect on the chain | `routing.py` |
| `Walk` | the walk's status is the one in the last line's body, while the console shows the suffix of that line's type, and no hop verifies that line | `walk.py:5` "a tick that cannot go red would be decoration" |
| `Datasets` (`Boot`) | a component whose registry was refused at boot answers 200 with an empty list, helm drops the refusal with it and calls the component known and its count complete | `helm/helm/datasets.py:77` "An empty list is a claim" |
| `AbsenceIsEstablished` over all lookups | a dataset that moves between two components while helm reads one after the other is told absent (`datasets.py:218`) | `helm/helm/datasets.py:272` "An absence is a fact only when every registry was actually read." |
| `RegistryIsLedgered` with a loss | the registry is swapped before its line is appended: a failed append leaves the new one running, the old refusal on display, and a 503 | `throughline/datasets.py:366-380` |
| `Datasets` (`AskHelm`) | `list_datasets(component=X)` says the total of all "across 1 component(s)" | `nemoclerk/tools.py:433` |

### helm

| seen | what happens | quoted line |
|---|---|---|
| `AgentsDecideNothing` in `ClerkTurn` | an agent's decision on an irreversible effect is forwarded unchanged (`console.py:663-672`); the gate refuses an agent only an approval (`gate.py:678-682`), so its reject is decided and ledgered, while helm answers that it was refused and not ledgered | `console.py:649-652` "deciding a queued effect requires a human signet role" |
| `OrphanedOnlyByOverlap` without the overlap | two overlapping reductions, each of which saw the other administrator, orphan a dataset (`warrant/service.py:230`) | `_require_admin_floor` |
| `OneOwner` | of two overlapping claims the fold takes the first, and both were answered 201 | `service.claim` |
| `Warrant!QuorumOpens` | two votes that overlap, or a process that dies between the vote and the entry, leave a quorum on the chain and no entry; a further vote is needed | `warrant/routes.py:295` "The Nth vote releases it through the gate." |
| `GlassIsVoted` | two stewards vote for the one pseudo-dataset of their role, so they cannot supply two distinct datasets | `app.py:1097-1098` "Stewards alone can only supply that if there are at least two of them." |
| `GlassIsVoted` with `VotesOnce = FALSE` and its condition dropped | two overlapping votes of one person, whose administered dataset changes in between, count for two datasets; the fold drops the second (`projection.py:474`), the entry stands on both (`warrant/service.py:749-775`) | `warrant/model.py:221-222` "Votes must come from admins of at least this many DISTINCT other datasets" |
| `LapseIsPast` for windows | a window whose entry is written twice gets the later deadline, so an exit by the clock can stand before it; `LapseIsPast` is about delegations | `warrant/service.py:379` writes the exit with the reason "window elapsed" |
| `Warrant` (`Abandon` after the write) | a lost answer is told as no change, while the effect executed | `warrant/service.py:296` "the change did NOT take hold" |
| `Warrant` | the end of a window is reckoned when its entry is proposed, not when it is released; an exit is allowed before the entry; a delegation revives when its grantor is promoted again | `model.py:487` |
| `Signet!SignInKeepsFranchise` | a sign-in writes back a copy read before an administrator's change and undoes it | `signet.py:490-491` "Signing in must never disturb a federation assignment, in either direction" |
| `Login` with a failed write | memory is ahead of the file: the caller is told 500, the change is in force, and reverts at a restart | `app.py:550` "every change is ledgered" (its signal may also fail) |
| `AloneTurnNamesItsServer` over all turns | overlapping turns overwrite the one current server and name each other's | `agent.py:333` "earns its name per turn" |
| `NemoClerk!RefusalIsLedgered` | an approval of the reversible class that the desk refuses the clerk is on no chain when the note gets lost, and the text says that it is | `agent.py:769-770` "the refusal is on the ledger with my principal" |
| `NemoClerk` | an eviction during a probe is overwritten by what the probe found; a sign-out during a turn is followed by the turn's own line in a new transcript; a replayed turn is ledgered `none@none`; a turn whose phrasing failed says that no model was in the loop beside the name of one | `agent.py:833` "NO MODEL IN THE LOOP" |
| `Console` | an outage is answered as "no approval in the queue"; a swap throughline accepted with policy drift is told as refused; an unreachable siren is told as "validated" and refused | `console.py` `decide`, `reload_class` |

## 5. Proofs

| theorem | states | assumes | about |
|---|---|---|---|
| `GateProofs!TypeCorrect` | `Spec => []TypeOK` | | `Gate` |
| `GateProofs!LedgerFirst` | `Spec => []WriteAhead` | | `Gate` |
| `GateProofs!OnlyDecisionsRelease` | `Spec => []ReleasedByDecision` | | `Gate` |
| `GateProofs!AttestedOnly` | `Spec => []AttestedRelease` | | `Gate` |
| `GateProofs!OneRunEach` | `Spec => []RunsOnce` | | `Gate` |
| `GateProofs!NothingHeldIsLost` | `Spec => []HoldsAreKept` | | `Gate` |
| `GateProofs!ConferralsAreReleased` | `Spec => []ConferralIsReleased` | | `Gate` |
| `GateProofs!QueueIsFollowed` | `Spec => [](faults = 0 => QueueAgreesWithLedger /\ CapHolds)` | | `Gate` |
| `GateProofs!ChainIsFollowed` | `Spec => []FollowsTheLedger` | | `Gate` |
| `GateProofs!GateKeepsPromise` | `Spec => KeepsPromise` | | `Gate` with `Release` |
| `LedgerProofs!OneChain` | `Spec => []NamesTheEdit` | | `Ledger` |
| `LedgerProofs!TornStaysLast` | `Spec => []FileIsSound` | | `Ledger` |
| `LedgerProofs!AckedStays` | `Spec => AckedIsKept` | | `Ledger` |
| `LedgerProofs!AppendsLast` | `Spec => [](tears = 0 => Durable)` | | `Ledger` |
| `SirenProofs!TheRunningIsRecorded` | `Spec => []RegistryIsRecorded` | | `Config` |
| `SirenProofs!LooseningNeedsRelease` | `Spec => LooseningIsReleased` | | `Config` |
| `SirenProofs!ApprovedIsApplied` | `Spec => []AppliedAsApproved` | | `Config` |
| `SirenProofs!DropsAreReloads` | `HotSpec => Spec` | | `HotReload` with `Config` |
| `SirenProofs!GreenNeedsForce` | `HotSpec => GreenIsInForce` | | `HotReload` |
| `SirenProofs!FeedStaysSound` | `FeedSpec => []FeedIsSound` | | `Feed` |
| `SirenProofs!OfflineIsSilent` | `FeedSpec => []OfflineSendsNothing` | | `Feed` |
| `SirenProofs!AloneSpeaksTrue` | `FeedSpec => []AloneItSpeaksTrue` | | `Feed` |
| `SirenProofs!CacheStaysWhole` | `FeedSpec => CacheIsWhole` | | `Feed` |
| `GridProofs!DispatchNeedsApproval` | `Spec => []DispatchesAreSound` | `NoAuto` | `GridWatch` |
| `GridProofs!ReleaseDispatchesOnce` | `Spec => []ObservedOnce` | | `GridWatch` |
| `GridProofs!OneDivergenceOneEvent` | `Spec => []OneEvent` | `Heard` | `GridWatch` |
| `WarrantProofs!RecordStands` | `Spec => []RecordIsSound` | | `Warrant` |
| `WarrantProofs!QuorumOpensGlass` | `Spec => []GlassIsVoted` | | `Warrant` |
| `WarrantProofs!WidenedOnlyAtTheGate` | `Spec => WidenedAtTheGate` | | `Warrant` |
| `WarrantProofs!OrphansOverlap` | `Spec => OrphanedOnlyByOverlap` | | `Warrant` |
| `ConsoleProofs!OnlyHumansRelease` | `Spec => []AgentsReleaseNothing` | | `Console` with `NemoClerk` |
| `ConsoleProofs!AnswersAreTold` | `Spec => []TellsTheTruth` | | `Console` with `NemoClerk` |
| `ConsoleProofs!ClerkStands` | `Spec => []ClerkIsSound` | | `NemoClerk` |
| `ConsoleProofs!RungsEarnTheirNames` | `Spec => []NamesItsServer` | | `NemoClerk` |
| `SignetProofs!LoginsCompleteOnce` | `Spec => []LoginIsSound` | | `Signet` |
| `SignetProofs!KeysAreFresh` | `Spec => AcceptedKeyFresh` | | `Signet` |
| `SignetProofs!SignInMovesNobody` | `Spec => RowsMoveByAdmin` | | `Signet` |
| `DocketProofs!RegistriesStaySound` | `RegistrySpec => []RegistriesAreSound` | | `Datasets` |
| `DocketProofs!LookupsStayHonest` | `RegistrySpec => []LookupsAreHonest` | | `Datasets` |
| `DocketProofs!RoutesStaySound` | `Spec => []RoutesAreSound` | | `Docket` |
| `DocketProofs!VerifiedWalksAreTrue` | `Spec => []VerifiedWalkIsTrue` | | `Docket` with `Walk` |
| `DocketProofs!QuotesStaySound` | `Spec => []QuotesAreSound` | | `Docket` with `Quotes` |

They hold for every value of the constants that satisfies the module's own
assumption (`ConstantsAssumption`, `LedgerAssumption`, ...): any number of
effects, submissions, processes, documents, turns, requests, faults and crashes.
No theorem about the gate or the registry assumes that effect ids or versions are
unique: callers choose both. The two further assumptions are needed: with `NoAuto` or
`Heard` (every answer heard, no restart, no refresher) dropped, TLC finds the property
violated (section 4), as it does after one failed write for the parts of
`FollowsTheLedger`, which claims nothing then, or one torn write for `Durable`;
`NamesTheEdit` claims nothing of a file with a torn line, which is what `FileIsSound` is
about. `GlassIsVoted` asks for two datasets only where `VotesOnce` holds.

**Gate.** `TypeOK` is inductive with one lemma per group of actions. Neither
`WriteAhead` nor `ReleasedByDecision` is: a run is made by a coroutine that was
suspended long before. The strengthening `Releases` says what every coroutine
that may still execute is entitled to: the loop between `approve` and `execute`,
and every parked run, carries either no approval and an auto-executing effect, or
an approval of the same effect id that the chain records as approved; a parked
run has its `effect.executing` line in the chain; a record is kept under its own
id. Chain and submissions only grow (`Grows`), so an entitlement stays.
`AttestedOnly` adds that every decision in the chain passed `_check_role` and
`_check_attestation` against the rule of the submission it was given for. Which
record that approval then runs is not part of it: it may be another's
(`IrreversibleIsAttested`, section 4).

`RunsOnce` is about a claim to run: an approval, or a submission that needs none.
A claim is held by the loop, by one parked coroutine or by the runs made, and
`OwingOnce` and `LoopOnce` say that by only one of them. A claim by approval
arises when `approval.decided` is written, so it is enough that this happens once
before anybody runs on it: `PendingUndecided` says that what is pending, in
memory or in the cache, has no decision in the chain. A boot could break it, since
it reads a decision only if it comes after the hold; `DecidedAfterQueued` says that
every decision does. `Spends` is the conjunction.

`HoldsAreKept` needs, in `Keeps`, that the queue agrees with the chain at every
step of a process that is up and not only when the loop is free (`RecordKept`),
that what is pending is on record in the chain even if only the cache knows it
as pending (`PendingOnRecord`), and that what was classified as held had an
ingested cause (`HeldHaveCause`).

`ConferralIsReleased` is about the moment of the proposal, which is long past when
the effect runs. `ProposedHeld` says that a submission whose `effect.proposed` line
confers an escalating role, by the payload or by the latest signal before that line,
was classified as held; `ProposingHeld` says the same of the one about to be proposed,
because the loop is not left between classification and line.

`FollowsTheLedger` is not inductive either: between the cache's write and the line
that follows it, queue, cache and chain are three different things. `QueueIsLoaded`
compares the queue with what a boot would load from chain and cache at every step,
and lets only the decision being recorded differ; `CacheFollows` says what the cache
holds in between, and `OnlySubmitted` that it knows no approval before its
submission. The cap then is a fact about chain and cache alone, which a crash leaves
as they are: `CapKept` counts what a boot would hold pending, and one more may
join only after `submit` found room (`AwaitingSteps`). For the records, `StatusIsSaid`
says that an effect's status is the one in its last line, and `CarriedRecorded` that
whatever a coroutine carries is on record. After a failed write nothing
is claimed; of an id posted twice, the queue and the cap only.

`GateKeepsPromise` is step simulation under these invariants: a submission is a
`Propose`, the line of a decision an `Approve` or a `Reject` of an approval that was
neither given nor refused before (`DecidedSteps`), Relay's callback a `RunAuto` or a
`RunReleased` not spent yet (`OwingOnce`); every other step, a crash, a boot or a failed write among them, is
invisible.

**Ledger.** `Chained` says that lines before every edit are good and the first
edited line is bad; it is inductive with `TailIsFresh` (whoever holds the lock
and has not written yet knows the real tail) and the exclusion of the lock in
`Shape`. `AppendsLast` adds that acknowledged lines are synced and in place. Both
speak of the time before the first torn line, and `WhileWhole` makes that part of
the invariant instead of an assumption. After it, `Sound` is what stays: a bad line
before every edit is the last one (`TornAtTheEnd`), and whoever holds the lock read a
whole one (`TailIsRead`), so nobody writes behind it. `AckedIsKept` adds that an
acknowledged line is synced and has a newline behind it (`AckedIsSynced`).

**Config.** `RunningIsRecorded` needs that what is staged or held was accepted by
the parser (`Shape`, `Book`): only then is the swap followed by the line.
`LooseningIsReleased` needs `ReleasedOnce`: what is being released is approved
and was not applied, and a type that an apply makes reversible is one its document
declares so. `StagedWasHeld` says that what is staged under a source and version was
itself held under them, which is what `AppliedAsApproved` needs: the staging's key
does not tell two documents of one version apart, and neither does the property.

**HotReload.** Every step of a drop is one of `Config`'s or leaves it alone, so
`HotSpec => Spec`, and what is proved of the registry holds under siren's drops.
`Dropping` adds that an acceptance over the real substrate names a document that was
put in force for a drop, which is all that `registered` is set from.

**GridWatch.** `DispatchesAreApproved` counts, so it is not inductive:
`OneProposal` (an effect has one proposal in one life of breaker) and `OneLeft`
(a proposal not dispatched whose effect the gate executed has an approval that
no dispatch used up) are. A restart forgets the proposals but not the counts.
`NoAuto` says that no registry runs a dispatch by itself.

`ObservedOnce` is about breaker alone, whatever the gate does: a proposal called
approved was dispatched when it became so (`Told`), and in breaker's first life what
was shed of an effect is what its one proposal dispatched (`CountedOnce`).

`OneEvent` needs, in `Events`, that whatever the gate was asked breaker knows under the
approval it asked (`AskedIsKnown`), and that a closed proposal whose approval still
waits was withdrawn for a later window (`ClosedIsOver`). A step either asks for one
effect, and then no proposal of the battery is open, or closes some (`Asks`, `Closes`).

**Feed.** Threads share fields and files without a lock, so `FeedInv` goes by what each
holds. Whatever overlaps: a text on disk is one poll's or torn, and no writer has
the cache's own inode (`Disk`); a handler carries rows and clock of one fetch
(`Alike`) and has seen the switch live if it is (`Aware`). Of a handler without company
(`Company`), `LoneWork` says at each place what it has left so far, which by its end
is that rows, as-of, label and serving belong together; `Done` keeps that until the
next one begins.

**Warrant.** Requests overlap, so the record is not enough. `Underway` says of every
request under way what its guards read and is still true, since the fold only adds
(`Stands`), and that two of them carry neither one id nor, with `VotesOnce`, one
voter; `Waiting` the same of every entry in the gate's queue. `Records` then
says that the owners are whoever claimed first, that a delegation ended by the clock
is past its deadline, and that a window is entered on votes of two others. An
administrator vanishes only by an entry whose request read another one, hence
`OrphansOverlap`.

**Console.** Deciding takes three steps of a thread with the queue moving
meanwhile. `LetThrough` says that whoever is about to ask the gate passed helm's
rule, whoever decided did too, and nobody decided before asking; the clerk's
actions only add steps of the desk (`DeskMoves`), which is what makes the
theorem about all of `NemoClerk`.

**NemoClerk.** All turns share one `serving` and one `reported`. `TurnsAgree` says that
turns in flight have met, and that what is served now was given to one that every turn
in flight has met: a turn that met nobody names its own. `LadderStands` says that the
ladder is led by its first reachable rung through every eviction, probe and switch, and
`TranscriptsStand` that a line is of a turn of its user that nobody signed out of.

**Signet.** A session is minted several steps after its login was taken. `Once`
says that a login is either pending, or carried by one request, or over;
`Truthful` says what a request knows of the person it carries at each stage;
`KeysAge` that the cached set was fetched before any of its keys was dropped.

**Datasets.** `Stores` says that a registry in force is empty or a file that
passed every check, that an empty one of a component that answers shows a refusal,
and what the chain knows. That a file that passed names an id once is the
lemma about `Verdict`: the first broken check of the first broken entry exists
whenever some check is broken. helm reads component by component: `Reads` says that
a block is its component's answer or what was declared of it, `Settles` that, while
nothing broke in, it is what would be read now, and `Replied` what an answer says
of its blocks.

**Docket.** A walk follows ids in lines anybody may have edited. `Routing` says what a
line nobody edited says (`Posted`, `AsPosted`): an effect names the judgment its
request carried and the permit's signal, a judgment is one docket accepted. A hop
that verifies is such a line, so a walk that verifies is true. `Posting` and `Rooted` say
that in a file nobody edited each line's cause is there, and `Answers` that a 202 was
for the mock that was asked for, or for an effect that ran.

**Quotes.** The theorem is about texts of any length over any characters
(`Chars`) under any folding that gives every character some characters, leaves the
ASCII and typographic quotation marks alone, makes nothing but white space of white
space and of nothing else, and joins letters and marks only (`QuotesAssumption`). Two recursive
functions are all that reads a folded one: `Pick`, which takes
the characters at some positions, and `ClosesAt`, which follows the quotation marks.
`CountUp` is induction over the prefixes of a text, from the least counterexample
(`LeastOne`), and `ScanExists` with it says that such a recursion has a value at
every prefix. A pick then is the text at an increasing list of its positions
(`PickPicks`), and whatever is that is the pick (`PickedOnce`); so a pick out of a
pick is a pick (`PickOfPick`), and the part of one within a window of the text is one
contiguous piece of it (`PickWindow`). The rest is about positions. Folding is a third
scan (`FoldScans`), which both sides of the comparison go through. After it,
stripping, grouping and collapsing leave out or rewrite white space only, so they keep
the ink (`RegroupKeepsInk`), and a piece of a normalised text has a piece of its ink
(`InkOfPiece`): what verifies is cited (`VerifiedIsCited`) in the folded description,
and it is the folding alone that may come between it and the description as written.
Conversely a span from
ink to ink, before the first mark, has its digits grouped as the text has them
(`SpanGroups`: the digits beside a space in it are within it), so without the grouping
spaces it still is a span (`GroupedSpan`), and it collapses to a piece of what the text
collapses to (`CollapsePiece`): it verifies. That is of the folded text; `FoldSplits` says that a text cut where no
mark is taken folds to the folds of its parts, so a span cut there folds to a span of
the folded description (`FoldOfSpan`), which has ink and is before its first mark
because ink stays ink and what folds to no quotation mark composes to none
(`FoldHasInk`, `FoldStaysClean`): it verifies too (`HonestSpan`). The invariant `Judging` carries
this to the judgments: each one made was an abstention or verified against the one
description, which was long enough when its judging began.

**Model-checked only:** the liveness property `CarriedOut`, because liveness under
fairness is out of the prover's reach. Every other property of a passing run is a
theorem.

## 6. Abstractions, and what is not modelled

- sha256 is injective. Lines cut off at the end of the file leave a shorter
  chain that verifies, so removal of the tail is not among the edits.
- nemo-relay is external: it answers every call and hands an exception of the
  callback back as a RuntimeError, which the mirror counts as a rejection. So
  are the identity provider, the models' servers and the operating system.
- Signals and grants carry a role, the only part of a payload the gate reads. Text
  is a model value, compared for near-duplicates; in docket it is a sequence of
  characters. NFKC is modelled by what it maps a character to and by what it joins to
  the letter before; its sorting of several marks on one letter and Hangul are
  left out.
- In `Gate` the registry is constant; `Config` models how it changes. An
  approval's refusals, queue and crash are in `Gate`; `Config` sees an approval
  that is given or refused once. A crash in `Gate` is one of the process: a line
  whose fsync failed stays in the chain, and losing it with the machine is
  `Ledger`'s part. A boot whose `config_path` does not exist is
  not modelled. `LedgerUnwritable` inside the executor comes back as a blocked
  effect, as Relay makes it. The file siren reads in its pre-flight is the one
  throughline reads.
- In `GridWatch` a window is its verdict, one kind of divergence per tick; the
  gate's own restarts are not modelled there.
- In `Warrant` reading the chain is one step and an unreadable chain an abandoned
  request; "reader" stands for every role below administrator.
- In `Signet` a token is a claim about a nonce and a key; PKCE is a code that its
  provider may or may not accept for another login. GitHub's variant of the login,
  whose state is read and removed in two steps, and attest's probes are not
  modelled.
- In `Console` the gate's verdict (`GateRefuses`) is that of its role and
  attestation checks on an approval of the irreversible class; the rest of it is in
  `Gate`. A model's reply is whether it chose tools, answered or was empty; caches
  of replies repeat an earlier reply.
- In `Datasets` an entry is which checks it breaks; the fields' text is not kept.
- Not modelled: throughline's redaction and command line (no state); the paging
  of a growing chain by readers; breaker's rule, verdict cache and substrate
  selection beyond a free verdict, and its mock client; the views, pages,
  projections and status pulses, which render; the tests, scripts and data files.

## 7. Plan

Done: throughline's gate, ledger, config, walk and registries; breaker's
GridWatch; siren's feed and hot reload; docket; helm's warrant, login, desk,
clerk and datasets; the proofs of section 5.

What is left, in order:

1. `Ledger` and `Gate`: one theorem that the line the gate appends is the one
   `Ledger` keeps, in place of the two models' common convention.
2. breaker's judges: verdict cache and substrate selection, so that an abstention
   comes from a cause and not from a free choice.
3. Readers that page a chain while it grows (`app.py:402`, helm's clients).
4. GitHub's variant of the login and the preferences of `signet.py`, which share
   the race of the role table; an unreadable chain of `Warrant` as an answer of its own.
