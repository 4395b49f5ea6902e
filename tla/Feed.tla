-------------------------------- MODULE Feed --------------------------------
(***************************************************************************)
(* siren's 911 feed: one FeedState, one offline switch, one substrate and  *)
(* one cached snapshot, all without a lock, under the handlers of POST     *)
(* /feed/refresh and POST /feed/mode, which FastAPI runs in a thread pool. *)
(* A step is one read or write of something shared: a check of the switch, *)
(* an assignment to a field of FeedState, a call on a file.                *)
(*                                                                         *)
(* Rows are known by the fetch that brought them and by how many hours     *)
(* their clocks are off UTC; an as-of is known by the fetch it was taken   *)
(* for.  Fetch 0 is the packaged seed.                                     *)
(***************************************************************************)
EXTENDS Integers, FiniteSets

CONSTANTS
    Handlers,       \* threads of the pool that serve a request
    EnvOffline,     \* OFFLINE_MODE in the environment
    EnvSubstrate,   \* SIREN_SUBSTRATE in the environment
    Installs,       \* what the first boot may find: a cache, a packaged seed
    MaxRequests,    \* bound: requests
    MaxFetches,     \* bound: polls that brought rows
    MaxFailures     \* bound: failed writes of the cache, and crashes

ASSUME FeedAssumption ==
    /\ Handlers # {} /\ IsFiniteSet(Handlers)
    /\ EnvOffline \in BOOLEAN
    /\ EnvSubstrate \in {"mock", "real"}
    /\ Installs \subseteq [schema : 0..2, seed : BOOLEAN]
    /\ MaxRequests \in Nat
    /\ MaxFetches \in Nat
    /\ MaxFailures \in Nat

VARIABLES
    override,   \* _offline_override: "none", "offline" or "live"
    rows,       \* FeedState.incidents
    asOf,       \* FeedState.as_of
    serving,    \* FeedState.serving
    label,      \* FeedState.label
    substrate,  \* app.state.substrate
    files,      \* inode -> a snapshot, or "torn"
    cache,      \* the inode snapshot.json names, 0 for none
    tmp,        \* the inode snapshot.json.tmp names, 0 for none
    seed,       \* the packaged seed can be read
    pc,         \* handler -> where it is
    my,         \* handler -> its locals
    created,    \* create_app has returned
    fetches, requests, failures,
    saw,        \* handler -> the switch was live at some time since it began
    alone,      \* handler -> no other was at work while it was
    last        \* what the last handler to end did, and whether alone

feed  == <<rows, asOf, serving, label>>
disk  == <<files, cache, tmp>>
ghost == <<saw, alone, last>>
count == <<fetches, requests, failures>>
feedVars == <<override, feed, substrate, disk, seed, pc, my, created, count, ghost>>

-----------------------------------------------------------------------------
(* The switch                                                              *)

OfflineBy(sw) == IF sw = "none" THEN EnvOffline ELSE sw = "offline"

Offline == OfflineBy(override)

SubstrateChoice == IF Offline THEN "mock" ELSE EnvSubstrate

-----------------------------------------------------------------------------
(* Rows and snapshots                                                      *)

NoRows == [fetch |-> -1, off |-> 0]
Source(f) == [fetch |-> f, off |-> -7]     \* a Seattle wall clock, read as UTC

\* parse_reported_at reads a wall clock in the source's zone.
Converted(r) == [r EXCEPT !.off = @ + 7]

\* Mutant: every read repairs the rows.
MigrateAlways(r, schema) == Converted(r)

\* migrate_incident_row: a cache of before the correction is repaired once.
Migrate(r, schema) == IF schema >= 2 THEN r ELSE Converted(r)

Snapshot(r, a, schema) == [rows |-> r, asOf |-> a, schema |-> schema]
Seed == Snapshot([fetch |-> 0, off |-> 0], 0, 2)

\* A cache an earlier release left behind; schema 1 holds uncorrected clocks.
Old(schema) == Snapshot([fetch |-> 0, off |-> IF schema = 1 THEN -7 ELSE 0], 0, schema)

Torn == Snapshot(NoRows, -1, 0)    \* what json.loads does not accept
Inodes == 1..(Cardinality(Handlers) + 2)

\* read_snapshot: the cache if it parses, else the seed, else nothing.
Cached == IF cache # 0 /\ files[cache] # Torn THEN files[cache]
          ELSE IF seed THEN Seed ELSE Torn

-----------------------------------------------------------------------------
(* Handlers                                                                *)

Idle == [got |-> NoRows, from |-> -1, label |-> "none", file |-> 0, op |-> "none"]

Busy == {h \in Handlers : pc[h] # "idle"}

\* Handler h moves to p, and no field of siren changes.
Goto(h, p) ==
    /\ pc' = [pc EXCEPT ![h] = p]
    /\ UNCHANGED <<override, substrate, created, requests, seed, ghost>>

\* Handler h begins: everyone at work from now on has company.
Enter(h, op, p) ==
    /\ pc[h] = "idle"
    /\ pc' = [pc EXCEPT ![h] = p]
    /\ my' = [my EXCEPT ![h] = [Idle EXCEPT !.op = op]]
    /\ alone' = [k \in Handlers |->
                    IF k = h THEN Busy = {} ELSE alone[k] /\ pc[k] = "idle"]
    /\ UNCHANGED <<feed, substrate, disk, seed, created, fetches, failures, last>>

\* Handler h returns; when it raises nothing catches it: a request is answered
\* 500, a boot does not come up.
End(h, raised) ==
    /\ pc' = [pc EXCEPT ![h] = "idle"]
    /\ my' = [my EXCEPT ![h] = Idle]
    /\ created' = (created \/ ~raised)
    /\ last' = [op |-> my[h].op, alone |-> alone[h], saw |-> saw[h]]
    /\ UNCHANGED <<override, substrate, requests, seed, saw, alone>>

Seen(sw) == [k \in Handlers |-> saw[k] \/ ~OfflineBy(sw)]

\* create_app serves something before the first request: it refreshes.
CreateApp(h) ==
    /\ ~created
    /\ Busy = {}
    /\ Enter(h, "boot", "guard")
    /\ saw' = [saw EXCEPT ![h] = ~Offline]
    /\ UNCHANGED <<override, requests>>

Refresh(h) ==
    /\ created
    /\ requests < MaxRequests
    /\ requests' = requests + 1
    /\ Enter(h, "refresh", "guard")
    /\ saw' = [saw EXCEPT ![h] = ~Offline]
    /\ UNCHANGED override

\* POST /feed/mode: the switch first, then the substrate unless it is kept.
SetMode(h, sw, follow) ==
    /\ created
    /\ requests < MaxRequests
    /\ requests' = requests + 1
    /\ override' = sw
    /\ Enter(h, IF follow THEN "follow" ELSE "keep", IF follow THEN "choose" ELSE "guard")
    /\ saw' = [Seen(sw) EXCEPT ![h] = ~OfflineBy(sw)]

\* Mutant: the substrate follows the environment only.
ChooseByEnv(h) ==
    /\ pc[h] = "choose"
    /\ my' = [my EXCEPT ![h].label = IF EnvOffline THEN "mock" ELSE EnvSubstrate]
    /\ Goto(h, "bind")
    /\ UNCHANGED <<feed, disk, fetches, failures>>

\* build_substrate asks for the switch; its result is assigned later.
Choose(h) ==
    /\ pc[h] = "choose"
    /\ my' = [my EXCEPT ![h].label = SubstrateChoice]
    /\ Goto(h, "bind")
    /\ UNCHANGED <<feed, disk, fetches, failures>>

Bind(h) ==
    /\ pc[h] = "bind"
    /\ substrate' = my[h].label
    /\ pc' = [pc EXCEPT ![h] = "guard"]
    /\ UNCHANGED <<override, feed, disk, seed, my, created, count, ghost>>

\* The handler's own check, refresh's, and fetch_live's.
After(p) == CASE p = "guard" -> "refresh" [] p = "refresh" -> "fetch" [] p = "fetch" -> "send"

\* Mutant: the runtime switch is not consulted.
CheckByEnv(h) ==
    /\ pc[h] \in {"guard", "refresh", "fetch"}
    /\ IF EnvOffline
       THEN Goto(h, "read") /\ my' = [my EXCEPT ![h].label = "offline"]
       ELSE Goto(h, After(pc[h])) /\ UNCHANGED my
    /\ UNCHANGED <<feed, disk, fetches, failures>>

Check(h) ==
    /\ pc[h] \in {"guard", "refresh", "fetch"}
    /\ IF Offline
       THEN Goto(h, "read") /\ my' = [my EXCEPT ![h].label = "offline"]
       ELSE Goto(h, After(pc[h])) /\ UNCHANGED my
    /\ UNCHANGED <<feed, disk, fetches, failures>>

\* urlopen, and rows that can be mapped.
Fetched(h) ==
    /\ pc[h] = "send"
    /\ fetches < MaxFetches
    /\ fetches' = fetches + 1
    /\ my' = [my EXCEPT ![h].got = Converted(Source(fetches + 1)),
                        ![h].from = fetches + 1,
                        ![h].label = "live"]
    /\ Goto(h, "rows")
    /\ UNCHANGED <<feed, disk, failures>>

\* The poll failed, or no row could be mapped.
NotFetched(h) ==
    /\ pc[h] = "send"
    /\ my' = [my EXCEPT ![h].label = "not reached"]
    /\ Goto(h, "read")
    /\ UNCHANGED <<feed, disk, fetches, failures>>

ReadSnapshot(h) ==
    /\ pc[h] = "read"
    /\ my' = [my EXCEPT ![h].got = Migrate(Cached.rows, Cached.schema),
                        ![h].from = Cached.asOf,
                        ![h].label = IF Cached = Torn THEN "none" ELSE @]
    /\ Goto(h, "rows")
    /\ UNCHANGED <<feed, disk, fetches, failures>>

\* The fields are assigned one after the other; with no snapshot at all the
\* as-of stays what it was.
AssignRows(h) ==
    /\ pc[h] = "rows"
    /\ rows' = IF my[h].label = "none" THEN NoRows ELSE my[h].got
    /\ Goto(h, IF my[h].label = "none" THEN "serving" ELSE "asOf")
    /\ UNCHANGED <<asOf, serving, label, disk, my, fetches, failures>>

AssignAsOf(h) ==
    /\ pc[h] = "asOf"
    /\ asOf' = my[h].from
    /\ Goto(h, "serving")
    /\ UNCHANGED <<rows, serving, label, disk, my, fetches, failures>>

\* Mutant: the cached path does not take "live" back.
AssignServingLive(h) ==
    /\ pc[h] = "serving"
    /\ serving' = IF my[h].label = "live" THEN "live" ELSE serving
    /\ Goto(h, "label")
    /\ UNCHANGED <<rows, asOf, label, disk, my, fetches, failures>>

AssignServing(h) ==
    /\ pc[h] = "serving"
    /\ serving' = IF my[h].label = "live" THEN "live" ELSE "snapshot"
    /\ Goto(h, "label")
    /\ UNCHANGED <<rows, asOf, label, disk, my, fetches, failures>>

AssignLabel(h) ==
    /\ pc[h] = "label"
    /\ label' = my[h].label
    /\ IF my[h].label = "live" THEN Goto(h, "open") /\ UNCHANGED my ELSE End(h, FALSE)
    /\ UNCHANGED <<rows, asOf, serving, disk, fetches, failures>>

-----------------------------------------------------------------------------
(* write_snapshot: everybody's temporary file has the same name            *)

Free == Inodes \ ({cache, tmp} \cup {my[h].file : h \in Handlers})

\* Mutant: the snapshot is written in place.
OpenCache(h) ==
    /\ pc[h] = "open"
    /\ LET f == IF cache # 0 THEN cache ELSE CHOOSE i \in Free : \A j \in Free : i <= j IN
       /\ tmp' = f
       /\ files' = [files EXCEPT ![f] = Torn]
       /\ my' = [my EXCEPT ![h].file = f]
    /\ Goto(h, "write")
    /\ UNCHANGED <<feed, cache, fetches, failures>>

OpenTmp(h) ==
    /\ pc[h] = "open"
    /\ LET f == IF tmp # 0 THEN tmp ELSE CHOOSE i \in Free : \A j \in Free : i <= j IN
       /\ tmp' = f
       /\ files' = [files EXCEPT ![f] = Torn]
       /\ my' = [my EXCEPT ![h].file = f]
    /\ Goto(h, "write")
    /\ UNCHANGED <<feed, cache, fetches, failures>>

\* Mutant: what the state holds by now is cached.
ToCacheState(h) == Snapshot(rows, asOf, 2)

ToCache(h) == Snapshot(my[h].got, my[h].from, 2)

\* Over what another handler wrote into the file, a shorter text leaves a tail.
WriteTmp(h) ==
    /\ pc[h] = "write"
    /\ \E over \in {ToCache(h)} \cup (IF files[my[h].file] = Torn THEN {} ELSE {Torn}) :
          files' = [files EXCEPT ![my[h].file] = over]
    /\ Goto(h, "rename")
    /\ UNCHANGED <<feed, cache, tmp, my, fetches, failures>>

\* Mutant: the file is copied, and the temporary one stays.
RenameKept(h) ==
    /\ pc[h] = "rename"
    /\ tmp # 0
    /\ cache' = tmp
    /\ End(h, FALSE)
    /\ UNCHANGED <<feed, files, tmp, fetches, failures>>

Rename(h) ==
    /\ pc[h] = "rename"
    /\ tmp # 0
    /\ cache' = tmp
    /\ tmp' = 0
    /\ End(h, FALSE)
    /\ UNCHANGED <<feed, files, fetches, failures>>

\* Another handler renamed the file away: os.replace raises.
RenameLost(h) ==
    /\ pc[h] = "rename"
    /\ tmp = 0
    /\ End(h, TRUE)
    /\ UNCHANGED <<feed, disk, fetches, failures>>

\* The disk is full, or the directory is not writable.
WriteFails(h) ==
    /\ pc[h] \in {"open", "write"}
    /\ failures < MaxFailures
    /\ failures' = failures + 1
    /\ End(h, TRUE)
    /\ UNCHANGED <<feed, disk, fetches>>

-----------------------------------------------------------------------------

\* A new process: FeedState and the switch start over, the files stay.
NewProcess ==
    /\ created
    /\ failures < MaxFailures
    /\ failures' = failures + 1
    /\ created' = FALSE
    /\ override' = "none"
    /\ rows' = NoRows
    /\ asOf' = -1
    /\ serving' = "snapshot"
    /\ label' = "not reached"
    /\ substrate' = IF EnvOffline THEN "mock" ELSE EnvSubstrate
    /\ pc' = [h \in Handlers |-> "idle"]
    /\ my' = [h \in Handlers |-> Idle]
    /\ last' = [op |-> "crash", alone |-> FALSE, saw |-> FALSE]
    /\ UNCHANGED <<disk, seed, fetches, requests, saw, alone>>

FeedInit ==
    /\ override = "none"
    /\ rows = NoRows
    /\ asOf = -1
    /\ serving = "snapshot"
    /\ label = "not reached"
    /\ substrate = SubstrateChoice
    /\ \E found \in Installs :
        /\ cache = IF found.schema = 0 THEN 0 ELSE 1
        /\ files = [i \in Inodes |-> IF i = cache THEN Old(found.schema) ELSE Torn]
        /\ seed = found.seed
    /\ tmp = 0
    /\ pc = [h \in Handlers |-> "idle"]
    /\ my = [h \in Handlers |-> Idle]
    /\ created = FALSE
    /\ fetches = 0 /\ requests = 0 /\ failures = 0
    /\ saw = [h \in Handlers |-> FALSE]
    /\ alone = [h \in Handlers |-> FALSE]
    /\ last = [op |-> "none", alone |-> FALSE, saw |-> FALSE]

Step(h) ==
    \/ Choose(h) \/ Bind(h) \/ Check(h) \/ Fetched(h) \/ NotFetched(h)
    \/ ReadSnapshot(h)
    \/ AssignRows(h) \/ AssignAsOf(h) \/ AssignServing(h) \/ AssignLabel(h)
    \/ OpenTmp(h) \/ WriteTmp(h) \/ Rename(h) \/ RenameLost(h) \/ WriteFails(h)

FeedNext ==
    \/ \E h \in Handlers : CreateApp(h) \/ Refresh(h)
    \/ \E h \in Handlers, sw \in {"none", "offline", "live"}, follow \in BOOLEAN :
          SetMode(h, sw, follow)
    \/ \E h \in Handlers : Step(h)
    \/ NewProcess

FeedSpec == FeedInit /\ [][FeedNext]_feedVars

-----------------------------------------------------------------------------
(* Properties                                                              *)

\* The values the variables take; an open file and the two names never need
\* more inodes than there are.
FeedTypeOK ==
    /\ override \in {"none", "offline", "live"}
    /\ {rows.fetch, asOf} \subseteq -1..MaxFetches
    /\ serving \in {"live", "snapshot"}
    /\ label \in {"live", "not reached", "offline", "none"}
    /\ substrate \in {"mock", "real"}
    /\ {cache, tmp} \subseteq Inodes \cup {0}
    /\ cache = 0 \/ cache # tmp
    /\ \A h \in Handlers : pc[h] = "open" /\ tmp = 0 => Free # {}

\* A handler that saw the switch offline from its beginning on puts nothing on
\* the wire, by whatever route it came (feed.py, "Offline means offline").
OfflineSendsNothing ==
    \A h \in Handlers : pc[h] = "send" => saw[h]

\* Whatever two overlapping handlers left behind, a refresh that then runs
\* alone leaves rows under their own as-of and their own label, and with the
\* switch offline they are the cache's (service.py, "the as-of label").
AloneItSpeaksTrue ==
    Busy = {} /\ created /\ last.alone =>
        /\ label = "none" <=> rows = NoRows
        /\ label # "none" => rows.fetch = asOf
        /\ serving = "live" <=> label = "live"
        /\ ~last.saw => serving = "snapshot"

\* POST /feed/mode that runs alone leaves no real substrate behind an offline
\* switch, unless the caller asked to keep it.
SubstrateFollows ==
    Busy = {} /\ last.alone /\ last.op = "follow" => substrate = SubstrateChoice

\* What can be read from the cache is what one poll brought, under that poll's
\* as-of, however many handlers assign to the state and write the file.
CacheIsOnePoll ==
    cache # 0 /\ files[cache] # Torn => files[cache].rows.fetch = files[cache].asOf

\* What a handler without company does to the cache leaves it whole: not even
\* a crash between two calls or a write that fails tears it (write_snapshot,
\* "A reader never sees a half-written cache").
Whole == cache = 0 \/ files[cache] # Torn
CacheIsWhole == [][Whole /\ (\A h \in Busy : alone[h]) => Whole']_feedVars

\* No clock is shown that was not converted, and none that was twice.
ClocksAreUtc == rows.off = 0

\* The variables have their types, the substrate is the chosen one, and the
\* snapshot on disk is one poll in UTC (feed.py, write_snapshot and migrate).
FeedIsSound == FeedTypeOK /\ SubstrateFollows /\ CacheIsOnePoll /\ ClocksAreUtc

=============================================================================
