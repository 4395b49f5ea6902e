------------------------------- MODULE Ledger -------------------------------
(***************************************************************************)
(* The hash-chained ledger file and the processes that append to it: the   *)
(* exclusive file lock, the tail read again under it, the write, the       *)
(* fsync, and verify.  Processes are killed, the machine loses what was    *)
(* not synced, a full disk leaves part of a line, and somebody may edit    *)
(* the file.                                                               *)
(*                                                                         *)
(* A line is a record; one that is no JSON entry is Junk.  sha256 is taken *)
(* to be injective: a digest is the tuple of what it covers.               *)
(***************************************************************************)
EXTENDS Naturals, Sequences, FiniteSets

CONSTANTS
    Procs,        \* processes opened on the same data directory
    Bodies,       \* event bodies
    LongBodies,   \* those whose line is longer than the 64 KiB tail window
    MaxLines,     \* bound: lines when a request or a boot starts
    MaxBoots,     \* bound: boots
    MaxCrashes,   \* bound: kills and power losses
    MaxFaults,    \* bound: failed fsyncs
    MaxTears,     \* bound: lines written in part
    MaxAlters     \* bound: lines edited from outside

ASSUME LedgerAssumption ==
    /\ LongBodies \subseteq Bodies
    /\ "edited" \notin Bodies
    /\ "ledger.alarm" \notin Bodies
    /\ "config.loaded" \notin Bodies
    /\ MaxLines \in Nat /\ MaxBoots \in Nat /\ MaxCrashes \in Nat
    /\ MaxFaults \in Nat /\ MaxTears \in Nat /\ MaxAlters \in Nat

VARIABLES
    file,      \* the lines of ledger.jsonl
    ended,     \* the last line ends with a newline
    synced,    \* how many lines an fsync has covered
    lock,      \* the process that holds the flock, as a set of at most one
    pc,        \* per process: where it is
    body,      \* per process: the event being appended
    tail,      \* per process: seq and head, read under the lock
    cache,     \* per process: Ledger._seq and _head
    acked,     \* lines whose append returned
    altered,   \* lines edited from outside
    boots, crashes, faults, tears

disk == <<file, ended, synced, acked, altered>>
vars == <<disk, lock, pc, body, tail, cache, boots, crashes, faults, tears>>

Genesis == <<>>
Digest(s, p, b) == <<s, p, b>>
Line(s, p, b, h) == [ok |-> TRUE, seq |-> s, prev |-> p, body |-> b, sha |-> h]
Entry(s, p, b) == Line(s, p, b, Digest(s, p, b))
Junk == [ok |-> FALSE, seq |-> 0, prev |-> Genesis, body |-> "", sha |-> Genesis]

Events == Bodies \cup {"ledger.alarm", "config.loaded"}
Start  == [seq |-> 0, head |-> Genesis]

-----------------------------------------------------------------------------
(* verify                                                                  *)

\* Mutant: the links are checked and the digests are not recomputed.
BadLink(f, i) ==
    \/ ~f[i].ok
    \/ f[i].seq # i
    \/ f[i].prev # IF i = 1 THEN Genesis ELSE f[i - 1].sha

Bad(f, i) ==
    \/ ~f[i].ok
    \/ f[i].seq # i
    \/ f[i].prev # IF i = 1 THEN Genesis ELSE f[i - 1].sha
    \/ f[i].sha # Digest(f[i].seq, f[i].prev, f[i].body)

BadLines(f) == {i \in DOMAIN f : Bad(f, i)}

\* verify stops at the first bad line and names it.
Verifies(f)    == BadLines(f) = {}
BrokenAt(f, i) == i \in BadLines(f) /\ \A j \in BadLines(f) : i <= j

\* _read_tail at boot: a line that does not parse only moves the counter.
Resumed(f) ==
    LET ok == {i \in DOMAIN f : f[i].ok} IN
    IF ok = {} THEN [seq |-> Len(f), head |-> Genesis]
    ELSE LET i == CHOOSE i \in ok : \A j \in ok : j <= i IN
         [seq |-> f[i].seq + Len(f) - i, head |-> f[i].sha]

-----------------------------------------------------------------------------
(* append                                                                  *)

Last == file[Len(file)]

\* Mutant: a tail that does not parse is passed over.
TailAssumed == TRUE

\* _tail_under_lock parses the last line of a 64 KiB window.
TailReadable == file # <<>> => Last.ok /\ Last.body \notin LongBodies

\* Mutant: the counters in memory are trusted.
TailCached(p) == cache[p]

TailRead(p) ==
    IF file = <<>> THEN Start ELSE [seq |-> Last.seq, head |-> Last.sha]

\* Mutant: no flock.
Unlocked == TRUE

LockFree == lock = {}

Booting(p) == body[p] \in {"ledger.alarm", "config.loaded"}

Request(p, b) ==
    /\ pc[p] = "ready"
    /\ Len(file) < MaxLines
    /\ pc' = [pc EXCEPT ![p] = "asked"]
    /\ body' = [body EXCEPT ![p] = b]
    /\ UNCHANGED <<disk, lock, tail, cache, boots, crashes, faults, tears>>

Lock(p) ==
    /\ pc[p] = "asked"
    /\ LockFree
    /\ TailReadable
    /\ lock' = {p}
    /\ tail' = [tail EXCEPT ![p] = TailRead(p)]
    /\ pc' = [pc EXCEPT ![p] = "locked"]
    /\ UNCHANGED <<disk, body, cache, boots, crashes, faults, tears>>

\* LedgerUnwritable: a request answers 503, a boot does not come up.
Raise(p) ==
    /\ lock' = lock \ {p}
    /\ pc' = [pc EXCEPT ![p] = IF Booting(p) THEN "failed" ELSE "ready"]
    /\ UNCHANGED <<body, tail, cache, boots, crashes>>

RefuseTail(p) ==
    /\ pc[p] = "asked"
    /\ LockFree
    /\ ~TailReadable
    /\ Raise(p)
    /\ UNCHANGED <<disk, faults, tears>>

NewEntry(p) == Entry(tail[p].seq + 1, tail[p].head, body[p])

\* What is written lands behind the last newline: on an unended line it
\* makes one line of two texts.
Added(l) ==
    IF ended THEN Append(file, l) ELSE [file EXCEPT ![Len(file)] = Junk]

Write(p) ==
    /\ pc[p] = "locked"
    /\ file' = Added(NewEntry(p))
    /\ ended' = TRUE
    /\ pc' = [pc EXCEPT ![p] = "written"]
    /\ UNCHANGED <<synced, acked, altered, lock, body, tail, cache, boots,
                   crashes, faults, tears>>

\* The disk fills up within the line, or right before its newline.
WritePart(p) ==
    /\ pc[p] = "locked"
    /\ tears < MaxTears
    /\ tears' = tears + 1
    /\ \E l \in {Junk, NewEntry(p)} : file' = Added(l)
    /\ ended' = FALSE
    /\ Raise(p)
    /\ UNCHANGED <<synced, acked, altered, faults>>

\* Mutant: the append returns without an fsync.
Flushed(p) ==
    /\ pc[p] = "written"
    /\ acked' = acked \cup {[at |-> Len(file), entry |-> NewEntry(p)]}
    /\ lock' = lock \ {p}
    /\ pc' = [pc EXCEPT ![p] = "ready"]
    /\ UNCHANGED <<file, ended, synced, altered, body, tail, cache, boots,
                   crashes, faults, tears>>

\* fsync returns: the append does too.  A boot that appended its alarm goes
\* on to load its config, which appends again.
Sync(p) ==
    /\ pc[p] = "written"
    /\ synced' = Len(file)
    /\ acked' = acked \cup {[at |-> Len(file), entry |-> NewEntry(p)]}
    /\ cache' = [cache EXCEPT ![p] = [seq |-> NewEntry(p).seq, head |-> NewEntry(p).sha]]
    /\ lock' = lock \ {p}
    /\ IF body[p] = "ledger.alarm"
       THEN /\ body' = [body EXCEPT ![p] = "config.loaded"]
            /\ pc' = [pc EXCEPT ![p] = "asked"]
       ELSE /\ pc' = [pc EXCEPT ![p] = "ready"]
            /\ UNCHANGED body
    /\ UNCHANGED <<file, ended, altered, tail, boots, crashes, faults, tears>>

\* The line stays; only the caller is told that it could not be written.
SyncFails(p) ==
    /\ pc[p] = "written"
    /\ faults < MaxFaults
    /\ faults' = faults + 1
    /\ Raise(p)
    /\ UNCHANGED <<disk, tears>>

-----------------------------------------------------------------------------
(* Boots, crashes and edits                                                *)

Boot(p) ==
    /\ pc[p] \in {"down", "failed"}
    /\ boots < MaxBoots
    /\ Len(file) < MaxLines
    /\ boots' = boots + 1
    /\ cache' = [cache EXCEPT ![p] = Resumed(file)]
    /\ body' = [body EXCEPT ![p] = IF Verifies(file) THEN "config.loaded" ELSE "ledger.alarm"]
    /\ pc' = [pc EXCEPT ![p] = "asked"]
    /\ UNCHANGED <<disk, lock, tail, crashes, faults, tears>>

Kill(p) ==
    /\ pc[p] \notin {"down", "failed"}
    /\ crashes < MaxCrashes
    /\ crashes' = crashes + 1
    /\ pc' = [pc EXCEPT ![p] = "down"]
    /\ lock' = lock \ {p}
    /\ UNCHANGED <<disk, body, tail, cache, boots, faults, tears>>

\* The machine stops: some of the lines no fsync covered are gone, and the
\* first of them may be there in part.
PowerLoss ==
    /\ crashes < MaxCrashes
    /\ crashes' = crashes + 1
    /\ pc' = [p \in Procs |-> "down"]
    /\ lock' = {}
    /\ \E k \in synced..Len(file) :
          /\ altered' = altered \cap 1..k
          /\ \/ /\ file' = SubSeq(file, 1, k)
                /\ ended' = (ended \/ k < Len(file))
                /\ synced' = k
                /\ UNCHANGED tears
             \/ /\ k < Len(file)
                /\ tears < MaxTears
                /\ tears' = tears + 1
                /\ \E l \in {Junk, file[k + 1]} : file' = Append(SubSeq(file, 1, k), l)
                /\ ended' = FALSE
                /\ synced' = k + 1
    /\ UNCHANGED <<acked, body, tail, cache, boots, faults>>

\* One field of a line, or its syntax, is changed.
Edits(l) ==
    {Junk,
     Line(l.seq + 1, l.prev, l.body, l.sha), Line(l.seq, <<"edited">>, l.body, l.sha),
     Line(l.seq, l.prev, "edited", l.sha), Line(l.seq, l.prev, l.body, <<"edited">>)}

Alter(i) ==
    /\ Cardinality(altered) < MaxAlters
    /\ i \notin altered
    /\ file[i].ok
    /\ altered' = altered \cup {i}
    /\ \E l \in Edits(file[i]) : file' = [file EXCEPT ![i] = l]
    /\ UNCHANGED <<ended, synced, acked, lock, pc, body, tail, cache, boots,
                   crashes, faults, tears>>

Init ==
    /\ file = <<>>
    /\ ended = TRUE
    /\ synced = 0
    /\ lock = {}
    /\ pc = [p \in Procs |-> "down"]
    /\ body = [p \in Procs |-> "config.loaded"]
    /\ tail = [p \in Procs |-> Start]
    /\ cache = [p \in Procs |-> Start]
    /\ acked = {}
    /\ altered = {}
    /\ boots = 0 /\ crashes = 0 /\ faults = 0 /\ tears = 0

Appends(p) ==
    \/ \E b \in Bodies : Request(p, b)
    \/ Lock(p) \/ RefuseTail(p)
    \/ Write(p) \/ WritePart(p)
    \/ Sync(p) \/ SyncFails(p)

Next ==
    \/ \E p \in Procs : Appends(p) \/ Boot(p) \/ Kill(p)
    \/ PowerLoss
    \/ \E i \in DOMAIN file : Alter(i)

Spec == Init /\ [][Next]_vars

-----------------------------------------------------------------------------
(* Properties                                                              *)

\* The values the variables take, digests and texts of lines aside.
TypeOK ==
    /\ ended \in BOOLEAN
    /\ synced \in 0..Len(file)
    /\ lock \in {{}} \cup {{p} : p \in Procs}
    /\ pc \in [Procs -> {"down", "failed", "ready", "asked", "locked", "written"}]
    /\ \A p \in Procs : pc[p] \in {"locked", "written"} <=> p \in lock
    /\ body \in [Procs -> Events]
    /\ \A i \in DOMAIN file : file[i].seq \in Nat
    /\ \A p \in Procs : tail[p].seq \in Nat /\ cache[p].seq \in Nat
    /\ \A a \in acked : a.at \in Nat
    /\ altered \subseteq DOMAIN file
    /\ boots \in 0..MaxBoots /\ crashes \in 0..MaxCrashes
    /\ faults \in 0..MaxFaults /\ tears \in 0..MaxTears

\* As long as no write was cut off, and however many processes append, are
\* killed and come back, the file is one chain, and verify breaks exactly at
\* the first line somebody edited (README: "One chain, however many writers",
\* "naming the sequence number").
NamesTheEdit ==
    tears = 0 =>
    IF altered = {} THEN Verifies(file)
    ELSE \E i \in altered : BrokenAt(file, i) /\ \A j \in altered : i <= j

\* An append that returned has its line in the file for good: no crash takes
\* it and no later append damages it (Ledger.append, "a caller that sees
\* this return knows the line is durable").
Durable ==
    \A a \in acked :
        a.at \in altered \/ (a.at <= Len(file) /\ file[a.at] = a.entry)

\* A line written in part stays the last one: what came before it is a chain
\* and nothing is ever chained onto it (_tail_under_lock, "Fail closed rather
\* than start a second branch").
TearIsLast == altered = {} => BadLines(file) \subseteq {Len(file)}

\* A line in place when its append returned is there after every later step.
AckedIsKept ==
    [][\A a \in acked :
          a.at \in DOMAIN file \ altered' /\ file[a.at] = a.entry =>
              a.at \in DOMAIN file' /\ file'[a.at] = a.entry]_vars

\* The file and its processes have their types, and nothing follows a torn line
\* (append, _tail).
FileIsSound == TypeOK /\ TearIsLast

=============================================================================
