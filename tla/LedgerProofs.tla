---------------------------- MODULE LedgerProofs ----------------------------
(***************************************************************************)
(* The chain, what an append promises and what a line written in part does *)
(* to both, for any number of processes, boots, kills, power losses,       *)
(* failed fsyncs, full disks and edits.                                    *)
(***************************************************************************)
EXTENDS Ledger, SequenceTheorems, WellFoundedInduction, TLAPS

IsSequence == \E S : file \in Seq(S)

\* What the proofs need of the types, where no line is ever torn.
Shape ==
    /\ IsSequence
    /\ ended = TRUE
    /\ tears = 0
    /\ altered \subseteq DOMAIN file
    /\ lock \subseteq Procs
    /\ \A p, r \in lock : p = r
    /\ \A p \in Procs : pc[p] \in {"locked", "written"} => p \in lock
    /\ pc \in [Procs -> {"down", "failed", "ready", "asked", "locked", "written"}]
    /\ body \in [Procs -> Events]
    /\ DOMAIN tail = Procs

\* Lines before every edit are good, the first edited one is bad.
Chained ==
    \A i \in DOMAIN file :
        /\ (\A j \in altered : i < j) => ~Bad(file, i) /\ file[i].body \in Events
        /\ i \in altered /\ (\A j \in altered : i <= j) => Bad(file, i)

\* Whoever holds the lock and has not written yet knows the real tail.
TailIsFresh ==
    \A p \in Procs : pc[p] = "locked" /\ altered = {} => tail[p] = TailRead(p)

Invariant == Shape /\ Chained /\ TailIsFresh

LEMMA FileIsSeq ==
  ASSUME IsSequence
  PROVE  Len(file) \in Nat /\ DOMAIN file = 1..Len(file)
<1>1. PICK S : file \in Seq(S)
  BY DEF IsSequence
<1> QED
  BY <1>1, LenProperties

LEMMA Appended ==
  ASSUME IsSequence, NEW l, file' = Append(file, l)
  PROVE  /\ IsSequence'
         /\ DOMAIN file' = 1..(Len(file) + 1)
         /\ Len(file') = Len(file) + 1
         /\ \A i \in DOMAIN file : file'[i] = file[i]
         /\ file'[Len(file) + 1] = l
<1>1. PICK S : file \in Seq(S)
  BY DEF IsSequence
<1>2. file \in Seq(S \cup {l})
  BY <1>1, SeqMonotonic
<1>3. file' \in Seq(S \cup {l})
  BY <1>2, AppendProperties
<1>4. IsSequence'
  BY <1>3 DEF IsSequence
<1>5. /\ Len(file') = Len(file) + 1
      /\ \A i \in 1..Len(file) : file'[i] = file[i]
      /\ file'[Len(file) + 1] = l
  BY <1>2, AppendProperties
<1>6. DOMAIN file' = 1..Len(file')
  BY <1>3, LenProperties
<1> QED
  BY <1>4, <1>5, <1>6, FileIsSeq

LEMMA Truncated ==
  ASSUME IsSequence, NEW k \in 0..Len(file), file' = SubSeq(file, 1, k)
  PROVE  /\ IsSequence'
         /\ Len(file') = k
         /\ DOMAIN file' = 1..k
         /\ \A i \in DOMAIN file' : i \in DOMAIN file /\ file'[i] = file[i]
<1>1. PICK S : file \in Seq(S)
  BY DEF IsSequence
<1>2. Len(file) \in Nat /\ DOMAIN file = 1..Len(file)
  BY FileIsSeq
<1>3. /\ file' \in Seq(S)
      /\ Len(file') = k
      /\ \A i \in 1..k : file'[i] = file[i]
  BY <1>1, <1>2, SubSeqProperties
<1>4. IsSequence'
  BY <1>3 DEF IsSequence
<1> QED
  BY <1>2, <1>3, <1>4, LenProperties

LEMMA Edited ==
  ASSUME IsSequence, NEW i \in DOMAIN file, NEW l, file' = [file EXCEPT ![i] = l]
  PROVE  /\ IsSequence'
         /\ Len(file') = Len(file)
         /\ DOMAIN file' = DOMAIN file
         /\ \A j \in DOMAIN file : file'[j] = IF j = i THEN l ELSE file[j]
<1>1. PICK S : file \in Seq(S)
  BY DEF IsSequence
<1>2. file \in Seq(S \cup {l})
  BY <1>1, SeqMonotonic
<1>3. /\ file' \in Seq(S \cup {l})
      /\ Len(file') = Len(file)
      /\ \A j \in DOMAIN file : file'[j] = IF j = i THEN l ELSE file[j]
  BY <1>2, ExceptSeq, LenProperties
<1>4. IsSequence'
  BY <1>3 DEF IsSequence
<1> QED
  BY <1>2, <1>3, <1>4, LenProperties

-----------------------------------------------------------------------------
LEMMA InitHolds == Init => Invariant
<1> SUFFICES ASSUME Init PROVE Invariant
  OBVIOUS
<1>1. file \in Seq({}) /\ DOMAIN file = {}
  BY EmptySeq DEF Init
<1>2. IsSequence
  BY <1>1 DEF IsSequence
<1> QED
  BY <1>1, <1>2 DEF Init, Invariant, Shape, Chained, TailIsFresh, Events

\* Steps that leave the disk alone.
LEMMA QuietSteps ==
  ASSUME Invariant, NEW p \in Procs,
         \/ \E b \in Bodies : Request(p, b)
         \/ Lock(p) \/ RefuseTail(p) \/ Sync(p) \/ SyncFails(p)
         \/ Boot(p) \/ Kill(p)
  PROVE  Invariant'
<1> USE DEF Invariant
<1>1. file' = file /\ altered' = altered /\ ended' = ended /\ tears' = tears
  BY DEF Request, Lock, RefuseTail, Sync, SyncFails, Boot, Kill, disk
<1>2. Chained'
  BY <1>1 DEF Chained, Bad
<1>3. /\ lock' \subseteq Procs
      /\ \A q, r \in lock' : q = r
      /\ \A q \in Procs : pc'[q] \in {"locked", "written"} => q \in lock'
      /\ pc' \in [Procs -> {"down", "failed", "ready", "asked", "locked", "written"}]
      /\ body' \in [Procs -> Events]
      /\ DOMAIN tail' = Procs
  <2>1. CASE \E b \in Bodies : Request(p, b)
    BY <2>1 DEF Shape, Request, Events
  <2>2. CASE Lock(p)
    BY <2>2 DEF Shape, Lock, LockFree
  <2>3. CASE RefuseTail(p)
    BY <2>3 DEF Shape, RefuseTail, Raise, LockFree
  <2>4. CASE Sync(p)
    BY <2>4 DEF Shape, Sync, Events
  <2>5. CASE SyncFails(p)
    BY <2>5 DEF Shape, SyncFails, Raise
  <2>6. CASE Boot(p)
    BY <2>6 DEF Shape, Boot, Events
  <2>7. CASE Kill(p)
    BY <2>7 DEF Shape, Kill
  <2> QED
    BY <2>1, <2>2, <2>3, <2>4, <2>5, <2>6, <2>7
<1>4. Shape'
  BY <1>1, <1>3 DEF Shape, IsSequence
<1>5. \A q \in Procs : pc'[q] = "locked" =>
         \/ pc[q] = "locked" /\ tail'[q] = tail[q]
         \/ tail'[q] = TailRead(q)
  BY DEF Shape, Request, Lock, RefuseTail, Raise, Sync, SyncFails, Boot, Kill
<1>6. TailIsFresh'
  BY <1>1, <1>5 DEF TailIsFresh, TailRead, Last
<1> QED
  BY <1>2, <1>4, <1>6

LEMMA WriteStep ==
  ASSUME Invariant, NEW p \in Procs, Write(p)
  PROVE  Invariant'
<1>0. PICK n : n = Len(file) + 1
  OBVIOUS
<1>1. /\ pc[p] = "locked" /\ p \in lock
      /\ file' = Append(file, NewEntry(p))
      /\ altered' = altered /\ lock' = lock /\ body' = body /\ tail' = tail
      /\ ended' = TRUE /\ tears' = tears
      /\ pc' = [pc EXCEPT ![p] = "written"]
  BY DEF Write, Added, Invariant, Shape
<1>2. /\ IsSequence'
      /\ DOMAIN file' = 1..n
      /\ \A i \in DOMAIN file : file'[i] = file[i]
      /\ file'[n] = NewEntry(p)
      /\ Len(file) \in Nat /\ DOMAIN file = 1..Len(file)
  BY <1>0, <1>1, Appended, FileIsSeq DEF Invariant, Shape
<1>3. \A i \in DOMAIN file : Bad(file, i)' <=> Bad(file, i)
  BY <1>2 DEF Bad
<1>4. /\ NewEntry(p).ok
      /\ NewEntry(p).seq = tail[p].seq + 1
      /\ NewEntry(p).prev = tail[p].head
      /\ NewEntry(p).body = body[p]
      /\ NewEntry(p).sha = Digest(tail[p].seq + 1, tail[p].head, body[p])
  BY DEF NewEntry, Entry, Line
<1>5. ASSUME altered = {}
      PROVE  ~Bad(file, n)'
  <2>1. tail[p] = TailRead(p)
    BY <1>1, <1>5 DEF Invariant, TailIsFresh
  <2>2. CASE file = <<>>
    <3>1. Len(file) = 0
      BY <2>2
    <3>2. tail[p].seq = 0 /\ tail[p].head = Genesis
      BY <2>1, <2>2 DEF TailRead, Start
    <3> QED
      BY <1>0, <1>2, <1>4, <3>1, <3>2 DEF Bad
  <2>3. CASE file # <<>>
    <3>1. Len(file) # 0
      <4>1. PICK S : file \in Seq(S)
        BY DEF Invariant, Shape, IsSequence
      <4> QED
        BY <4>1, <2>3, EmptySeq
    <3>2. Len(file) \in DOMAIN file
      BY <1>2, <3>1
    <3>3. ~Bad(file, Len(file))
      BY <1>5, <3>2 DEF Invariant, Chained
    <3>4. file[Len(file)].seq = Len(file)
      BY <3>3 DEF Bad
    <3>5. tail[p].seq = Len(file) /\ tail[p].head = file[Len(file)].sha
      BY <2>1, <2>3, <3>4 DEF TailRead, Last
    <3>6. n # 1 /\ n - 1 = Len(file) /\ file'[n - 1] = file[Len(file)]
      BY <1>0, <1>2, <3>1, <3>2
    <3> QED
      BY <1>0, <1>2, <1>4, <3>5, <3>6 DEF Bad
  <2> QED
    BY <2>2, <2>3
<1>6. altered # {} => \E j \in altered : j < n
  BY <1>0, <1>2 DEF Invariant, Shape
<1>7. body[p] \in Events
  BY DEF Invariant, Shape
<1>8. Chained'
  <2> SUFFICES ASSUME NEW i \in DOMAIN file'
      PROVE  /\ (\A j \in altered : i < j) => ~Bad(file, i)' /\ file'[i].body \in Events
             /\ i \in altered /\ (\A j \in altered : i <= j) => Bad(file, i)'
    BY <1>1 DEF Chained
  <2>1. CASE i \in DOMAIN file
    BY <1>2, <1>3, <2>1 DEF Invariant, Chained
  <2>2. CASE i = n
    <3>1. n \notin altered
      BY <1>0, <1>2 DEF Invariant, Shape
    <3>2. (\A j \in altered : n < j) => altered = {}
      BY <1>0, <1>2, <1>6 DEF Invariant, Shape
    <3> QED
      BY <1>0, <1>1, <1>2, <1>4, <1>5, <1>7, <2>2, <3>1, <3>2
  <2> QED
    BY <1>0, <1>2, <2>1, <2>2
<1>9. Shape'
  <2>1. pc' \in [Procs -> {"down", "failed", "ready", "asked", "locked", "written"}]
    BY <1>1 DEF Invariant, Shape
  <2>2. \A q \in Procs : pc'[q] \in {"locked", "written"} => q \in lock'
    BY <1>1 DEF Invariant, Shape
  <2>3. altered' \subseteq DOMAIN file'
    BY <1>0, <1>1, <1>2 DEF Invariant, Shape
  <2> QED
    BY <1>1, <1>2, <2>1, <2>2, <2>3 DEF Invariant, Shape
<1>10. TailIsFresh'
  <2>1. \A q \in Procs : pc'[q] # "locked"
    BY <1>1 DEF Invariant, Shape
  <2> QED
    BY <2>1 DEF TailIsFresh
<1> QED
  BY <1>8, <1>9, <1>10 DEF Invariant

LEMMA PowerLossStep ==
  ASSUME Invariant, tears' = 0, synced \in 0..Len(file), PowerLoss
  PROVE  Invariant'
<1>1. /\ pc' = [p \in Procs |-> "down"] /\ lock' = {}
      /\ body' = body /\ tail' = tail
  BY DEF PowerLoss
<1>2. PICK k \in synced..Len(file) :
         /\ altered' = altered \cap 1..k
         /\ file' = SubSeq(file, 1, k)
         /\ ended' = TRUE
         /\ tears' = tears
  <2>1. tears' # tears + 1 /\ ended = TRUE
    BY DEF Invariant, Shape
  <2>2. PICK k \in synced..Len(file) :
           /\ altered' = altered \cap 1..k
           /\ file' = SubSeq(file, 1, k)
           /\ ended' = (ended \/ k < Len(file))
           /\ tears' = tears
    BY <2>1 DEF PowerLoss
  <2>3. ended' = TRUE
    BY <2>1, <2>2, Zenon
  <2> QED
    BY <2>2, <2>3
<1>3. k \in 0..Len(file)
  BY <1>2, FileIsSeq DEF Invariant, Shape
<1>4. /\ IsSequence'
      /\ DOMAIN file' = 1..k
      /\ \A i \in DOMAIN file' : i \in DOMAIN file /\ file'[i] = file[i]
  BY <1>2, <1>3, Truncated DEF Invariant, Shape
<1>5. Shape'
  <2>1. \A p \in Procs : pc'[p] = "down"
    BY <1>1
  <2>2. pc' \in [Procs -> {"down", "failed", "ready", "asked", "locked", "written"}]
    BY <1>1
  <2>3. altered' \subseteq DOMAIN file'
    BY <1>2, <1>4
  <2>4. body' \in [Procs -> Events] /\ DOMAIN tail' = Procs
    BY <1>1 DEF Invariant, Shape
  <2>5. lock' \subseteq Procs /\ (\A p, r \in lock' : p = r)
    BY <1>1
  <2>6. ended' = TRUE /\ tears' = 0
    BY <1>2 DEF Invariant, Shape
  <2> QED
    BY <1>4, <2>1, <2>2, <2>3, <2>4, <2>5, <2>6 DEF Shape
<1>6. \A i \in DOMAIN file' : Bad(file, i)' <=> Bad(file, i)
  <2> SUFFICES ASSUME NEW i \in DOMAIN file' PROVE Bad(file, i)' <=> Bad(file, i)
    OBVIOUS
  <2>1. i # 1 => i - 1 \in DOMAIN file'
    BY <1>3, <1>4
  <2> QED
    BY <1>4, <2>1 DEF Bad
<1>7. Chained'
  <2> SUFFICES ASSUME NEW i \in DOMAIN file'
      PROVE  /\ (\A j \in altered' : i < j) => ~Bad(file, i)' /\ file'[i].body \in Events
             /\ i \in altered' /\ (\A j \in altered' : i <= j) => Bad(file, i)'
    BY DEF Chained
  <2>1. \A j \in altered : j \in altered' \/ i < j
    BY <1>2, <1>3, <1>4, FileIsSeq DEF Invariant, Shape
  <2>2. altered' \subseteq altered
    BY <1>2
  <2>3. i \in DOMAIN file /\ file'[i] = file[i] /\ (Bad(file, i)' <=> Bad(file, i))
    BY <1>4, <1>6
  <2>4. (\A j \in altered' : i < j) => (\A j \in altered : i < j)
    BY <2>1
  <2>5. i \in 1..k /\ k \in Nat
    BY <1>3, <1>4, FileIsSeq DEF Invariant, Shape
  <2>6. \A j \in altered : i < j => i <= j
    BY <2>5, FileIsSeq DEF Invariant, Shape
  <2>7. (\A j \in altered' : i <= j) => (\A j \in altered : i <= j)
    BY <2>1, <2>6
  <2> QED
    BY <2>2, <2>3, <2>4, <2>7 DEF Invariant, Chained
<1>8. TailIsFresh'
  BY <1>1 DEF TailIsFresh
<1> QED
  BY <1>5, <1>7, <1>8 DEF Invariant

LEMMA AlterStep ==
  ASSUME Invariant, NEW i \in DOMAIN file, Alter(i)
  PROVE  Invariant'
<1>1. PICK l \in Edits(file[i]) : file' = [file EXCEPT ![i] = l]
  BY DEF Alter
<1>2. /\ altered' = altered \cup {i} /\ i \notin altered
      /\ ended' = ended /\ lock' = lock /\ pc' = pc /\ body' = body
      /\ tail' = tail /\ tears' = tears
  BY DEF Alter
<1>3. /\ IsSequence'
      /\ DOMAIN file' = DOMAIN file
      /\ DOMAIN file = 1..Len(file) /\ Len(file) \in Nat
      /\ \A j \in DOMAIN file : file'[j] = IF j = i THEN l ELSE file[j]
  BY <1>1, Edited, FileIsSeq DEF Invariant, Shape
<1>4. Shape'
  BY <1>2, <1>3 DEF Invariant, Shape
<1>5. \A j \in DOMAIN file : j < i => (Bad(file, j)' <=> Bad(file, j))
  <2> SUFFICES ASSUME NEW j \in DOMAIN file, j < i PROVE Bad(file, j)' <=> Bad(file, j)
    OBVIOUS
  <2>1. file'[j] = file[j] /\ (j # 1 => file'[j - 1] = file[j - 1])
    BY <1>3
  <2> QED
    BY <2>1 DEF Bad
<1>6. ASSUME \A j \in altered : i < j
      PROVE  Bad(file, i)'
  <2>1. ~Bad(file, i) /\ file[i].body \in Events
    BY <1>6 DEF Invariant, Chained
  <2>2. /\ file'[i] = l
        /\ i # 1 => file'[i - 1] = file[i - 1]
        /\ i \in Nat
    BY <1>3
  <2>3. CASE l = Junk
    <3>1. ~l.ok
      BY <2>3 DEF Junk
    <3> QED
      BY <2>2, <3>1 DEF Bad
  <2>4. CASE l = Line(file[i].seq + 1, file[i].prev, file[i].body, file[i].sha)
    <3>1. file[i].seq = i /\ l.seq = i + 1
      BY <2>1, <2>4 DEF Bad, Line
    <3> QED
      BY <2>2, <3>1 DEF Bad
  <2>5. CASE l = Line(file[i].seq, <<"edited">>, file[i].body, file[i].sha)
    <3>1. l.prev = <<"edited">> /\ l.sha = Digest(file[i].seq, file[i].prev, file[i].body)
      BY <2>1, <2>5 DEF Bad, Line
    <3>2. file[i].prev # <<"edited">>
      <4>1. CASE i = 1
        <5>1. file[i].prev = <<>>
          BY <2>1, <4>1 DEF Bad, Genesis
        <5> QED
          BY <5>1
      <4>2. CASE i # 1
        <5>1. i - 1 \in DOMAIN file /\ \A j \in altered : i - 1 < j
          BY <1>3, <1>6, <4>2 DEF Invariant, Shape
        <5>2. ~Bad(file, i - 1)
          BY <5>1 DEF Invariant, Chained
        <5>3. /\ file[i].prev = file[i - 1].sha
              /\ file[i - 1].sha = Digest(file[i - 1].seq, file[i - 1].prev, file[i - 1].body)
          BY <2>1, <4>2, <5>2 DEF Bad
        <5> QED
          BY <5>3 DEF Digest
      <4> QED
        BY <4>1, <4>2
    <3>3. l.sha # Digest(l.seq, l.prev, l.body)
      BY <3>1, <3>2 DEF Digest
    <3> QED
      BY <2>2, <3>3 DEF Bad
  <2>6. CASE l = Line(file[i].seq, file[i].prev, "edited", file[i].sha)
    <3>1. l.body = "edited" /\ l.sha = Digest(file[i].seq, file[i].prev, file[i].body)
      BY <2>1, <2>6 DEF Bad, Line
    <3>2. file[i].body # "edited"
      BY <2>1, LedgerAssumption DEF Events
    <3>3. l.sha # Digest(l.seq, l.prev, l.body)
      BY <3>1, <3>2 DEF Digest
    <3> QED
      BY <2>2, <3>3 DEF Bad
  <2>7. CASE l = Line(file[i].seq, file[i].prev, file[i].body, <<"edited">>)
    <3>1. l.sha = <<"edited">>
      BY <2>7 DEF Line
    <3>2. <<"edited">> # Digest(l.seq, l.prev, l.body)
      BY DEF Digest
    <3> QED
      BY <2>2, <3>1, <3>2 DEF Bad
  <2> QED
    BY <1>1, <2>3, <2>4, <2>5, <2>6, <2>7 DEF Edits
<1>7. Chained'
  <2> SUFFICES ASSUME NEW j \in DOMAIN file
      PROVE  /\ (\A a \in altered' : j < a) => ~Bad(file, j)' /\ file'[j].body \in Events
             /\ j \in altered' /\ (\A a \in altered' : j <= a) => Bad(file, j)'
    BY <1>3 DEF Chained
  <2>1. CASE j < i
    BY <1>2, <1>3, <1>5, <2>1 DEF Invariant, Chained
  <2>2. CASE j = i
    BY <1>2, <1>3, <1>6, <2>2 DEF Invariant, Shape
  <2>3. CASE i < j
    BY <1>2, <1>3, <2>3
  <2> QED
    BY <1>3, <2>1, <2>2, <2>3
<1>8. TailIsFresh'
  BY <1>2 DEF TailIsFresh
<1> QED
  BY <1>4, <1>7, <1>8 DEF Invariant

LEMMA StepHolds ==
  ASSUME Invariant, tears' = 0, synced \in 0..Len(file), [Next]_vars
  PROVE  Invariant'
<1>1. ASSUME NEW p \in Procs, WritePart(p) PROVE FALSE
  BY <1>1 DEF WritePart, Invariant, Shape
<1>2. CASE UNCHANGED vars
  BY <1>2 DEF vars, disk, Invariant, Shape, IsSequence, Chained, Bad,
    TailIsFresh, TailRead, Last
<1> QED
  BY <1>1, <1>2, QuietSteps, WriteStep, PowerLossStep, AlterStep
    DEF Next, Appends

-----------------------------------------------------------------------------
(* What was synced.                                                        *)

\* Only lines within the file are counted as synced, an append that returned
\* is among them, and the line its holder is about to sync is the last one.
Kept ==
    /\ synced \in 0..Len(file)
    /\ \A a \in acked :
          a.at \in 1..synced /\ (a.at \in altered \/ file[a.at] = a.entry)
    /\ \A p \in Procs : pc[p] = "written" =>
          /\ file # <<>>
          /\ Len(file) \in altered \/ Last = NewEntry(p)

LEMMA KeptInit == Init => Kept
<1> SUFFICES ASSUME Init PROVE Kept
  OBVIOUS
<1>1. Len(file) = 0 /\ synced = 0
  BY DEF Init
<1> QED
  BY <1>1 DEF Init, Kept

LEMMA KeptStep ==
  ASSUME Invariant, Kept, tears' = 0, [Next]_vars
  PROVE  Kept'
<1> USE DEF Invariant
<1>0. Len(file) \in Nat /\ DOMAIN file = 1..Len(file) /\ IsSequence
  BY FileIsSeq DEF Shape
<1>1. ASSUME NEW p \in Procs,
             \/ \E b \in Bodies : Request(p, b)
             \/ Lock(p) \/ RefuseTail(p) \/ SyncFails(p) \/ Boot(p) \/ Kill(p)
      PROVE  Kept'
  <2>1. file' = file /\ altered' = altered /\ synced' = synced /\ acked' = acked
    BY <1>1 DEF Request, Lock, RefuseTail, SyncFails, Boot, Kill, disk
  <2>2. \A q \in Procs : pc'[q] = "written" =>
           pc[q] = "written" /\ tail'[q] = tail[q] /\ body'[q] = body[q]
    BY <1>1 DEF Shape, Request, Lock, RefuseTail, Raise, SyncFails, Boot, Kill
  <2> QED
    BY <2>1, <2>2 DEF Kept, Last, NewEntry
<1>2. ASSUME NEW p \in Procs, Write(p)
      PROVE  Kept'
  <2>1. /\ pc[p] = "locked" /\ p \in lock /\ pc' = [pc EXCEPT ![p] = "written"]
        /\ file' = Append(file, NewEntry(p))
        /\ altered' = altered /\ synced' = synced /\ acked' = acked
        /\ tail' = tail /\ body' = body
    BY <1>2 DEF Write, Added, Shape
  <2>2. /\ Len(file') = Len(file) + 1
        /\ \A i \in DOMAIN file : file'[i] = file[i]
        /\ file'[Len(file) + 1] = NewEntry(p)
        /\ IsSequence'
    BY <1>0, <2>1, Appended
  <2>3. \A q \in Procs : pc'[q] = "written" => q = p
    BY <2>1 DEF Shape
  <2>4. Last' = NewEntry(p) /\ NewEntry(p)' = NewEntry(p)
    BY <2>1, <2>2 DEF Last, NewEntry
  <2>5. file' # <<>>
    BY <1>0, <2>2
  <2>6. synced' \in 0..Len(file')
    BY <1>0, <2>1, <2>2 DEF Kept
  <2>7. \A a \in acked' :
           a.at \in 1..synced' /\ (a.at \in altered' \/ file'[a.at] = a.entry)
    BY <1>0, <2>1, <2>2 DEF Kept
  <2>8. \A q \in Procs : pc'[q] = "written" => Last' = NewEntry(q)'
    BY <2>3, <2>4
  <2> QED
    BY <2>5, <2>6, <2>7, <2>8 DEF Kept
<1>3. ASSUME NEW p \in Procs, Sync(p)
      PROVE  Kept'
  <2>1. /\ pc[p] = "written" /\ file' = file /\ altered' = altered
        /\ synced' = Len(file)
        /\ acked' = acked \cup {[at |-> Len(file), entry |-> NewEntry(p)]}
    BY <1>3 DEF Sync
  <2>2. file # <<>> /\ (Len(file) \in altered \/ file[Len(file)] = NewEntry(p))
    BY <2>1 DEF Kept, Last
  <2>3. Len(file) # 0
    <3>1. PICK S : file \in Seq(S)
      BY <1>0 DEF IsSequence
    <3> QED
      BY <3>1, <2>2, EmptySeq
  <2>4. \A a \in acked' :
           a.at \in 1..synced' /\ (a.at \in altered' \/ file'[a.at] = a.entry)
    BY <1>0, <2>1, <2>2, <2>3 DEF Kept
  <2>5. \A q \in Procs : pc'[q] # "written"
    BY <1>3, <2>1 DEF Shape, Sync
  <2> QED
    BY <1>0, <2>1, <2>4, <2>5 DEF Kept
<1>4. CASE PowerLoss
  <2>1. tears' # tears + 1
    BY DEF Shape
  <2>2. PICK k \in synced..Len(file) :
           /\ altered' = altered \cap 1..k
           /\ file' = SubSeq(file, 1, k)
           /\ synced' = k
    BY <1>4, <2>1 DEF PowerLoss
  <2>3. acked' = acked /\ pc' = [p \in Procs |-> "down"]
    BY <1>4 DEF PowerLoss
  <2>4. k \in 0..Len(file) /\ synced \in 0..k
    BY <1>0, <2>2 DEF Kept
  <2>5. /\ Len(file') = k
        /\ \A i \in 1..k : file'[i] = file[i]
    BY <1>0, <2>2, <2>4, Truncated
  <2>6. \A a \in acked' :
           a.at \in 1..synced' /\ (a.at \in altered' \/ file'[a.at] = a.entry)
    BY <2>2, <2>3, <2>4, <2>5 DEF Kept
  <2>7. \A p \in Procs : pc'[p] # "written"
    BY <2>3
  <2> QED
    BY <2>2, <2>4, <2>5, <2>6, <2>7 DEF Kept
<1>5. ASSUME NEW i \in DOMAIN file, Alter(i)
      PROVE  Kept'
  <2>1. PICK l : file' = [file EXCEPT ![i] = l]
    BY <1>5 DEF Alter
  <2>2. /\ altered' = altered \cup {i} /\ synced' = synced /\ acked' = acked
        /\ pc' = pc /\ tail' = tail /\ body' = body
    BY <1>5 DEF Alter
  <2>3. /\ Len(file') = Len(file)
        /\ \A j \in DOMAIN file : file'[j] = IF j = i THEN l ELSE file[j]
    BY <1>0, <2>1, Edited
  <2>4. file' # <<>>
    BY <1>0, <2>3
  <2>5. Len(file) \in altered' \/ Last' = Last
    BY <1>0, <2>2, <2>3 DEF Last
  <2>6. \A q \in Procs : NewEntry(q)' = NewEntry(q)
    BY <2>2 DEF NewEntry
  <2>7. \A p \in Procs : pc'[p] = "written" =>
           Len(file') \in altered' \/ Last' = NewEntry(p)'
    BY <2>2, <2>3, <2>5, <2>6 DEF Kept
  <2>8. \A a \in acked' :
           a.at \in 1..synced' /\ (a.at \in altered' \/ file'[a.at] = a.entry)
    BY <1>0, <2>2, <2>3 DEF Kept
  <2>9. synced' \in 0..Len(file')
    BY <2>2, <2>3 DEF Kept
  <2> QED
    BY <2>4, <2>7, <2>8, <2>9 DEF Kept
<1>6. ASSUME NEW p \in Procs, WritePart(p) PROVE FALSE
  BY <1>6 DEF WritePart, Shape
<1>7. CASE UNCHANGED vars
  BY <1>7 DEF vars, disk, Kept, Last, NewEntry
<1> QED
  BY <1>1, <1>2, <1>3, <1>4, <1>5, <1>6, <1>7 DEF Next, Appends

-----------------------------------------------------------------------------
(* The theorems                                                            *)

LEMMA LeastEdit ==
  ASSUME altered \subseteq Nat, altered # {}
  PROVE  \E i \in altered : \A j \in altered : i <= j
<1>1. IsWellFoundedOn(OpToRel(<, Nat), Nat)
  BY NatLessThanWellFounded
<1>2. PICK i \in altered : \A j \in altered : ~(<<j, i>> \in OpToRel(<, Nat))
  BY <1>1, WFMin
<1>3. ASSUME NEW j \in altered
      PROVE  i <= j
  <2>1. j \in Nat /\ i \in Nat
    OBVIOUS
  <2>2. ~(j < i)
    BY <1>2, <2>1 DEF OpToRel
  <2> QED
    BY <2>1, <2>2
<1> QED
  BY <1>3

LEMMA ChainedNames ==
  ASSUME Invariant
  PROVE  NamesTheEdit
<1>0. altered \subseteq DOMAIN file /\ DOMAIN file = 1..Len(file) /\ Len(file) \in Nat
  BY FileIsSeq DEF Invariant, Shape
<1>1. CASE altered = {}
  BY <1>1 DEF Invariant, Chained, NamesTheEdit, Verifies, BadLines
<1>2. CASE altered # {}
  <2>1. PICK i \in altered : \A j \in altered : i <= j
    BY <1>0, <1>2, LeastEdit
  <2>2. Bad(file, i)
    BY <1>0, <2>1 DEF Invariant, Chained
  <2>3. ASSUME NEW j \in DOMAIN file, Bad(file, j)
        PROVE  i <= j
    <3>1. PICK a \in altered : ~(j < a)
      BY <2>3 DEF Invariant, Chained
    <3> QED
      BY <1>0, <2>1, <3>1
  <2>4. BrokenAt(file, i)
    BY <1>0, <2>2, <2>3 DEF BrokenAt, BadLines
  <2> QED
    BY <1>2, <2>1, <2>4 DEF NamesTheEdit
<1> QED
  BY <1>1, <1>2

\* Until a line is torn: what is below needs no bound on how many may be.
WhileWhole == tears \in Nat /\ (tears = 0 => Invariant /\ Kept)

LEMMA BothHold == Spec => []WhileWhole
<1>1. Init => WhileWhole
  BY InitHolds, KeptInit DEF WhileWhole, Init
<1>2. ASSUME WhileWhole, [Next]_vars
      PROVE  WhileWhole'
  <2>1. tears' = tears \/ tears' = tears + 1
    BY <1>2 DEF Next, Appends, Request, Lock, RefuseTail, Write, WritePart, Sync,
      SyncFails, Boot, Kill, PowerLoss, Alter, vars
  <2>2. tears' \in Nat /\ (tears' = 0 => tears = 0)
    BY <1>2, <2>1 DEF WhileWhole
  <2>3. ASSUME tears' = 0
        PROVE  Invariant' /\ Kept'
    <3>1. Invariant /\ Kept
      BY <1>2, <2>2, <2>3 DEF WhileWhole
    <3> QED
      BY <1>2, <2>3, <3>1, StepHolds, KeptStep DEF Kept
  <2> QED
    BY <2>2, <2>3 DEF WhileWhole
<1> QED
  BY <1>1, <1>2, PTL DEF Spec

\* One chain, however many processes write it: as long as no line was written
\* in part, verify accepts the file nobody edited and otherwise breaks exactly
\* at the first edited line (Ledger.append under its flock, Ledger.verify).
THEOREM OneChain == Spec => []NamesTheEdit
<1>1. ASSUME WhileWhole
      PROVE  NamesTheEdit
  <2>1. CASE tears = 0
    BY <1>1, <2>1, ChainedNames DEF WhileWhole
  <2>2. CASE tears # 0
    BY <2>2 DEF NamesTheEdit
  <2> QED
    BY <2>1, <2>2
<1> QED
  BY <1>1, BothHold, PTL

\* As long as no line was written in part, an append that returned keeps its
\* line, whatever is killed, powered off or fails to sync afterwards
\* (Ledger.append returns after os.fsync).
THEOREM AppendsLast == Spec => [](tears = 0 => Durable)
<1>1. ASSUME WhileWhole, tears = 0
      PROVE  Durable
  BY <1>1, FileIsSeq DEF WhileWhole, Kept, Durable, Invariant, Shape
<1>2. WhileWhole => (tears = 0 => Durable)
  BY <1>1
<1> QED
  BY <1>2, BothHold, PTL

-----------------------------------------------------------------------------
(* A line written in part.                                                 *)

\* What comes before every edit is good, but for a last line that is no entry
\* or has no newline yet: nobody has written behind it.
TornAtTheEnd ==
    /\ \A i \in DOMAIN file :
          (\A j \in altered : i < j) /\ Bad(file, i) =>
              i = Len(file) /\ (~file[i].ok \/ ~ended)
    /\ ~ended => file # <<>>

\* Whoever holds the lock has read the line it is about to write behind.
TailIsRead ==
    \A p \in Procs : pc[p] = "locked" /\ altered = {} =>
        /\ tail[p] = TailRead(p)
        /\ file = <<>> \/ Last.ok

Sound ==
    /\ IsSequence
    /\ TypeOK
    /\ DOMAIN tail = Procs /\ DOMAIN cache = Procs
    /\ TornAtTheEnd
    /\ TailIsRead

LEMMA NotEmpty ==
  ASSUME IsSequence, file # <<>>
  PROVE  Len(file) \in DOMAIN file /\ Len(file) # 0
<1>1. PICK S : file \in Seq(S)
  BY DEF IsSequence
<1>2. Len(file) # 0
  BY <1>1, EmptySeq
<1> QED
  BY <1>2, FileIsSeq

LEMMA GreatestIn ==
  ASSUME NEW n \in Nat, NEW X \in SUBSET (1..n), X # {}
  PROVE  \E i \in X : \A j \in X : j <= i
<1> DEFINE Y == {n - i : i \in X}
<1>0. \A i \in X : i \in Nat /\ n - i \in Nat
  OBVIOUS
<1>1. Y \subseteq Nat /\ Y # {}
  BY <1>0
<1>2. IsWellFoundedOn(OpToRel(<, Nat), Nat)
  BY NatLessThanWellFounded
<1>3. PICK y \in Y : \A z \in Y : ~(<<z, y>> \in OpToRel(<, Nat))
  BY <1>1, <1>2, WFMin
<1>4. PICK i \in X : y = n - i
  BY <1>3
<1>5. ASSUME NEW j \in X
      PROVE  j <= i
  <2>1. n - j \in Y /\ n - j \in Nat /\ y \in Nat
    BY <1>1, <1>3
  <2>2. ~(n - j < y)
    BY <1>3, <2>1 DEF OpToRel
  <2> QED
    BY <1>4, <2>2
<1> QED
  BY <1>5

\* The counter a boot resumes from is a number.
LEMMA ResumedIsNumber ==
  ASSUME IsSequence, \A i \in DOMAIN file : file[i].seq \in Nat
  PROVE  Resumed(file).seq \in Nat
<1> DEFINE ok == {i \in DOMAIN file : file[i].ok}
<1>1. Len(file) \in Nat /\ DOMAIN file = 1..Len(file)
  BY FileIsSeq
<1>2. CASE ok = {}
  BY <1>1, <1>2 DEF Resumed
<1>3. CASE ok # {}
  <2> DEFINE i == CHOOSE i \in ok : \A j \in ok : j <= i
  <2>1. \E k \in ok : \A j \in ok : j <= k
    BY <1>1, <1>3, GreatestIn
  <2>2. i \in ok
    BY <2>1
  <2>3. Resumed(file) = [seq |-> file[i].seq + Len(file) - i, head |-> file[i].sha]
    BY <1>3 DEF Resumed
  <2>4. i \in 1..Len(file) /\ file[i].seq \in Nat
    BY <1>1, <2>2
  <2> HIDE DEF i
  <2> QED
    BY <1>1, <2>3, <2>4
<1> QED
  BY <1>2, <1>3

LEMMA SoundInit == Init => Sound
<1> SUFFICES ASSUME Init PROVE Sound
  OBVIOUS
<1>1. file \in Seq({}) /\ DOMAIN file = {} /\ Len(file) = 0
  BY EmptySeq DEF Init
<1>2. IsSequence
  BY <1>1 DEF IsSequence
<1>3. TypeOK
  BY <1>1, LedgerAssumption DEF Init, TypeOK, Events, Start
<1>4. ended
  BY Zenon DEF Init
<1> QED
  BY <1>1, <1>2, <1>3, <1>4 DEF Init, Sound, TornAtTheEnd, TailIsRead

\* Steps that leave the disk alone.
LEMMA SoundQuiet ==
  ASSUME Sound, NEW p \in Procs,
         \/ \E b \in Bodies : Request(p, b)
         \/ Lock(p) \/ RefuseTail(p) \/ Sync(p) \/ SyncFails(p)
         \/ Boot(p) \/ Kill(p)
  PROVE  Sound'
<1> USE DEF Sound
<1>0. Len(file) \in Nat /\ DOMAIN file = 1..Len(file)
  BY FileIsSeq
<1>1. file' = file /\ altered' = altered /\ ended' = ended /\ tears' = tears
  BY DEF Request, Lock, RefuseTail, Sync, SyncFails, Boot, Kill, disk
<1>2. TornAtTheEnd'
  BY <1>1 DEF TornAtTheEnd, Bad
<1>3. TailRead(p).seq \in Nat
  BY NotEmpty DEF TailRead, Last, Start, TypeOK
<1>4. TypeOK' /\ DOMAIN tail' = Procs /\ DOMAIN cache' = Procs
  <2>1. CASE \E b \in Bodies : Request(p, b)
    BY <2>1 DEF TypeOK, Request, Events, disk
  <2>2. CASE Lock(p)
    BY <1>3, <2>2 DEF TypeOK, Lock, LockFree, disk
  <2>3. CASE RefuseTail(p)
    BY <2>3 DEF TypeOK, RefuseTail, Raise, LockFree, disk
  <2>4. CASE Sync(p)
    <3>1. NewEntry(p).seq \in Nat
      BY DEF NewEntry, Entry, Line, TypeOK
    <3>2. /\ synced' = Len(file) /\ lock' = lock \ {p} /\ tail' = tail
          /\ boots' = boots /\ crashes' = crashes /\ faults' = faults
          /\ acked' = acked \cup {[at |-> Len(file), entry |-> NewEntry(p)]}
          /\ cache' = [cache EXCEPT ![p] = [seq |-> NewEntry(p).seq, head |-> NewEntry(p).sha]]
      BY <2>4 DEF Sync
    <3>3. /\ pc' \in [Procs -> {"down", "failed", "ready", "asked", "locked", "written"}]
          /\ body' \in [Procs -> Events]
          /\ \A q \in Procs : pc'[q] \in {"locked", "written"} <=> q \in lock'
          /\ lock' \in {{}} \cup {{q} : q \in Procs}
      BY <2>4 DEF TypeOK, Sync, Events
    <3>4. \A q \in Procs : cache'[q].seq \in Nat
      BY <3>1, <3>2 DEF TypeOK
    <3>5. \A a \in acked' : a.at \in Nat
      BY <1>0, <3>2 DEF TypeOK
    <3> HIDE DEF Sound
    <3>6. /\ synced' \in 0..Len(file') /\ ended' \in BOOLEAN
          /\ \A i \in DOMAIN file' : file'[i].seq \in Nat
          /\ altered' \subseteq DOMAIN file'
          /\ boots' \in 0..MaxBoots /\ crashes' \in 0..MaxCrashes
          /\ faults' \in 0..MaxFaults /\ tears' \in 0..MaxTears
          /\ DOMAIN cache' = Procs /\ DOMAIN tail' = Procs
          /\ \A q \in Procs : tail'[q].seq \in Nat
      BY <1>0, <1>1, <3>2 DEF TypeOK, Sound
    <3> QED
      BY <3>3, <3>4, <3>5, <3>6 DEF TypeOK
  <2>5. CASE SyncFails(p)
    BY <2>5, LedgerAssumption DEF TypeOK, SyncFails, Raise, disk
  <2>6. CASE Boot(p)
    <3>1. Resumed(file).seq \in Nat
      BY ResumedIsNumber DEF TypeOK
    <3>2. /\ cache' = [cache EXCEPT ![p] = Resumed(file)] /\ tail' = tail /\ lock' = lock
          /\ synced' = synced /\ acked' = acked /\ boots' = boots + 1 /\ boots < MaxBoots
          /\ crashes' = crashes /\ faults' = faults
          /\ pc[p] \in {"down", "failed"} /\ pc' = [pc EXCEPT ![p] = "asked"]
          /\ body' \in [Procs -> Events]
      BY <2>6 DEF Boot, Events, disk, TypeOK
    <3>3. \A q \in Procs : tail'[q].seq \in Nat /\ cache'[q].seq \in Nat
      BY <3>1, <3>2 DEF TypeOK
    <3>4. boots' \in 0..MaxBoots
      BY <3>2, LedgerAssumption DEF TypeOK
    <3>5. /\ pc' \in [Procs -> {"down", "failed", "ready", "asked", "locked", "written"}]
          /\ \A q \in Procs : pc'[q] \in {"locked", "written"} <=> q \in lock'
      BY <3>2 DEF TypeOK
    <3> QED
      BY <1>1, <3>2, <3>3, <3>4, <3>5 DEF TypeOK
  <2>7. CASE Kill(p)
    BY <2>7, LedgerAssumption DEF TypeOK, Kill, disk
  <2> QED
    BY <2>1, <2>2, <2>3, <2>4, <2>5, <2>6, <2>7
<1>5. \A q \in Procs : pc'[q] = "locked" =>
         \/ pc[q] = "locked" /\ tail'[q] = tail[q]
         \/ tail'[q] = TailRead(q) /\ (file = <<>> \/ Last.ok)
  BY DEF TypeOK, Request, Lock, TailReadable, RefuseTail, Raise, Sync, SyncFails, Boot, Kill
<1>6. TailIsRead'
  BY <1>1, <1>5 DEF TailIsRead, TailRead, Last
<1>7. IsSequence'
  BY <1>1 DEF IsSequence
<1> QED
  BY <1>2, <1>4, <1>6, <1>7

\* What a write leaves, whole or in part.
LEMMA AddedLine ==
  ASSUME Sound, NEW p \in Procs, pc[p] = "locked", NEW l \in {Junk, NewEntry(p)},
         file' = Added(l), altered' = altered, ended' \in BOOLEAN
  PROVE  /\ IsSequence'
         /\ TornAtTheEnd'
         /\ \A i \in DOMAIN file' : file'[i].seq \in Nat
         /\ Len(file') \in Nat /\ DOMAIN file' = 1..Len(file')
         /\ Len(file') = IF ended THEN Len(file) + 1 ELSE Len(file)
         /\ DOMAIN file \subseteq DOMAIN file' /\ file' # <<>>
<1> USE DEF Sound
<1>0. Len(file) \in Nat /\ DOMAIN file = 1..Len(file)
  BY FileIsSeq
<1>1. /\ NewEntry(p).ok
      /\ NewEntry(p).seq = tail[p].seq + 1
      /\ NewEntry(p).prev = tail[p].head
      /\ NewEntry(p).sha = Digest(tail[p].seq + 1, tail[p].head, NewEntry(p).body)
  BY DEF NewEntry, Entry, Line
<1>2. l.seq \in Nat
  <2>1. NewEntry(p).seq \in Nat
    BY <1>1 DEF TypeOK
  <2>2. Junk.seq = 0
    BY DEF Junk
  <2> QED
    BY <2>1, <2>2
<1>3. altered = {} => tail[p] = TailRead(p) /\ (file = <<>> \/ Last.ok)
  BY DEF TailIsRead
<1>4. altered \subseteq DOMAIN file
  BY DEF TypeOK
<1>5. ~Junk.ok
  BY DEF Junk
<1>6. CASE ended
  <2>1. file' = Append(file, l)
    BY <1>6 DEF Added
  <2>2. PICK n : n = Len(file) + 1
    OBVIOUS
  <2>3. /\ IsSequence' /\ DOMAIN file' = 1..n /\ Len(file') = n
        /\ \A i \in DOMAIN file : file'[i] = file[i]
        /\ file'[n] = l
    BY <2>1, <2>2, Appended
  <2>4. altered = {} => \A i \in DOMAIN file : ~Bad(file, i)
    <3> SUFFICES ASSUME altered = {}, NEW i \in DOMAIN file, Bad(file, i) PROVE FALSE
      OBVIOUS
    <3>1. i = Len(file) /\ ~file[i].ok
      BY <1>6 DEF TornAtTheEnd
    <3>2. file # <<>>
      BY <1>0
    <3> QED
      BY <1>3, <3>1, <3>2 DEF Last
  <2>5. altered = {} => ~file'[n].ok \/ ~Bad(file, n)'
    <3> SUFFICES ASSUME altered = {}, l = NewEntry(p) PROVE ~Bad(file, n)'
      BY <1>5, <2>3
    <3>1. CASE file = <<>>
      <4>1. Len(file) = 0 /\ tail[p].seq = 0 /\ tail[p].head = Genesis
        BY <1>3, <3>1 DEF TailRead, Start
      <4> QED
        BY <1>1, <2>2, <2>3, <4>1 DEF Bad
    <3>2. CASE file # <<>>
      <4>1. Len(file) \in DOMAIN file /\ Len(file) # 0
        BY <3>2, NotEmpty
      <4>2. file[Len(file)].seq = Len(file)
        BY <2>4, <4>1 DEF Bad
      <4>3. tail[p].seq = Len(file) /\ tail[p].head = file[Len(file)].sha
        BY <1>3, <3>2, <4>2 DEF TailRead, Last
      <4>4. n # 1 /\ n - 1 = Len(file) /\ file'[n - 1] = file[Len(file)]
        BY <1>0, <2>2, <2>3, <4>1
      <4> QED
        BY <1>1, <2>2, <2>3, <4>3, <4>4 DEF Bad
    <3> QED
      BY <3>1, <3>2
  <2>6. \A i \in DOMAIN file' : i \in DOMAIN file \/ i = n
    BY <1>0, <2>2, <2>3
  <2>7. \A i \in DOMAIN file : Bad(file, i)' => Bad(file, i)
    <3> SUFFICES ASSUME NEW i \in DOMAIN file PROVE Bad(file, i)' => Bad(file, i)
      OBVIOUS
    <3>1. file'[i] = file[i] /\ (i # 1 => file'[i - 1] = file[i - 1])
      BY <1>0, <2>3
    <3> QED
      BY <3>1 DEF Bad
  <2>8. ASSUME NEW i \in DOMAIN file', \A j \in altered' : i < j, Bad(file, i)'
        PROVE  i = Len(file') /\ ~file'[i].ok
    <3>1. CASE altered = {}
      BY <2>3, <2>4, <2>5, <2>6, <2>7, <2>8, <3>1
    <3>2. CASE altered # {}
      <4>1. PICK j \in altered : i < j
        BY <2>8, <3>2
      <4>2. i \in DOMAIN file /\ i # Len(file)
        BY <1>0, <1>4, <2>2, <2>3, <4>1
      <4> QED
        BY <2>7, <2>8, <4>2 DEF TornAtTheEnd
    <3> QED
      BY <3>1, <3>2
  <2>9. TornAtTheEnd'
    <3>1. file' # <<>>
      BY <1>0, <2>2, <2>3
    <3> QED
      BY <2>8, <3>1 DEF TornAtTheEnd
  <2>10. \A i \in DOMAIN file' : file'[i].seq \in Nat
    BY <1>2, <2>3, <2>6 DEF TypeOK
  <2> QED
    BY <1>0, <1>6, <2>2, <2>3, <2>9, <2>10
<1>7. CASE ~ended
  <2>1. Len(file) \in DOMAIN file /\ Len(file) # 0
    BY <1>7, NotEmpty DEF TornAtTheEnd
  <2>2. file' = [file EXCEPT ![Len(file)] = Junk]
    BY <1>7 DEF Added
  <2>3. /\ IsSequence' /\ Len(file') = Len(file) /\ DOMAIN file' = DOMAIN file
        /\ \A i \in DOMAIN file : file'[i] = IF i = Len(file) THEN Junk ELSE file[i]
    BY <2>1, <2>2, Edited
  <2>4. ASSUME NEW i \in DOMAIN file', \A j \in altered' : i < j, Bad(file, i)'
        PROVE  i = Len(file') /\ ~file'[i].ok
    <3>1. CASE i = Len(file)
      BY <1>5, <2>3, <3>1
    <3>2. CASE i # Len(file)
      <4>1. file'[i] = file[i] /\ (i # 1 => file'[i - 1] = file[i - 1])
        BY <1>0, <2>3, <3>2
      <4>2. Bad(file, i)
        BY <2>4, <4>1 DEF Bad
      <4> QED
        BY <2>3, <2>4, <3>2, <4>2 DEF TornAtTheEnd
    <3> QED
      BY <3>1, <3>2
  <2>5. file' # <<>>
    BY <1>0, <2>1, <2>3
  <2>6. \A i \in DOMAIN file' : file'[i].seq \in Nat
    <3>1. Junk.seq = 0
      BY DEF Junk
    <3>2. \A i \in DOMAIN file : file[i].seq \in Nat
      BY DEF TypeOK
    <3> QED
      BY <2>3, <3>1, <3>2
  <2>7. TornAtTheEnd'
    BY <2>4, <2>5 DEF TornAtTheEnd
  <2> QED
    BY <1>0, <1>7, <2>3, <2>5, <2>6, <2>7
<1>8. ended \/ ~ended
  BY Zenon
<1> QED
  BY <1>6, <1>7, <1>8

LEMMA SoundWrite ==
  ASSUME Sound, NEW p \in Procs, Write(p) \/ WritePart(p)
  PROVE  Sound'
<1>1. /\ pc[p] = "locked"
      /\ altered' = altered /\ ended' \in BOOLEAN /\ synced' = synced
      /\ acked' = acked /\ body' = body /\ tail' = tail /\ cache' = cache
      /\ boots' = boots /\ crashes' = crashes /\ faults' = faults
  <2>1. CASE Write(p)
    BY <2>1 DEF Write
  <2>2. CASE WritePart(p)
    BY <2>2 DEF WritePart, Raise
  <2> QED
    BY <2>1, <2>2
<1>2. PICK l \in {Junk, NewEntry(p)} : file' = Added(l)
  BY DEF Write, WritePart
<1>3. /\ IsSequence' /\ TornAtTheEnd'
      /\ \A i \in DOMAIN file' : file'[i].seq \in Nat
      /\ Len(file') \in Nat
      /\ Len(file') = (IF ended THEN Len(file) + 1 ELSE Len(file))
      /\ DOMAIN file \subseteq DOMAIN file'
  BY <1>1, <1>2, AddedLine
<1>4. tears' \in 0..MaxTears
  BY LedgerAssumption DEF Write, WritePart, Sound, TypeOK
<1>5. /\ pc' \in [Procs -> {"down", "failed", "ready", "asked", "locked", "written"}]
      /\ \A q \in Procs : pc'[q] \in {"locked", "written"} <=> q \in lock'
      /\ lock' \in {{}} \cup {{q} : q \in Procs}
      /\ \A q \in Procs : pc'[q] # "locked"
  <2>1. CASE Write(p)
    BY <2>1 DEF Write, Sound, TypeOK
  <2>2. CASE WritePart(p)
    BY <2>2 DEF WritePart, Raise, Sound, TypeOK
  <2> QED
    BY <2>1, <2>2
<1>6. Len(file) \in Nat /\ Len(file) <= Len(file')
  BY <1>3, FileIsSeq DEF Sound
<1>7. synced' \in 0..Len(file') /\ altered' \subseteq DOMAIN file'
  BY <1>1, <1>3, <1>6 DEF Sound, TypeOK
<1>8. TypeOK'
  BY <1>1, <1>3, <1>4, <1>5, <1>7 DEF Sound, TypeOK
<1>9. TailIsRead'
  BY <1>5 DEF TailIsRead
<1> QED
  BY <1>1, <1>3, <1>8, <1>9 DEF Sound

LEMMA SoundAlter ==
  ASSUME Sound, NEW i \in DOMAIN file, Alter(i)
  PROVE  Sound'
<1>1. PICK l \in Edits(file[i]) : file' = [file EXCEPT ![i] = l]
  BY DEF Alter
<1>2. /\ altered' = altered \cup {i} /\ ended' = ended /\ synced' = synced
      /\ lock' = lock /\ pc' = pc /\ body' = body /\ acked' = acked
      /\ tail' = tail /\ cache' = cache /\ tears' = tears
      /\ boots' = boots /\ crashes' = crashes /\ faults' = faults
  BY DEF Alter
<1>3. /\ IsSequence' /\ Len(file') = Len(file) /\ DOMAIN file' = DOMAIN file
      /\ DOMAIN file = 1..Len(file) /\ Len(file) \in Nat
      /\ \A j \in DOMAIN file : file'[j] = IF j = i THEN l ELSE file[j]
  BY <1>1, Edited, FileIsSeq DEF Sound
<1>4. l.seq \in Nat
  <2>1. file[i].seq \in Nat
    BY DEF Sound, TypeOK
  <2>2. Junk.seq = 0
    BY DEF Junk
  <2>3. \A s, q, b, h : Line(s, q, b, h).seq = s
    BY DEF Line
  <2>4. l.seq \in {0, file[i].seq, file[i].seq + 1}
    BY <1>1, <2>2, <2>3 DEF Edits
  <2> QED
    BY <2>1, <2>4
<1>5. TypeOK'
  <2>1. \A j \in DOMAIN file' : file'[j].seq \in Nat
    BY <1>3, <1>4 DEF Sound, TypeOK
  <2>2. altered' \subseteq DOMAIN file' /\ synced' \in 0..Len(file')
    BY <1>2, <1>3 DEF Sound, TypeOK
  <2> QED
    BY <1>2, <2>1, <2>2 DEF Sound, TypeOK
<1>6. ASSUME NEW j \in DOMAIN file', \A a \in altered' : j < a, Bad(file, j)'
      PROVE  FALSE
  <2>1. j < i /\ j \in DOMAIN file
    BY <1>2, <1>3, <1>6
  <2>2. file'[j] = file[j] /\ (j # 1 => file'[j - 1] = file[j - 1])
    BY <1>3, <2>1
  <2>3. Bad(file, j) /\ \A a \in altered : j < a
    BY <1>2, <1>6, <2>2 DEF Bad
  <2> QED
    BY <1>3, <2>1, <2>3 DEF Sound, TornAtTheEnd
<1>7. TornAtTheEnd'
  <2>1. file' # <<>>
    BY <1>3
  <2> QED
    BY <1>6, <2>1 DEF TornAtTheEnd
<1>8. TailIsRead'
  BY <1>2 DEF TailIsRead
<1> QED
  BY <1>2, <1>3, <1>5, <1>7, <1>8 DEF Sound

LEMMA SoundPowerLoss ==
  ASSUME Sound, PowerLoss
  PROVE  Sound'
<1>0. Len(file) \in Nat /\ DOMAIN file = 1..Len(file) /\ synced \in 0..Len(file)
  BY FileIsSeq DEF Sound, TypeOK
<1>1. /\ pc' = [p \in Procs |-> "down"] /\ lock' = {}
      /\ crashes < MaxCrashes /\ crashes' = crashes + 1
      /\ acked' = acked /\ body' = body /\ tail' = tail /\ cache' = cache
      /\ boots' = boots /\ faults' = faults
  BY DEF PowerLoss
<1>2. PICK k \in synced..Len(file) :
         /\ altered' = altered \cap 1..k
         /\ \/ /\ file' = SubSeq(file, 1, k)
               /\ ended' = (ended \/ k < Len(file))
               /\ synced' = k
               /\ tears' = tears
            \/ /\ k < Len(file)
               /\ tears < MaxTears
               /\ tears' = tears + 1
               /\ \E l \in {Junk, file[k + 1]} : file' = Append(SubSeq(file, 1, k), l)
               /\ ended' = FALSE
               /\ synced' = k + 1
  BY DEF PowerLoss
<1>3. k \in 0..Len(file)
  BY <1>0, <1>2
<1>3a. /\ k \in Nat /\ k <= Len(file)
      /\ (~(k < Len(file)) => k = Len(file))
      /\ \A i \in 1..k : i = Len(file) => k = Len(file)
  <2>1. PICK n \in Nat : n = Len(file)
    BY <1>0
  <2>2. k \in 0..n
    BY <1>3, <2>1
  <2>3. /\ k \in Nat /\ k <= n
        /\ (~(k < n) => k = n)
        /\ \A i \in 1..k : i = n => k = n
    BY <2>2
  <2> QED
    BY <2>1, <2>3
<1>4. PICK S : file \in Seq(S)
  BY DEF Sound, IsSequence
<1> DEFINE short == SubSeq(file, 1, k)
<1>5. /\ short \in Seq(S)
      /\ Len(short) = k
      /\ \A i \in 1..k : short[i] = file[i]
  BY <1>0, <1>3, <1>4, SubSeqProperties
<1> HIDE DEF short
<1>6. \A i \in DOMAIN file : (\A j \in altered : i < j) /\ Bad(file, i) => i = Len(file)
  BY DEF Sound, TornAtTheEnd
<1>7. \A i \in DOMAIN file : file[i].seq \in Nat
  BY DEF Sound, TypeOK
<1>8. ASSUME file' = short, ended' = (ended \/ k < Len(file)), synced' = k,
             tears' = tears
      PROVE  /\ IsSequence' /\ TornAtTheEnd' /\ ended' \in BOOLEAN
             /\ synced' \in 0..Len(file') /\ altered' \subseteq DOMAIN file'
             /\ \A i \in DOMAIN file' : file'[i].seq \in Nat
             /\ tears' \in 0..MaxTears
  <2>1. /\ Len(file') = k /\ DOMAIN file' = 1..k /\ IsSequence'
        /\ \A i \in DOMAIN file' : i \in DOMAIN file /\ file'[i] = file[i]
    BY <1>0, <1>3, <1>5, <1>8, LenProperties DEF IsSequence
  <2>2. ended' \in BOOLEAN
    BY <1>8, Zenon
  <2>3. ASSUME ~ended'
        PROVE  ~ended /\ k = Len(file)
    <3>1. ~ended /\ ~(k < Len(file))
      BY <1>8, <2>3, Zenon
    <3>2. k = Len(file)
      BY <1>3a, <3>1, Zenon
    <3> QED
      BY <3>1, <3>2, Zenon
  <2>4. ASSUME NEW i \in DOMAIN file', \A j \in altered' : i < j, Bad(file, i)'
        PROVE  i = Len(file') /\ (~file'[i].ok \/ ~ended')
    <3>1. i # 1 => i - 1 \in DOMAIN file'
      BY <1>3, <2>1
    <3>2. Bad(file, i)
      BY <2>1, <2>4, <3>1 DEF Bad
    <3>3. altered \subseteq DOMAIN file
      BY DEF Sound, TypeOK
    <3>4. \A j \in altered : i < j
      BY <1>0, <1>2, <1>3, <2>1, <2>4, <3>3
    <3>5. i = Len(file) /\ (~file[i].ok \/ ~ended)
      BY <2>1, <3>2, <3>4 DEF Sound, TornAtTheEnd
    <3>6. k = Len(file)
      <4>1. i \in 1..k /\ i = Len(file)
        BY <2>1, <3>5
      <4> QED
        BY <1>3a, <4>1, Zenon
    <3>7. ~ended => ~ended'
      <4>1. ~(k < Len(file))
        BY <1>0, <3>6
      <4> QED
        BY <1>8, <4>1, Zenon
    <3> QED
      BY <2>1, <3>5, <3>6, <3>7
  <2>5. ~ended' => file' # <<>>
    <3>1. ~ended' => Len(file) # 0 /\ k = Len(file)
      BY <2>3, NotEmpty DEF Sound, TornAtTheEnd
    <3> QED
      BY <2>1, <3>1
  <2>6. TornAtTheEnd'
    BY <2>4, <2>5 DEF TornAtTheEnd
  <2>7. /\ synced' \in 0..Len(file') /\ altered' \subseteq DOMAIN file'
        /\ \A i \in DOMAIN file' : file'[i].seq \in Nat
        /\ tears' \in 0..MaxTears
    BY <1>2, <1>3, <1>7, <1>8, <2>1 DEF Sound, TypeOK
  <2> QED
    BY <2>1, <2>2, <2>6, <2>7
<1>9. ASSUME k < Len(file), tears < MaxTears, tears' = tears + 1,
             \E l \in {Junk, file[k + 1]} : file' = Append(short, l),
             ended' = FALSE, synced' = k + 1
      PROVE  /\ IsSequence' /\ TornAtTheEnd' /\ ended' \in BOOLEAN
             /\ synced' \in 0..Len(file') /\ altered' \subseteq DOMAIN file'
             /\ \A i \in DOMAIN file' : file'[i].seq \in Nat
             /\ tears' \in 0..MaxTears
  <2>1. PICK l \in {Junk, file[k + 1]} : file' = Append(short, l)
    BY <1>9
  <2>2. k + 1 \in DOMAIN file /\ k \in Nat
    BY <1>0, <1>3, <1>9
  <2>3. /\ file' \in Seq(S \cup {l}) /\ Len(file') = k + 1
        /\ \A i \in 1..k : file'[i] = file[i]
        /\ file'[k + 1] = l
    <3>1. short \in Seq(S \cup {l})
      BY <1>5, SeqMonotonic
    <3> QED
      BY <1>5, <2>1, <3>1, AppendProperties
  <2>4. IsSequence' /\ DOMAIN file' = 1..(k + 1)
    BY <2>3, LenProperties DEF IsSequence
  <2>5. ASSUME NEW i \in DOMAIN file', \A j \in altered' : i < j, Bad(file, i)'
        PROVE  i = Len(file')
    <3> SUFFICES ASSUME i # k + 1 PROVE FALSE
      BY <2>3
    <3>1. i \in 1..k /\ i \in DOMAIN file
      BY <1>0, <1>3, <2>2, <2>4
    <3>2. file'[i] = file[i] /\ (i # 1 => file'[i - 1] = file[i - 1])
      BY <2>2, <2>3, <3>1
    <3>3. Bad(file, i)
      BY <2>5, <3>2 DEF Bad
    <3>4. altered \subseteq DOMAIN file
      BY DEF Sound, TypeOK
    <3>5. \A j \in altered : i < j
      BY <1>0, <1>2, <2>2, <2>5, <3>1, <3>4
    <3> QED
      BY <1>0, <1>6, <1>9, <2>2, <3>1, <3>3, <3>5
  <2>6. file' # <<>>
    BY <2>2, <2>3
  <2>7. ended' \in BOOLEAN /\ ~ended'
    BY <1>9, Zenon
  <2>8. TornAtTheEnd'
    BY <2>5, <2>6, <2>7 DEF TornAtTheEnd
  <2>9. l.seq \in Nat
    <3>1. Junk.seq = 0
      BY DEF Junk
    <3> QED
      BY <1>7, <2>2, <3>1
  <2>10. \A i \in DOMAIN file' : file'[i].seq \in Nat
    BY <1>0, <1>7, <2>2, <2>3, <2>4, <2>9
  <2>11. synced' \in 0..Len(file') /\ altered' \subseteq DOMAIN file'
    BY <1>2, <1>9, <2>2, <2>3, <2>4
  <2>12. tears' \in 0..MaxTears
    BY <1>9, LedgerAssumption DEF Sound, TypeOK
  <2> QED
    BY <2>4, <2>7, <2>8, <2>10, <2>11, <2>12
<1>10. /\ IsSequence' /\ TornAtTheEnd' /\ ended' \in BOOLEAN
       /\ synced' \in 0..Len(file') /\ altered' \subseteq DOMAIN file'
       /\ \A i \in DOMAIN file' : file'[i].seq \in Nat
       /\ tears' \in 0..MaxTears
  BY <1>2, <1>8, <1>9 DEF short
<1>11. crashes' \in 0..MaxCrashes
  BY <1>1, LedgerAssumption DEF Sound, TypeOK
<1>12. TypeOK'
  BY <1>1, <1>10, <1>11 DEF Sound, TypeOK
<1>13. TailIsRead'
  BY <1>1 DEF TailIsRead
<1> QED
  BY <1>1, <1>10, <1>12, <1>13 DEF Sound

LEMMA SoundStep ==
  ASSUME Sound, [Next]_vars
  PROVE  Sound'
<1>1. CASE UNCHANGED vars
  BY <1>1 DEF vars, disk, Sound, IsSequence, TypeOK, TornAtTheEnd, Bad,
    TailIsRead, TailRead, Last
<1> QED
  BY <1>1, SoundQuiet, SoundWrite, SoundAlter, SoundPowerLoss DEF Next, Appends

LEMMA SoundHolds == Spec => []Sound
  BY SoundInit, SoundStep, PTL DEF Spec

\* Nothing follows a line written in part, and what came before it is a chain,
\* whoever else appends, dies, loses power or edits (_tail_under_lock refuses a
\* tail that does not parse; a write goes behind the last newline).
THEOREM TornStaysLast == Spec => []FileIsSound
<1>1. ASSUME Sound
      PROVE  FileIsSound
  <2>1. ASSUME altered = {}, NEW i \in BadLines(file)
        PROVE  i = Len(file)
    BY <1>1, <2>1 DEF Sound, TornAtTheEnd, BadLines
  <2> QED
    BY <1>1, <2>1 DEF Sound, FileIsSound, TearIsLast
<1> QED
  BY <1>1, SoundHolds, PTL

-----------------------------------------------------------------------------
(* Appends that returned, beside torn lines.                               *)

\* A line counted as synced is there, one whose append returned is synced and
\* has a newline behind it, and so has one that is about to be synced.
AckedIsSynced ==
    /\ \A a \in acked : a.at \in 1..synced /\ (~ended => a.at < Len(file))
    /\ \A p \in Procs : pc[p] = "written" => ended /\ file # <<>>

LEMMA SyncedInit == Init => AckedIsSynced
  BY DEF Init, AckedIsSynced

LEMMA SyncedStep ==
  ASSUME Sound, AckedIsSynced, [Next]_vars
  PROVE  AckedIsSynced'
<1>0. /\ Len(file) \in Nat /\ DOMAIN file = 1..Len(file) /\ synced \in 0..Len(file)
      /\ Sound'
  BY FileIsSeq, SoundStep DEF Sound, TypeOK
<1>1. ASSUME NEW p \in Procs,
             \/ \E b \in Bodies : Request(p, b)
             \/ Lock(p) \/ RefuseTail(p) \/ SyncFails(p) \/ Boot(p) \/ Kill(p)
      PROVE  AckedIsSynced'
  <2>1. file' = file /\ ended' = ended /\ synced' = synced /\ acked' = acked
    BY <1>1 DEF Request, Lock, RefuseTail, SyncFails, Boot, Kill, disk
  <2>2. \A q \in Procs : pc'[q] = "written" => pc[q] = "written"
    BY <1>1 DEF Sound, TypeOK, Request, Lock, RefuseTail, Raise, SyncFails, Boot, Kill
  <2> QED
    BY <2>1, <2>2 DEF AckedIsSynced
<1>2. ASSUME NEW p \in Procs, Write(p) \/ WritePart(p)
      PROVE  AckedIsSynced'
  <2>1. pc[p] = "locked" /\ p \in lock /\ altered' = altered /\ ended' \in BOOLEAN
        /\ synced' = synced /\ acked' = acked
    <3>1. CASE Write(p)
      BY <3>1 DEF Write, Sound, TypeOK
    <3>2. CASE WritePart(p)
      BY <3>2 DEF WritePart, Raise, Sound, TypeOK
    <3> QED
      BY <1>2, <3>1, <3>2
  <2>2. PICK l \in {Junk, NewEntry(p)} : file' = Added(l)
    BY <1>2 DEF Write, WritePart
  <2>3. Len(file') = (IF ended THEN Len(file) + 1 ELSE Len(file)) /\ file' # <<>>
    BY <2>1, <2>2, AddedLine
  <2>4. CASE Write(p)
    <3>1. ended' /\ pc' = [pc EXCEPT ![p] = "written"]
      BY <2>4, Zenon DEF Write
    <3>2. \A a \in acked' : a.at \in 1..synced'
      BY <2>1 DEF AckedIsSynced
    <3> QED
      BY <2>3, <3>1, <3>2 DEF AckedIsSynced
  <2>5. CASE WritePart(p)
    <3>1. \A a \in acked : a.at \in 1..synced /\ a.at < Len(file')
      <4>1. CASE ended
        BY <1>0, <2>3, <4>1 DEF AckedIsSynced
      <4>2. CASE ~ended
        BY <2>3, <4>2 DEF AckedIsSynced
      <4> QED
        BY <4>1, <4>2
    <3>2. \A q \in Procs : pc'[q] # "written"
      BY <2>1, <2>5 DEF WritePart, Raise, Sound, TypeOK
    <3> QED
      BY <2>1, <3>1, <3>2 DEF AckedIsSynced
  <2> QED
    BY <1>2, <2>4, <2>5
<1>3. ASSUME NEW p \in Procs, Sync(p)
      PROVE  AckedIsSynced'
  <2>1. /\ pc[p] = "written" /\ file' = file /\ ended' = ended
        /\ synced' = Len(file)
        /\ acked' = acked \cup {[at |-> Len(file), entry |-> NewEntry(p)]}
    BY <1>3 DEF Sync
  <2>2. ended' /\ Len(file) # 0
    <3>1. ended /\ file # <<>>
      BY <2>1 DEF AckedIsSynced
    <3>2. Len(file) # 0
      BY <3>1, NotEmpty DEF Sound
    <3>3. ended'
      BY <2>1, <3>1, Zenon
    <3> QED
      BY <3>2, <3>3
  <2>3. \A a \in acked' : a.at \in 1..synced'
    BY <1>0, <2>1, <2>2 DEF AckedIsSynced
  <2>4. \A q \in Procs : pc'[q] # "written"
    BY <1>3, <2>1 DEF Sound, TypeOK, Sync
  <2> QED
    BY <2>2, <2>3, <2>4 DEF AckedIsSynced
<1>4. CASE PowerLoss
  <2>1. acked' = acked /\ \A p \in Procs : pc'[p] = "down"
    BY <1>4 DEF PowerLoss
  <2>2. PICK k \in synced..Len(file) :
           \/ /\ file' = SubSeq(file, 1, k)
              /\ ended' = (ended \/ k < Len(file))
              /\ synced' = k
           \/ /\ ended' = FALSE
              /\ synced' = k + 1
              /\ \E l : file' = Append(SubSeq(file, 1, k), l)
    BY <1>4 DEF PowerLoss
  <2>3. k \in 0..Len(file) /\ k \in Nat /\ synced \in 0..k
    BY <1>0, <2>2
  <2>4. CASE /\ file' = SubSeq(file, 1, k)
             /\ ended' = (ended \/ k < Len(file))
             /\ synced' = k
    <3>1. \A a \in acked' : a.at \in 1..synced'
      BY <2>1, <2>3, <2>4 DEF AckedIsSynced
    <3>2. ASSUME ~ended'
          PROVE  \A a \in acked' : a.at < Len(file')
      <4>1. ~ended /\ ~(k < Len(file))
        BY <2>4, <3>2, Zenon
      <4>2. Len(file') = k
        BY <1>0, <2>3, <2>4, Truncated DEF Sound
      <4>3. \A a \in acked : a.at < Len(file)
        BY <4>1 DEF AckedIsSynced
      <4>4. k = Len(file)
        <5>1. ~(k < Len(file))
          BY <4>1
        <5>2. PICK n \in Nat : n = Len(file)
          BY <1>0
        <5>3. k \in 0..n /\ ~(k < n)
          BY <2>3, <5>1, <5>2
        <5> QED
          BY <5>2, <5>3
      <4> QED
        BY <2>1, <4>2, <4>3, <4>4
    <3> QED
      BY <2>1, <3>1, <3>2 DEF AckedIsSynced
  <2>5. CASE /\ ended' = FALSE
             /\ synced' = k + 1
             /\ \E l : file' = Append(SubSeq(file, 1, k), l)
    <3>1. Len(file') = k + 1
      <4>1. PICK S : file \in Seq(S)
        BY DEF Sound, IsSequence
      <4>2. SubSeq(file, 1, k) \in Seq(S) /\ Len(SubSeq(file, 1, k)) = k
        BY <1>0, <2>3, <4>1, SubSeqProperties
      <4>3. PICK l : file' = Append(SubSeq(file, 1, k), l)
        BY <2>5
      <4>4. SubSeq(file, 1, k) \in Seq(S \cup {l})
        BY <4>2, SeqMonotonic
      <4> QED
        BY <4>2, <4>3, <4>4, AppendProperties
    <3>2. \A a \in acked' : a.at \in 1..synced' /\ a.at < Len(file')
      BY <2>1, <2>3, <2>5, <3>1 DEF AckedIsSynced
    <3> QED
      BY <2>1, <3>2 DEF AckedIsSynced
  <2> QED
    BY <2>2, <2>4, <2>5
<1>5. ASSUME NEW i \in DOMAIN file, Alter(i)
      PROVE  AckedIsSynced'
  <2>1. PICK l : file' = [file EXCEPT ![i] = l]
    BY <1>5 DEF Alter
  <2>2. ended' = ended /\ synced' = synced /\ acked' = acked /\ pc' = pc
    BY <1>5 DEF Alter
  <2>3. Len(file') = Len(file) /\ file' # <<>>
    BY <1>0, <2>1, Edited DEF Sound
  <2> QED
    BY <2>2, <2>3 DEF AckedIsSynced
<1>6. CASE UNCHANGED vars
  BY <1>6 DEF vars, disk, AckedIsSynced
<1> QED
  BY <1>1, <1>2, <1>3, <1>4, <1>5, <1>6 DEF Next, Appends

\* A step keeps every line whose append returned.
LEMMA KeepsAcked ==
  ASSUME Sound, AckedIsSynced, [Next]_vars, NEW a \in acked,
         a.at \in DOMAIN file \ altered', file[a.at] = a.entry
  PROVE  a.at \in DOMAIN file' /\ file'[a.at] = a.entry
<1>0. /\ Len(file) \in Nat /\ DOMAIN file = 1..Len(file) /\ synced \in 0..Len(file)
      /\ a.at \in 1..synced /\ (~ended => a.at < Len(file))
  BY FileIsSeq DEF Sound, TypeOK, AckedIsSynced
<1>1. CASE UNCHANGED file
  BY <1>1
<1>2. ASSUME NEW p \in Procs, Write(p) \/ WritePart(p)
      PROVE  a.at \in DOMAIN file' /\ file'[a.at] = file[a.at]
  <2>1. PICK l : file' = Added(l)
    BY <1>2 DEF Write, WritePart
  <2>2. CASE ended
    <3>1. file' = Append(file, l)
      BY <2>1, <2>2 DEF Added
    <3>2. DOMAIN file' = 1..(Len(file) + 1) /\ \A i \in DOMAIN file : file'[i] = file[i]
      BY <3>1, Appended DEF Sound
    <3> QED
      BY <1>0, <3>2
  <2>3. CASE ~ended
    <3>1. file' = [file EXCEPT ![Len(file)] = Junk]
      BY <2>1, <2>3 DEF Added
    <3>2. a.at # Len(file)
      <4>1. a.at < Len(file)
        BY <1>0, <2>3
      <4> QED
        BY <1>0, <4>1
    <3> QED
      BY <3>1, <3>2
  <2> QED
    BY <2>2, <2>3, Zenon
<1>3. CASE PowerLoss
  <2>1. PICK k \in synced..Len(file) :
           \/ file' = SubSeq(file, 1, k)
           \/ \E l : file' = Append(SubSeq(file, 1, k), l)
    BY <1>3 DEF PowerLoss
  <2>2. k \in 0..Len(file) /\ k \in Nat /\ a.at \in 1..k
    BY <1>0, <2>1
  <2>3. PICK S : file \in Seq(S)
    BY DEF Sound, IsSequence
  <2>4. /\ SubSeq(file, 1, k) \in Seq(S) /\ Len(SubSeq(file, 1, k)) = k
        /\ \A i \in 1..k : SubSeq(file, 1, k)[i] = file[i]
    BY <1>0, <2>2, <2>3, SubSeqProperties
  <2>5. CASE file' = SubSeq(file, 1, k)
    BY <2>2, <2>4, <2>5, LenProperties
  <2>6. ASSUME NEW l, file' = Append(SubSeq(file, 1, k), l)
        PROVE  a.at \in DOMAIN file' /\ file'[a.at] = file[a.at]
    <3>1. SubSeq(file, 1, k) \in Seq(S \cup {l})
      BY <2>4, SeqMonotonic
    <3>2. /\ file' \in Seq(S \cup {l}) /\ Len(file') = k + 1
          /\ \A i \in 1..k : file'[i] = file[i]
      BY <2>4, <2>6, <3>1, AppendProperties
    <3> QED
      BY <2>2, <3>2, LenProperties
  <2> QED
    BY <2>1, <2>5, <2>6
<1>4. ASSUME NEW i \in DOMAIN file, Alter(i)
      PROVE  a.at \in DOMAIN file' /\ file'[a.at] = file[a.at]
  BY <1>4 DEF Alter
<1>5. \/ UNCHANGED file
      \/ \E p \in Procs : Write(p) \/ WritePart(p)
      \/ PowerLoss
      \/ \E i \in DOMAIN file : Alter(i)
  BY DEF Next, Appends, vars, disk, Request, Lock, RefuseTail, Sync, SyncFails, Boot, Kill
<1> QED
  BY <1>1, <1>2, <1>3, <1>4, <1>5

\* A line in place when its append returned is there after every later step,
\* torn writes or none: no crash takes it and no append damages it
\* (Ledger.append, "a caller that sees this return knows the line is durable").
THEOREM AckedStays == Spec => AckedIsKept
<1>1. Init => Sound /\ AckedIsSynced
  BY SoundInit, SyncedInit
<1>2. Sound /\ AckedIsSynced /\ [Next]_vars => Sound' /\ AckedIsSynced'
  BY SoundStep, SyncedStep
<1>3. ASSUME Sound, AckedIsSynced, [Next]_vars
      PROVE  [\A a \in acked :
                 a.at \in DOMAIN file \ altered' /\ file[a.at] = a.entry =>
                     a.at \in DOMAIN file' /\ file'[a.at] = a.entry]_vars
  BY <1>3, KeepsAcked
<1> QED
  BY <1>1, <1>2, <1>3, PTL DEF Spec, AckedIsKept

=============================================================================
