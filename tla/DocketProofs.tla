----------------------------- MODULE DocketProofs -----------------------------
(***************************************************************************)
(* For any components, any registry files and any number of reloads, kills *)
(* and losses: a registry in force names every dataset once, an empty one  *)
(* says why it is empty, the chain knows the one that runs, and a lookup   *)
(* answers what the components said.  For any routes, replies, failing     *)
(* calls, restarts and edits of the file: what docket leaves on the chain  *)
(* walks back to a judgment it accepted.  For any descriptions and replies *)
(* over any characters: a published quote is in the description, and no    *)
(* span of it before its first quotation mark is turned away.              *)
(***************************************************************************)
EXTENDS Datasets, Docket, SequenceTheorems, WellFoundedInduction, TLAPS

Files == Documents \cup {FirstDocument}

\* What a store may hold: nothing, or a file that passed every check.
Passed(r) ==
    r = Empty \/ \E doc \in Files : r = Registry(doc) /\ Verdict(doc.entries) = "none"

Stores ==
    /\ file \in [Names -> Files]
    /\ DOMAIN serving = Names /\ DOMAIN running = Names
    /\ DOMAIN refusal = Names /\ DOMAIN recorded = Names
    /\ losses \in Nat
    /\ \A c \in Names :
          /\ Passed(running[c])
          /\ serving[c] => c \in Attached
          /\ ~serving[c] => running[c] = Empty
          /\ serving[c] /\ ~running[c].declared => refusal[c] # "none"
          /\ c \in Ledgered /\ losses = 0 => recorded[c] = running[c]

\* A block is of the component whose turn it was: its answer, or what was
\* declared of it.
Fits(b, c) == b.component = c /\ (b.reachable \/ b = Fallback(c))

Reads ==
    /\ DOMAIN reading = Lookups /\ DOMAIN answered = Lookups
    /\ settled \subseteq Lookups
    /\ \A q \in Lookups :
          /\ answered[q].status \in {0, 200, 404, 503}
          /\ DOMAIN reading[q] = {"what", "id", "blocks"}
          /\ \E S : reading[q].blocks \in Seq(S)
          /\ Len(reading[q].blocks) <= Len(Components)
          /\ \A i \in DOMAIN reading[q].blocks : Fits(reading[q].blocks[i], Components[i])
          /\ reading[q].what = "nothing" => reading[q].blocks = <<>>

\* What a component says at this moment, or is declared to hold.
Current(c) == IF serving[c] THEN Block(c, TRUE, FALSE, running[c].entries) ELSE Fallback(c)

\* As long as nothing broke in, the blocks read are what would be read now.
Settles ==
    \A q \in settled : \A i \in DOMAIN reading[q].blocks :
        reading[q].blocks[i] = Current(Components[i])

\* What an answer says of the blocks it was made from.
Follows(a, what, id, blocks) ==
    /\ what = "list" =>
          /\ a.summary.status = "complete" <=> Unread(blocks) = {}
          /\ a.status = 503 <=> Unread(blocks) = DOMAIN blocks
    /\ what # "list" =>
          /\ a.status = 404 => Hits(blocks, id) = {} /\ Unread(blocks) = {}
          /\ a.status = 503 => \/ Hits(blocks, id) = {} /\ Unread(blocks) # {}
                               \/ what = "page" /\ Hits(blocks, id) # {}
          /\ a.entry # {} => Hits(blocks, id) # {}

Replied ==
    \A q \in Lookups : answered[q].status # 0 =>
        /\ Len(reading[q].blocks) = Len(Components)
        /\ Follows(answered[q], reading[q].what, reading[q].id, reading[q].blocks)

Invariant == Stores /\ Reads /\ Settles /\ Replied

LEMMA LeastOne ==
  ASSUME NEW S, S \subseteq Nat, S # {}
  PROVE  \E n \in S : \A m \in S : n <= m
<1>1. \E n \in S : \A m \in S : ~(<<m, n>> \in OpToRel(<, Nat))
  BY NatLessThanWellFounded, WFMin, Zenon
<1>2. ASSUME NEW m \in Nat, NEW n \in Nat, m < n
      PROVE  <<m, n>> \in OpToRel(<, Nat)
  <2>1. <<m, n>> \in {ss \in Nat \X Nat : ss[1] < ss[2]}
    BY <1>2
  <2> QED
    BY <2>1, Zenon DEF OpToRel
<1>3. PICK n \in S : \A m \in S : ~(<<m, n>> \in OpToRel(<, Nat))
  BY <1>1
<1>4. \A m \in S : ~(m < n)
  BY <1>2, <1>3, Zenon
<1>5. \A m \in S : n <= m
  BY <1>4
<1> QED
  BY <1>5

LEMMA LeastExists ==
  ASSUME NEW S, S \subseteq Nat, S # {}
  PROVE  Least(S) \in S
BY LeastOne DEF Least

\* A check that fails has a policy of its own.
LEMMA PolicyIsNamed ==
  ASSUME NEW es, NEW i, Broken(es, i) # {}
  PROVE  Policy(es, i) # "none"
<1> DEFINE S == Broken(es, i)
<1>1. S \subseteq 1..8 /\ S # {}
  BY DEF Broken
<1> HIDE DEF S
<1>2. Least(S) \in 1..8
  <2>1. S \subseteq Nat
    BY <1>1
  <2> QED
    BY <1>1, <2>1, LeastExists
<1>3. \A n \in 1..8 : n \in {1, 2, 3, 4, 5, 6, 7, 8}
  OBVIOUS
<1>4. Checks(es, i)[Least(S)].policy # "none"
  <2>1. /\ Checks(es, i)[1].policy # "none" /\ Checks(es, i)[2].policy # "none"
        /\ Checks(es, i)[3].policy # "none" /\ Checks(es, i)[4].policy # "none"
    BY DEF Checks
  <2>2. /\ Checks(es, i)[5].policy # "none" /\ Checks(es, i)[6].policy # "none"
        /\ Checks(es, i)[7].policy # "none" /\ Checks(es, i)[8].policy # "none"
    BY DEF Checks
  <2> QED
    BY <1>2, <1>3, <2>1, <2>2
<1> QED
  BY <1>4 DEF Policy, S

\* A file that is let in names every dataset once.
LEMMA LetInOnce ==
  ASSUME NEW doc \in Files, Verdict(doc.entries) = "none",
         NEW i \in DOMAIN doc.entries, NEW k \in DOMAIN doc.entries,
         doc.entries[i].id = doc.entries[k].id
  PROVE  i = k
<1> DEFINE es == doc.entries
<1>1. es \in Seq(ToSet(es))
  BY DatasetsAssumption DEF Files
<1>2. DOMAIN es \subseteq Nat \ {0} /\ \A n \in DOMAIN es : 1..n \subseteq DOMAIN es
  BY <1>1
<1>3. \A n \in DOMAIN es : Broken(es, n) = {}
  <2> DEFINE bad == {n \in DOMAIN es : Broken(es, n) # {}}
  <2>1. ASSUME bad # {}
        PROVE  Policy(es, Least(bad)) # "none"
    BY <1>2, <2>1, LeastExists, PolicyIsNamed
  <2>2. bad = {}
    BY <2>1 DEF Verdict
  <2> QED
    BY <2>2
<1>4. 1 \in 1..8
  OBVIOUS
<1>5. ASSUME NEW n \in DOMAIN es, NEW m \in 1..n-1
      PROVE  es[m].id # es[n].id
  <2>1. ~Checks(es, n)[1].broken
    BY <1>3, <1>4, Zenon DEF Broken
  <2> DEFINE twice == es[n].id = "" \/ (\E l \in 1..n-1 : es[l].id = es[n].id) \/ ~es[n].named
  <2>2. Checks(es, n)[1].broken = twice
    BY DEF Checks
  <2> QED
    BY <2>1, <2>2
<1>6. i < k \/ k < i \/ i = k
  BY <1>2
<1>7. ~(i < k) /\ ~(k < i)
  BY <1>2, <1>5
<1> QED
  BY <1>6, <1>7

LEMMA RefusedIsNamed ==
  ASSUME NEW doc, Load(doc) = "none"
  PROVE  Verdict(doc.entries) = "none"
BY DEF Load

LEMMA InitInvariant ==
  ASSUME RegistryInit
  PROVE  Invariant
<1>1. Stores
  <2>1. Empty.declared = FALSE /\ Passed(Empty)
    BY DEF Empty, Passed
  <2> QED
    BY <2>1 DEF RegistryInit, Stores, Files
<1>2. Reads
  <2> DEFINE r == [what |-> "nothing", id |-> "", blocks |-> <<>>]
             a == [status |-> 0, summary |-> [status |-> "unknown", total |-> 0], entry |-> {}]
  <2>1. /\ DOMAIN r = {"what", "id", "blocks"} /\ r.blocks \in Seq({}) /\ DOMAIN r.blocks = {}
        /\ Len(r.blocks) <= Len(Components) /\ r.blocks = <<>>
    BY DatasetsAssumption
  <2>2. a.status = 0
    OBVIOUS
  <2>3. /\ reading = [q \in Lookups |-> r] /\ answered = [q \in Lookups |-> a]
        /\ settled = {}
    BY DEF RegistryInit
  <2> HIDE DEF r, a
  <2> QED
    BY <2>1, <2>2, <2>3 DEF Reads
<1>3. Settles /\ Replied
  BY DEF RegistryInit, Settles, Replied
<1> QED
  BY <1>1, <1>2, <1>3 DEF Invariant

\* A step of one component leaves the others alone.
LEMMA OneComponent ==
  ASSUME Stores, NEW c \in Names,
         file' \in [Names -> Files],
         DOMAIN serving' = Names, DOMAIN running' = Names,
         DOMAIN refusal' = Names, DOMAIN recorded' = Names,
         losses' \in Nat, losses' = 0 => losses = 0,
         \A b \in Names : b # c => /\ serving'[b] = serving[b] /\ running'[b] = running[b]
                                   /\ refusal'[b] = refusal[b] /\ recorded'[b] = recorded[b],
         Passed(running'[c]),
         serving'[c] => c \in Attached,
         ~serving'[c] => running'[c] = Empty,
         serving'[c] /\ ~running'[c].declared => refusal'[c] # "none",
         c \in Ledgered /\ losses' = 0 => recorded'[c] = running'[c]
  PROVE  Stores'
<1>1. \A r : Passed(r)' = Passed(r)
  BY DEF Passed
<1> QED
  BY <1>1 DEF Stores

LEMMA WriteFileKeeps ==
  ASSUME Stores, NEW c \in Names, NEW doc \in Documents, WriteFile(c, doc)
  PROVE  Stores'
<1>1. file' \in [Names -> Files]
  BY DEF WriteFile, Stores, Files
<1>2. UNCHANGED <<serving, running, refusal, recorded, losses>>
  BY DEF WriteFile, storeVars
<1> QED
  BY <1>1, <1>2, OneComponent DEF Stores

\* What a reload leaves of the component that makes it.
LEMMA ReloadsKeep ==
  ASSUME Stores, NEW c \in Names, NEW written \in BOOLEAN, Reloads(c, file[c], written),
         written \/ (~running[c].declared => refusal[c] # "none")
  PROVE  /\ DOMAIN running' = Names /\ DOMAIN refusal' = Names /\ DOMAIN recorded' = Names
         /\ \A b \in Names : b # c => /\ running'[b] = running[b]
                                      /\ refusal'[b] = refusal[b] /\ recorded'[b] = recorded[b]
         /\ Passed(running'[c])
         /\ ~running'[c].declared => refusal'[c] # "none"
         /\ written /\ recorded[c] = running[c] => recorded'[c] = running'[c]
<1>1. file[c] \in Files /\ Passed(running[c])
  BY DEF Stores
<1>2. Registry(file[c]).declared
  BY DEF Registry
<1>3. Load(file[c]) = "none" => Passed(Registry(file[c]))
  BY <1>1, RefusedIsNamed DEF Passed
<1> QED
  BY <1>1, <1>2, <1>3 DEF Stores, Reloads, Kept

LEMMA ReloadKeeps ==
  ASSUME Stores, NEW c \in Attached, NEW written \in BOOLEAN, Reload(c, written)
  PROVE  Stores'
<1>1. c \in Names /\ serving[c] /\ UNCHANGED <<file, serving>> /\ Reloads(c, file[c], written)
  BY DatasetsAssumption DEF Reload
<1>2. losses' \in Nat /\ (losses' = 0 => losses = 0) /\ (~written => losses' # 0)
  BY DEF Reload, Appended, Stores
<1>3. ~running[c].declared => refusal[c] # "none"
  BY <1>1 DEF Stores
<1>4. /\ DOMAIN running' = Names /\ DOMAIN refusal' = Names /\ DOMAIN recorded' = Names
      /\ \A b \in Names : b # c => /\ running'[b] = running[b]
                                   /\ refusal'[b] = refusal[b] /\ recorded'[b] = recorded[b]
      /\ Passed(running'[c])
      /\ ~running'[c].declared => refusal'[c] # "none"
      /\ written /\ recorded[c] = running[c] => recorded'[c] = running'[c]
  BY <1>1, <1>3, ReloadsKeep
<1>5. c \in Ledgered /\ losses' = 0 => recorded'[c] = running'[c]
  BY <1>1, <1>2, <1>4 DEF Stores
<1>6. file' \in [Names -> Files] /\ DOMAIN serving' = Names
  BY <1>1 DEF Stores
<1> QED
  BY <1>1, <1>2, <1>4, <1>5, <1>6, OneComponent

LEMMA ReloadOutsideKeeps ==
  ASSUME Stores, NEW c \in Attached, NEW written \in BOOLEAN, ReloadOutside(c, written)
  PROVE  Stores'
<1>1. c \in Names /\ UNCHANGED <<file, serving, running, recorded>>
  BY DatasetsAssumption DEF ReloadOutside
<1>2. losses' \in Nat /\ (losses' = 0 => losses = 0)
  BY DEF ReloadOutside, Appended, Stores
<1>3. /\ DOMAIN refusal' = Names /\ \A b \in Names : b # c => refusal'[b] = refusal[b]
      /\ refusal[c] # "none" => refusal'[c] # "none"
  BY <1>1 DEF ReloadOutside, Stores
<1> QED
  BY <1>1, <1>2, <1>3, OneComponent DEF Stores

LEMMA BootKeeps ==
  ASSUME Stores, NEW c \in Attached, Boot(c)
  PROVE  Stores'
<1>1. /\ c \in Names /\ ~serving[c] /\ UNCHANGED <<file, losses>>
      /\ DOMAIN serving' = Names /\ serving'[c]
      /\ \A b \in Names : b # c => serving'[b] = serving[b]
  BY DatasetsAssumption DEF Boot, Stores
<1>2. file' \in [Names -> Files] /\ losses' \in Nat
  BY <1>1 DEF Stores
<1>3. CASE file[c].form = "missing"
  <2>1. /\ UNCHANGED <<running, recorded>>
        /\ DOMAIN refusal' = Names /\ \A b \in Names : b # c => refusal'[b] = refusal[b]
        /\ refusal'[c] # "none"
    BY <1>1, <1>3 DEF Boot, Undeclared, Stores
  <2> QED
    BY <1>1, <1>2, <2>1, OneComponent DEF Stores
<1>4. CASE Reloads(c, file[c], TRUE)
  <2>1. /\ DOMAIN running' = Names /\ DOMAIN refusal' = Names /\ DOMAIN recorded' = Names
        /\ \A b \in Names : b # c => /\ running'[b] = running[b]
                                     /\ refusal'[b] = refusal[b] /\ recorded'[b] = recorded[b]
        /\ Passed(running'[c])
        /\ ~running'[c].declared => refusal'[c] # "none"
        /\ recorded[c] = running[c] => recorded'[c] = running'[c]
    BY <1>1, <1>4, ReloadsKeep
  <2>2. c \in Ledgered /\ losses' = 0 => recorded'[c] = running'[c]
    BY <1>1, <2>1 DEF Stores
  <2> QED
    BY <1>1, <1>2, <2>1, <2>2, OneComponent
<1> QED
  BY <1>3, <1>4 DEF Boot

LEMMA DieKeeps ==
  ASSUME Stores, NEW c \in Attached, Die(c)
  PROVE  Stores'
<1>1. c \in Names /\ UNCHANGED <<file, losses>> /\ Passed(Empty)
  BY DatasetsAssumption DEF Die, Passed
<1>2. /\ serving' = [serving EXCEPT ![c] = FALSE]
      /\ running' = [running EXCEPT ![c] = Empty]
      /\ refusal' = [refusal EXCEPT ![c] = "none"]
      /\ recorded' = [recorded EXCEPT ![c] = Empty]
  BY DEF Die, AfterDeath
<1> QED
  BY <1>1, <1>2, OneComponent DEF Stores

LEMMA LookupKeeps ==
  ASSUME Stores, UNCHANGED <<file, serving, storeVars>>,
         losses' = losses \/ losses' = losses + 1
  PROVE  Stores'
<1>1. \A r : Passed(r)' = Passed(r)
  BY DEF Passed
<1> QED
  BY <1>1 DEF Stores, storeVars

\* helm's own steps: a lookup begins, reads one component more, or answers.
LEMMA AskKeeps ==
  ASSUME Invariant, NEW q \in Lookups, NEW what, NEW id, what # "nothing", AskHelm(q, what, id)
  PROVE  Invariant'
<1>1. Stores'
  BY LookupKeeps DEF AskHelm, Invariant
<1> DEFINE r == [what |-> what, id |-> id, blocks |-> <<>>]
<1>2. /\ DOMAIN r = {"what", "id", "blocks"} /\ r.blocks \in Seq({}) /\ Len(r.blocks) = 0
      /\ DOMAIN r.blocks = {} /\ r.what # "nothing" /\ Len(r.blocks) <= Len(Components)
  BY DatasetsAssumption
<1>3. /\ reading' = [reading EXCEPT ![q] = r] /\ UNCHANGED <<answered, serving, running>>
      /\ settled' = settled \cup {q} /\ reading[q].what = "nothing"
  BY DEF AskHelm, storeVars
<1> HIDE DEF r
<1>4. 0 < Len(Components)
  BY DatasetsAssumption
<1>5. \A p \in Lookups : reading'[p] = IF p = q THEN r ELSE reading[p]
  BY <1>3 DEF Reads, Invariant
<1>6. Reads'
  <2>1. settled' \subseteq Lookups /\ DOMAIN reading' = Lookups /\ DOMAIN answered' = Lookups
    BY <1>3 DEF Reads, Invariant
  <2>2. ASSUME NEW p \in Lookups
        PROVE  /\ answered'[p].status \in {0, 200, 404, 503}
               /\ DOMAIN reading'[p] = {"what", "id", "blocks"}
               /\ \E T : reading'[p].blocks \in Seq(T)
               /\ Len(reading'[p].blocks) <= Len(Components)
               /\ \A i \in DOMAIN reading'[p].blocks : Fits(reading'[p].blocks[i], Components[i])
               /\ reading'[p].what = "nothing" => reading'[p].blocks = <<>>
    <3>1. CASE p = q
      <4>1. answered[p].status \in {0, 200, 404, 503}
        BY DEF Reads, Invariant
      <4> QED
        BY <1>2, <1>3, <1>5, <3>1, <4>1
    <3>2. CASE p # q
      BY <1>3, <1>5, <3>2 DEF Reads, Invariant
    <3> QED
      BY <3>1, <3>2
  <2> QED
    BY <2>1, <2>2 DEF Reads
<1>7. Settles'
  <2>1. \A d : Current(d)' = Current(d)
    BY <1>3 DEF Current
  <2>2. ASSUME NEW p \in settled', NEW i \in DOMAIN reading'[p].blocks
        PROVE  reading'[p].blocks[i] = Current(Components[i])
    <3>1. p \in Lookups
      BY <1>6 DEF Reads
    <3>2. p # q
      BY <1>2, <1>5, <2>2, <3>1
    <3>3. p \in settled /\ reading'[p] = reading[p]
      BY <1>3, <1>5, <3>1, <3>2
    <3> QED
      BY <2>2, <3>3 DEF Settles, Invariant
  <2> QED
    BY <2>1, <2>2 DEF Settles
<1>8. answered[q].status = 0
  <2>1. reading[q].blocks = <<>> /\ Len(<<>>) = 0
    BY <1>3 DEF Reads, Invariant
  <2> QED
    BY <1>4, <2>1 DEF Replied, Invariant
<1>9. Replied'
  <2>1. ASSUME NEW p \in Lookups, answered[p].status # 0
        PROVE  reading'[p] = reading[p]
    BY <1>5, <1>8, <2>1
  <2> QED
    BY <1>3, <2>1 DEF Replied, Invariant
<1> QED
  BY <1>1, <1>6, <1>7, <1>9 DEF Invariant

LEMMA ReadKeeps ==
  ASSUME Invariant, NEW q \in Lookups, NEW heard \in BOOLEAN, Read(q, heard)
  PROVE  Invariant'
<1>1. Stores'
  BY LookupKeeps DEF Read, Invariant
<1> DEFINE n  == Len(reading[q].blocks) + 1
           c  == Components[n]
           b  == IF heard THEN Block(c, TRUE, FALSE, running[c].entries) ELSE Fallback(c)
           bs == Append(reading[q].blocks, b)
           r  == [reading[q] EXCEPT !.blocks = bs]
<1>2. /\ reading' = [reading EXCEPT ![q].blocks = Append(@, b)]
      /\ UNCHANGED <<answered, serving, running>> /\ n <= Len(Components)
      /\ heard => serving[c]
      /\ reading[q].what # "nothing"
  BY DEF Read, storeVars
<1>3. settled' \subseteq settled /\ (q \in settled' => heard \/ ~serving[c])
  BY DEF Read
<1>4. DOMAIN reading = Lookups /\ DOMAIN reading[q] = {"what", "id", "blocks"}
  BY DEF Invariant, Reads
<1>5. reading' = [reading EXCEPT ![q] = r]
  BY <1>2
<1>6. PICK S : reading[q].blocks \in Seq(S)
  BY DEF Invariant, Reads
<1>7. Fits(b, c) /\ (heard \/ ~serving[c] => b = Current(c))
  BY <1>2 DEF Fits, Fallback, Block, Current
<1> HIDE DEF b
<1>8. /\ bs \in Seq(S \cup {b}) /\ Len(bs) = n /\ n \in Nat \ {0} /\ bs[n] = b
      /\ DOMAIN bs = DOMAIN reading[q].blocks \cup {n}
      /\ \A i \in DOMAIN reading[q].blocks : bs[i] = reading[q].blocks[i]
  <2>1. reading[q].blocks \in Seq(S \cup {b}) /\ b \in S \cup {b}
    BY <1>6
  <2> DEFINE rest == reading[q].blocks
             T    == S \cup {b}
  <2> HIDE DEF rest, T
  <2>2. rest \in Seq(T) /\ b \in T
    BY <2>1 DEF rest, T
  <2>3. /\ Append(rest, b) \in Seq(T) /\ Len(Append(rest, b)) = Len(rest) + 1
        /\ Len(rest) \in Nat /\ DOMAIN rest = 1..Len(rest)
        /\ DOMAIN Append(rest, b) = 1..Len(rest) + 1
        /\ Append(rest, b)[Len(rest) + 1] = b
        /\ \A i \in 1..Len(rest) : Append(rest, b)[i] = rest[i]
    BY <2>2
  <2> QED
    BY <2>3 DEF rest, T
<1> HIDE DEF bs
<1>9. DOMAIN r = {"what", "id", "blocks"} /\ r.blocks = bs /\ r.what = reading[q].what
  BY <1>4, Zenon
<1> HIDE DEF r, c
<1>10. \A p \in Lookups : reading'[p] = IF p = q THEN r ELSE reading[p]
  BY <1>4, <1>5
<1>11. \A i \in DOMAIN bs : Fits(bs[i], Components[i])
  <2>1. \A i \in DOMAIN reading[q].blocks : Fits(reading[q].blocks[i], Components[i])
    BY DEF Reads, Invariant
  <2>2. Fits(bs[n], Components[n])
    BY <1>7, <1>8 DEF c
  <2> HIDE DEF n
  <2> QED
    BY <1>8, <2>1, <2>2
<1>12. Reads'
  <2>1. settled' \subseteq Lookups /\ DOMAIN reading' = Lookups /\ DOMAIN answered' = Lookups
    BY <1>2, <1>3, <1>4, <1>5 DEF Reads, Invariant
  <2>2. ASSUME NEW p \in Lookups
        PROVE  /\ answered'[p].status \in {0, 200, 404, 503}
               /\ DOMAIN reading'[p] = {"what", "id", "blocks"}
               /\ \E T : reading'[p].blocks \in Seq(T)
               /\ Len(reading'[p].blocks) <= Len(Components)
               /\ \A i \in DOMAIN reading'[p].blocks : Fits(reading'[p].blocks[i], Components[i])
               /\ reading'[p].what = "nothing" => reading'[p].blocks = <<>>
    <3>1. CASE p = q
      <4>1. reading'[p] = r /\ Len(bs) <= Len(Components) /\ answered'[p] = answered[p]
        BY <1>2, <1>8, <1>10, <3>1
      <4>2. answered[p].status \in {0, 200, 404, 503}
        BY DEF Reads, Invariant
      <4>3. bs \in Seq(S \cup {b})
        BY <1>8
      <4>4. r.what # "nothing"
        BY <1>2, <1>9
      <4> HIDE DEF n
      <4> QED
        BY <1>9, <1>11, <4>1, <4>2, <4>3, <4>4
    <3>2. CASE p # q
      BY <1>2, <1>10, <3>2 DEF Reads, Invariant
    <3> QED
      BY <3>1, <3>2
  <2> QED
    BY <2>1, <2>2 DEF Reads
<1>13. Settles'
  <2>1. \A d : Current(d)' = Current(d)
    BY <1>2 DEF Current
  <2>2. ASSUME NEW p \in settled', NEW i \in DOMAIN reading'[p].blocks
        PROVE  reading'[p].blocks[i] = Current(Components[i])
    <3>1. p \in settled /\ p \in Lookups
      BY <1>3 DEF Reads, Invariant
    <3>2. CASE p # q
      BY <1>10, <2>2, <3>1, <3>2 DEF Settles, Invariant
    <3>3. CASE p = q
      <4>1. reading'[p].blocks = bs
        BY <1>9, <1>10, <3>1, <3>3
      <4>2. b = Current(Components[n])
        BY <1>3, <1>7, <2>2, <3>3 DEF c
      <4>3. \A k \in DOMAIN reading[q].blocks : reading[q].blocks[k] = Current(Components[k])
        BY <3>1, <3>3 DEF Settles, Invariant
      <4> HIDE DEF n
      <4> QED
        BY <1>8, <2>2, <4>1, <4>2, <4>3
    <3> QED
      BY <3>2, <3>3
  <2> QED
    BY <2>1, <2>2 DEF Settles
<1>14. Replied'
  <2>1. answered[q].status = 0
    <3>1. \E m \in Nat : m = Len(reading[q].blocks)
      BY <1>6
    <3>2. \E m \in Nat : m = Len(Components)
      BY DatasetsAssumption
    <3>3. Len(reading[q].blocks) # Len(Components)
      BY <1>2, <3>1, <3>2
    <3> QED
      BY <3>3 DEF Replied, Invariant
  <2>2. ASSUME NEW p \in Lookups, answered[p].status # 0
        PROVE  reading'[p] = reading[p]
    BY <1>10, <2>1, <2>2
  <2> QED
    BY <1>2, <2>2 DEF Replied, Invariant
<1> QED
  BY <1>1, <1>12, <1>13, <1>14 DEF Invariant

LEMMA AnswerKeeps ==
  ASSUME Invariant, NEW q \in Lookups, NEW owners \in BOOLEAN, Answer(q, owners)
  PROVE  Invariant'
<1>1. Stores'
  BY LookupKeeps DEF Answer, Invariant
<1> DEFINE r    == reading[q]
           hits == Hits(r.blocks, r.id)
           list == IF Summary(r.blocks).status = "unknown" THEN 503 ELSE 200
           item == IF hits = {} THEN Absent(r.blocks)
                   ELSE IF r.what = "page" /\ ~owners THEN 503 ELSE 200
           s    == IF r.what = "list" THEN list ELSE item
           e    == IF r.what = "list" \/ hits = {} THEN {}
                   ELSE {r.blocks[FirstHit(hits)[1]].datasets[FirstHit(hits)[2]]}
           out  == [status |-> s, summary |-> Summary(r.blocks), entry |-> e]
<1>2. /\ UNCHANGED <<reading, settled, serving, running>> /\ Len(r.blocks) = Len(Components)
      /\ answered' = [answered EXCEPT ![q] = out]
  BY Zenon DEF Answer, storeVars
<1>3. out.status = s /\ out.summary = Summary(r.blocks) /\ out.entry = e
  BY Zenon
<1>4. s \in {200, 404, 503}
  BY DEF Absent
<1>5. Follows(out, r.what, r.id, r.blocks)
  <2>1. DOMAIN r.blocks # {}
    <3>1. PICK S : r.blocks \in Seq(S)
      BY DEF Reads, Invariant
    <3>2. \E n \in Nat : n # 0 /\ n = Len(Components)
      BY DatasetsAssumption
    <3>3. DOMAIN r.blocks = 1..Len(r.blocks)
      BY <3>1
    <3>4. 1 \in DOMAIN r.blocks
      BY <1>2, <3>2, <3>3
    <3> QED
      BY <3>4
  <2> DEFINE u == Unread(r.blocks)
             d == DOMAIN r.blocks
  <2>2. Summary(r.blocks).status = IF u = {} THEN "complete" ELSE IF u = d THEN "unknown" ELSE "partial"
    BY Zenon DEF Summary
  <2>3. Absent(r.blocks) = IF u = {} THEN 404 ELSE 503
    BY DEF Absent
  <2>4. d # {}
    BY <2>1
  <2> HIDE DEF u, d, hits
  <2>5. CASE r.what = "list"
    <3>1. out.status = list
      BY <1>3, <2>5
    <3>2. out.status = 503 <=> u = d
      BY <2>2, <2>4, <3>1
    <3>3. out.summary.status = "complete" <=> u = {}
      BY <1>3, <2>2
    <3> QED
      BY <2>5, <3>2, <3>3 DEF Follows, u, d
  <2>6. CASE r.what # "list"
    <3>1. out.status = item /\ (out.entry # {} => hits # {})
      BY <1>3, <2>6
    <3>2. out.status = 404 => hits = {} /\ u = {}
      BY <2>3, <3>1
    <3>3. out.status = 503 => (hits = {} /\ u # {}) \/ (r.what = "page" /\ hits # {})
      BY <2>3, <3>1
    <3> QED
      BY <2>6, <3>1, <3>2, <3>3 DEF Follows, u, hits
  <2> QED
    BY <2>5, <2>6
<1> HIDE DEF out, s, e
<1>6. \A p \in Lookups : answered'[p] = IF p = q THEN out ELSE answered[p]
  BY <1>2 DEF Invariant, Reads
<1>7. Reads'
  BY <1>2, <1>3, <1>4, <1>6 DEF Invariant, Reads
<1>8. Settles'
  BY <1>2 DEF Settles, Current, Invariant
<1>9. Replied'
  <2>1. ASSUME NEW p \in Lookups, answered'[p].status # 0
        PROVE  /\ Len(reading[p].blocks) = Len(Components)
               /\ Follows(answered'[p], reading[p].what, reading[p].id, reading[p].blocks)
    BY <1>2, <1>5, <1>6, <2>1 DEF Replied, Invariant
  <2>2. \A a, what, id, blocks : Follows(a, what, id, blocks)' = Follows(a, what, id, blocks)
    BY DEF Follows
  <2> QED
    BY <1>2, <2>1, <2>2 DEF Replied
<1> QED
  BY <1>1, <1>7, <1>8, <1>9 DEF Invariant

LEMMA NextInvariant ==
  ASSUME Invariant, [RegistryNext]_registryVars
  PROVE  Invariant'
<1>1. ASSUME NEW c \in Attached,
             \/ \E doc \in Documents : WriteFile(c, doc)
             \/ Boot(c) \/ Die(c)
             \/ \E w \in BOOLEAN : Reload(c, w) \/ ReloadOutside(c, w)
      PROVE  Invariant'
  <2>1. c \in Names
    BY DatasetsAssumption
  <2>2. Stores'
    BY <1>1, <2>1, WriteFileKeeps, BootKeeps, DieKeeps, ReloadKeeps, ReloadOutsideKeeps
       DEF Invariant
  <2>3. UNCHANGED lookupVars
    BY <1>1 DEF WriteFile, Boot, Die, Reload, ReloadOutside
  <2>4. settled' = {} \/ UNCHANGED <<settled, serving, running>>
    BY <1>1 DEF WriteFile, Boot, Die, Reload, ReloadOutside, Disturbed, storeVars
  <2>5. Reads'
    BY <2>3, <2>4 DEF Invariant, Reads, lookupVars
  <2>6. Settles'
    BY <2>3, <2>4 DEF Invariant, Settles, Current, lookupVars
  <2>7. Replied'
    BY <2>3 DEF Invariant, Replied, lookupVars
  <2> QED
    BY <2>2, <2>5, <2>6, <2>7 DEF Invariant
<1>2. CASE \E q \in Lookups :
              \/ \E what \in {"page", "tool"}, id \in SomeIds : AskHelm(q, what, id)
              \/ AskHelm(q, "list", "")
              \/ \E b \in BOOLEAN : Read(q, b) \/ Answer(q, b)
  BY <1>2, AskKeeps, ReadKeeps, AnswerKeeps
<1>3. CASE UNCHANGED registryVars
  <2>1. Stores'
    <3>1. UNCHANGED <<file, serving, storeVars>> /\ losses' = losses
      BY <1>3 DEF registryVars, storeVars
    <3> QED
      BY <3>1, LookupKeeps DEF Invariant
  <2>2. Reads'
    BY <1>3 DEF registryVars, lookupVars, Reads, Invariant
  <2>3. Settles'
    BY <1>3 DEF registryVars, lookupVars, storeVars, Settles, Current, Invariant
  <2>4. Replied'
    BY <1>3 DEF registryVars, lookupVars, Replied, Invariant
  <2> QED
    BY <2>1, <2>2, <2>3, <2>4 DEF Invariant
<1> QED
  BY <1>1, <1>2, <1>3 DEF RegistryNext

LEMMA InvariantImplies ==
  ASSUME Invariant
  PROVE  RegistriesAreSound
<1>1. \A c \in Names : Passed(running[c])
  BY DEF Invariant, Stores
<1>2. RegistryTypeOK
  <2>1. \A doc : Registry(doc).declared
    BY DEF Registry
  <2> QED
    BY <1>1, <2>1 DEF Invariant, Stores, Reads, Passed, RegistryTypeOK
<1>3. OneEntryPerId
  <2>1. ASSUME NEW c \in Names, NEW i \in DOMAIN running[c].entries,
               NEW k \in DOMAIN running[c].entries,
               running[c].entries[i].id = running[c].entries[k].id
        PROVE  i = k
    <3>1. CASE running[c] = Empty
      <4>1. DOMAIN Empty.entries = {}
        BY DEF Empty
      <4> QED
        BY <2>1, <3>1, <4>1
    <3>2. CASE running[c] # Empty
      <4>1. PICK doc \in Files : running[c] = Registry(doc) /\ Verdict(doc.entries) = "none"
        BY <1>1, <3>2 DEF Passed
      <4>2. running[c].entries = doc.entries
        BY <4>1 DEF Registry
      <4> QED
        BY <2>1, <4>1, <4>2, LetInOnce
    <3> QED
      BY <3>1, <3>2
  <2> QED
    BY <2>1 DEF OneEntryPerId
<1>4. EmptyIsExplained /\ RegistryIsLedgered
  <2>1. Ledgered \subseteq Names
    BY DatasetsAssumption
  <2> QED
    BY <2>1 DEF Invariant, Stores, EmptyIsExplained, RegistryIsLedgered
<1> QED
  BY <1>2, <1>3, <1>4 DEF RegistriesAreSound

\* In every component, after any sequence of loads, refusals, kills and boots
\* and whatever line could not be written: a dataset has one entry, an empty
\* registry shows a refusal, and the one in force is the last on the chain
\* (DatasetRegistryStore.reload, attach_datasets, parse_registry).
THEOREM RegistriesStaySound == RegistrySpec => []RegistriesAreSound
<1> QED
  BY InitInvariant, NextInvariant, InvariantImplies, PTL DEF RegistrySpec

LEMMA HonestLookups ==
  ASSUME Invariant
  PROVE  LookupsAreHonest
<1>1. ASSUME NEW q \in Lookups, NEW i \in DOMAIN reading[q].blocks
      PROVE  LET b == reading[q].blocks[i] IN
             Known(b) <=> b.reachable \/ b.component \in DOMAIN Declared
  <2> DEFINE b == reading[q].blocks[i]
             c == Components[i]
  <2>1. b.component = c /\ (b.reachable \/ b = Fallback(c))
    BY DEF Invariant, Reads, Fits
  <2>2. Fallback(c).declared_only <=> c \in DOMAIN Declared
    BY DEF Fallback, Block
  <2> HIDE DEF b, c
  <2>3. Known(b) <=> b.reachable \/ b.component \in DOMAIN Declared
    <3>1. CASE b.reachable
      BY <3>1 DEF Known
    <3>2. CASE ~b.reachable
      BY <2>1, <2>2, <3>2 DEF Known
    <3> QED
      BY <3>1, <3>2
  <2> QED
    BY <2>3 DEF b
<1>2. CountsAreWhole
  <2>1. ASSUME NEW q \in Lookups, answered[q].status # 0, reading[q].what = "list"
        PROVE  LET bs == reading[q].blocks IN
               /\ answered[q].summary.status = "complete" <=>
                     \A i \in DOMAIN bs : bs[i].reachable \/ bs[i].component \in DOMAIN Declared
               /\ answered[q].status = 503 <=>
                     \A i \in DOMAIN bs : ~bs[i].reachable /\ bs[i].component \notin DOMAIN Declared
    <3> DEFINE bs == reading[q].blocks
    <3>1. Unread(bs) = {} <=> \A i \in DOMAIN bs : bs[i].reachable \/ bs[i].component \in DOMAIN Declared
      BY <1>1 DEF Unread
    <3>2. Unread(bs) = DOMAIN bs <=>
             \A i \in DOMAIN bs : ~bs[i].reachable /\ bs[i].component \notin DOMAIN Declared
      BY <1>1 DEF Unread
    <3>3. /\ answered[q].summary.status = "complete" <=> Unread(bs) = {}
          /\ answered[q].status = 503 <=> Unread(bs) = DOMAIN bs
      BY <2>1 DEF Invariant, Replied, Follows
    <3> QED
      BY <3>1, <3>2, <3>3
  <2> QED
    BY <2>1 DEF CountsAreWhole
<1>3. AbsenceIsEstablished
  <2>1. ASSUME NEW q \in settled, answered[q].status # 0, reading[q].what # "list"
        PROVE  /\ answered[q].status = 404 =>
                     \A c \in Names : CanTell(c) /\ ~Tells(c, reading[q].id)
               /\ answered[q].status = 503 =>
                     \/ reading[q].what = "page" /\ \E c \in Names : Tells(c, reading[q].id)
                     \/ \E c \in Names : ~CanTell(c)
               /\ answered[q].entry # {} => \E c \in Names : Tells(c, reading[q].id)
    <3> DEFINE bs == reading[q].blocks
               id == reading[q].id
    <3>1. q \in Lookups
      BY DEF Invariant, Reads
    <3>2. /\ Len(bs) = Len(Components)
          /\ Follows(answered[q], reading[q].what, id, bs)
          /\ \E S : bs \in Seq(S)
      BY <2>1, <3>1 DEF Invariant, Reads, Replied
    <3>3. \A i \in DOMAIN bs : bs[i] = Current(Components[i])
      BY DEF Invariant, Settles
    <3>4. DOMAIN bs = DOMAIN Components /\ \A i \in DOMAIN Components : Components[i] \in Names
      BY <3>2, DatasetsAssumption
    <3>5. ASSUME NEW c \in Names
          PROVE  \E i \in DOMAIN bs : Components[i] = c
      <4>1. Names = {Components[i] : i \in DOMAIN Components}
        BY DEF Names, ToSet
      <4> QED
        BY <3>4, <4>1
    <3>6. ASSUME NEW i \in DOMAIN bs
          PROVE  /\ Known(bs[i]) <=> CanTell(Components[i])
                 /\ (\E k \in DOMAIN bs[i].datasets : bs[i].datasets[k].id = id)
                       <=> Tells(Components[i], id)
      <4> DEFINE c  == Components[i]
                 es == IF serving[c] THEN running[c].entries
                       ELSE IF c \in DOMAIN Declared THEN Declared[c] ELSE <<>>
      <4>1. bs[i] = Current(c)
        BY <3>3
      <4>2. Known(Current(c)) <=> CanTell(c)
        BY DEF Known, Current, Fallback, Block, CanTell
      <4>3. Current(c).datasets = es
        BY DEF Current, Fallback, Block
      <4>4. (\E k \in DOMAIN es : es[k].id = id) <=> Tells(c, id)
        <5> HIDE DEF id, c
        <5>1. \A s : ToSet(s) = {s[k] : k \in DOMAIN s}
          BY DEF ToSet
        <5>2. Tells(c, id) <=> \E e \in ToSet(es) : e.id = id
          BY DEF Tells
        <5> HIDE DEF es
        <5> QED
          BY <5>1, <5>2
      <4> HIDE DEF es, c, id
      <4> QED
        BY <4>1, <4>2, <4>3, <4>4 DEF c
    <3>7. Hits(bs, id) # {} <=> \E i \in DOMAIN bs : Tells(Components[i], id)
      <4>1. ASSUME NEW p \in Hits(bs, id)
            PROVE  \E i \in DOMAIN bs : Tells(Components[i], id)
        <5>1. PICK i \in DOMAIN bs : p \in {i} \X DOMAIN bs[i].datasets
          BY <4>1 DEF Hits
        <5>2. p[1] = i /\ p[2] \in DOMAIN bs[i].datasets /\ bs[i].datasets[p[2]].id = id
          BY <4>1, <5>1 DEF Hits
        <5> QED
          BY <3>6, <5>2
      <4>2. ASSUME NEW i \in DOMAIN bs, Tells(Components[i], id)
            PROVE  Hits(bs, id) # {}
        <5>1. PICK k \in DOMAIN bs[i].datasets : bs[i].datasets[k].id = id
          BY <3>6, <4>2
        <5>2. <<i, k>> \in {i} \X DOMAIN bs[i].datasets
          OBVIOUS
        <5>3. <<i, k>>[1] = i /\ <<i, k>>[2] = k
          OBVIOUS
        <5>4. <<i, k>> \in Hits(bs, id)
          BY <5>1, <5>2, <5>3 DEF Hits
        <5> QED
          BY <5>4
      <4> QED
        BY <4>1, <4>2
    <3>8. Unread(bs) = {} <=> \A c \in Names : CanTell(c)
      BY <3>4, <3>5, <3>6 DEF Unread
    <3>9. /\ answered[q].status = 404 => Hits(bs, id) = {} /\ Unread(bs) = {}
          /\ answered[q].status = 503 => \/ Hits(bs, id) = {} /\ Unread(bs) # {}
                                         \/ reading[q].what = "page" /\ Hits(bs, id) # {}
          /\ answered[q].entry # {} => Hits(bs, id) # {}
      BY <2>1, <3>2 DEF Follows
    <3>10. Hits(bs, id) # {} <=> \E c \in Names : Tells(c, id)
      BY <3>4, <3>5, <3>7
    <3> HIDE DEF bs, id
    <3> QED
      BY <3>8, <3>9, <3>10 DEF id
  <2> QED
    BY <2>1 DEF AbsenceIsEstablished
<1> QED
  BY <1>2, <1>3 DEF LookupsAreHonest

\* Of a read no reload and no kill broke into: helm says "no such dataset" only
\* where every component was read or declared and none has it, and "cannot
\* tell" only where one could not say or the owners are unknown.  Of any read:
\* a list counts as whole only where nobody is missing (FederatedDatasets.locate,
\* summary).
THEOREM LookupsStayHonest == RegistrySpec => []LookupsAreHonest
<1> QED
  BY InitInvariant, NextInvariant, HonestLookups, PTL DEF RegistrySpec

-----------------------------------------------------------------------------
(* docket's routes and throughline's chain                                 *)

LineIds == {NoId, Permit} \cup {<<"jdg", n>> : n \in Nat} \cup {<<"eff", r>> : r \in Routes}

Lines == [type : EffectLines \cup {"signal.ingested", "judgment.recorded"},
          id : LineIds, judgment : LineIds, signal : LineIds, altered : BOOLEAN]

Has(c, types, id) == \E i \in DOMAIN c : c[i].type \in types /\ c[i].id = id

\* A judgment that docket accepted.
Cited(js, j) == ~js[j].abstained

\* A route that was answered 202: the mock's where it was asked for, or one
\* whose effect ran.
Honored(m, e, c, r, t) ==
    \/ m = TRUE /\ t.substrate = "mock"
    \/ t.substrate = "real" /\ (e > 0 \/ Has(c, {"effect.executed"}, <<"eff", r>>))

Working == {"signal", "judgment", "effect"}

RouteStates == [at : Working \cup {"new", "asked", "done"}, judgment : Nat]
Tellings == [status : {0, 202, 404, 409, 500, 503}, substrate : {"none", "mock", "real"}]

Desk ==
    /\ judging \in 0..2 /\ mock \in BOOLEAN
    /\ \E S : judgments \in Seq(S)
    /\ kept \subseteq DOMAIN judgments
    /\ client \in {"none", "mock", "real"} /\ (client = "mock" => mock = TRUE)
    /\ route \in [Routes -> RouteStates]
    /\ told \in [Routes -> Tellings]
    /\ chain \in Seq(Lines)
    /\ edits \in Nat

\* A request under way carries a judgment docket accepted, and what it posted
\* so far is on the chain.
Posting ==
    \A r \in Routes :
        /\ route[r].at # "new" => route[r].judgment \in DOMAIN judgments
        /\ route[r].at \in Working => Cited(judgments, route[r].judgment)
        /\ edits = 0 /\ route[r].at \in {"judgment", "effect"} => Has(chain, {"signal.ingested"}, Permit)
        /\ edits = 0 /\ route[r].at = "effect" =>
               Has(chain, {"judgment.recorded"}, <<"jdg", route[r].judgment>>)

\* A line nobody edited says what its request said.
AsPosted(l) ==
    /\ l.type \in EffectLines =>
          \E r \in Routes : /\ route[r].at # "new"
                            /\ l.id = <<"eff", r>>
                            /\ l.judgment = <<"jdg", route[r].judgment>>
                            /\ l.signal = Permit
    /\ l.type = "judgment.recorded" =>
          \E j \in DOMAIN judgments : l.id = <<"jdg", j>> /\ Cited(judgments, j)

Posted == \A i \in DOMAIN chain : ~chain[i].altered => AsPosted(chain[i])

\* In a file nobody edited, what an effect rests on is there.
Rooted ==
    edits = 0 => \A i \in DOMAIN chain :
        /\ ~chain[i].altered
        /\ chain[i].type \in EffectLines =>
              Has(chain, {"signal.ingested"}, Permit) /\ Has(chain, {"judgment.recorded"}, chain[i].judgment)

Answers == \A r \in Routes : told[r].status = 202 => Honored(mock, edits, chain, r, told[r])

Routing == Desk /\ Posting /\ Posted /\ Rooted /\ Answers

LEMMA CitedStays ==
  ASSUME NEW js, NEW ks, NEW j, js[j] = ks[j], Cited(js, j)
  PROVE  Cited(ks, j)
BY Zenon DEF Cited

LEMMA LinesAreTyped ==
  /\ \A t \in EffectLines \cup {"signal.ingested", "judgment.recorded"} :
       \A a, b, c \in LineIds : Line(t, a, b, c) \in Lines
  /\ \A t, a, b, c : /\ Line(t, a, b, c).type = t /\ Line(t, a, b, c).id = a
                     /\ Line(t, a, b, c).judgment = b /\ Line(t, a, b, c).signal = c
                     /\ Line(t, a, b, c).altered = FALSE
BY DEF Lines, Line

\* What each call of a route appends.
LEMMA WhatIsAppended ==
  ASSUME NEW r \in Routes, Desk, NEW at \in Working
  PROVE  LET s == Appends(r, at)
             j == <<"jdg", route[r].judgment>>
         IN  /\ s \in Seq(Lines) /\ Len(s) \in {1, 3}
             /\ \A k \in DOMAIN s : ~s[k].altered
             /\ at = "signal" => \A k \in DOMAIN s : s[k].type = "signal.ingested" /\ s[k].id = Permit
             /\ at = "judgment" => \A k \in DOMAIN s : s[k].type = "judgment.recorded" /\ s[k].id = j
             /\ at = "effect" => /\ Len(s) = 3 /\ s[3].type = "effect.executed"
                                 /\ \A k \in DOMAIN s : /\ s[k].type \in EffectLines
                                                        /\ s[k].id = <<"eff", r>>
                                                        /\ s[k].judgment = j
                                                        /\ s[k].signal = Permit
<1> DEFINE s == Appends(r, at)
           j == <<"jdg", route[r].judgment>>
<1>1. j \in LineIds /\ NoId \in LineIds /\ Permit \in LineIds /\ <<"eff", r>> \in LineIds
  <2>1. route[r].judgment \in Nat
    BY DEF Desk, RouteStates
  <2> QED
    BY <2>1 DEF LineIds
<1> HIDE DEF j
<1>2. CASE at = "signal"
  <2> DEFINE l == Line("signal.ingested", Permit, NoId, NoId)
  <2>1. s = <<l>>
    BY <1>2 DEF Appends
  <2>2. l \in Lines
    BY <1>1, LinesAreTyped
  <2>3. ~l.altered /\ l.type = "signal.ingested" /\ l.id = Permit
    BY LinesAreTyped
  <2> HIDE DEF l, s
  <2>4. s \in Seq(Lines) /\ Len(s) = 1 /\ \A k \in DOMAIN s : s[k] = l
    BY <2>1, <2>2
  <2> QED
    BY <1>2, <2>3, <2>4 DEF s
<1>3. CASE at = "judgment"
  <2> DEFINE l == Line("judgment.recorded", j, NoId, Permit)
  <2>1. s = <<l>>
    BY <1>3 DEF Appends, j
  <2>2. l \in Lines /\ ~l.altered /\ l.type = "judgment.recorded" /\ l.id = j
    BY <1>1, LinesAreTyped
  <2> HIDE DEF l, s
  <2> QED
    BY <1>3, <2>1, <2>2 DEF s, j
<1>4. CASE at = "effect"
  <2> DEFINE t == <<"effect.proposed", "effect.executing", "effect.executed">>
             l == [i \in 1..3 |-> Line(t[i], <<"eff", r>>, j, Permit)]
  <2>1. s = l
    BY <1>4 DEF Appends, j
  <2>2. \A i \in 1..3 : t[i] \in EffectLines
    BY DEF EffectLines
  <2>3. t[3] = "effect.executed"
    OBVIOUS
  <2> HIDE DEF t
  <2>4. ASSUME NEW i \in 1..3
        PROVE  /\ l[i] \in Lines /\ ~l[i].altered /\ l[i].type = t[i] /\ l[i].id = <<"eff", r>>
               /\ l[i].judgment = j /\ l[i].signal = Permit
    BY <1>1, <2>2, LinesAreTyped
  <2>5. DOMAIN l = 1..3 /\ l \in [1..3 -> Lines]
    BY <2>4
  <2> HIDE DEF l, s
  <2>6. s \in Seq(Lines) /\ Len(s) = 3 /\ DOMAIN s = 1..3
    <3>1. s \in Seq(Lines)
      BY <2>1, <2>5, SeqDef
    <3>2. DOMAIN s = 1..Len(s) /\ Len(s) \in Nat
      BY <3>1
    <3>3. DOMAIN s = 1..3
      BY <2>1, <2>5
    <3> QED
      BY <3>1, <3>2, <3>3
  <2> QED
    BY <1>4, <2>1, <2>2, <2>3, <2>4, <2>6 DEF s, j
<1> QED
  BY <1>2, <1>3, <1>4 DEF Working

LEMMA Grows ==
  ASSUME NEW c, c \in Seq(Lines), NEW s, s \in Seq(Lines)
  PROVE  /\ c \o s \in Seq(Lines)
         /\ DOMAIN c \subseteq DOMAIN (c \o s)
         /\ \A i \in DOMAIN c : (c \o s)[i] = c[i]
         /\ \A i \in DOMAIN (c \o s) : i \in DOMAIN c \/ \E k \in DOMAIN s : (c \o s)[i] = s[k]
         /\ \A k \in DOMAIN s : \E i \in DOMAIN (c \o s) : (c \o s)[i] = s[k]
<1>1. PICK m \in Nat : m = Len(c) /\ DOMAIN c = 1..m
  OBVIOUS
<1>2. PICK n \in Nat : n = Len(s) /\ DOMAIN s = 1..n
  OBVIOUS
<1>3. /\ c \o s \in Seq(Lines) /\ DOMAIN (c \o s) = 1..(m + n)
      /\ \A i \in 1..(m + n) : (c \o s)[i] = IF i <= m THEN c[i] ELSE s[i - m]
  BY <1>1, <1>2
<1>4. ASSUME NEW k \in 1..n
      PROVE  k + m \in 1..(m + n) /\ (c \o s)[k + m] = s[k]
  BY <1>3
<1> QED
  BY <1>1, <1>2, <1>3, <1>4

\* A part of what a call appends.
LEMMA Part ==
  ASSUME NEW s, s \in Seq(Lines), NEW n \in 0..Len(s)
  PROVE  /\ SubSeq(s, 1, n) \in Seq(Lines)
         /\ \A k \in DOMAIN SubSeq(s, 1, n) : k \in DOMAIN s /\ SubSeq(s, 1, n)[k] = s[k]
<1>1. PICK m \in Nat : m = Len(s) /\ DOMAIN s = 1..m
  OBVIOUS
<1>2. n \in Nat /\ n <= m
  BY <1>1
<1>3. \A k \in 1..n : s[k] \in Lines /\ k \in 1..m
  BY <1>1, <1>2
<1>4. SubSeq(s, 1, n) = [k \in 1..n |-> s[k]]
  BY <1>2
<1> QED
  BY <1>1, <1>2, <1>3, <1>4

\* Lines are added and routes move on: what was posted stays posted.
LEMMA PostedStays ==
  ASSUME Routing, NEW s, s \in Seq(Lines), chain' = chain \o s,
         \A r \in Routes : route[r].at # "new" =>
             route'[r].at # "new" /\ route'[r].judgment = route[r].judgment,
         DOMAIN judgments \subseteq DOMAIN judgments',
         \A j \in DOMAIN judgments : judgments'[j] = judgments[j],
         \A k \in DOMAIN s : ~s[k].altered /\ AsPosted(s[k])',
         edits' = edits,
         edits = 0 => \A k \in DOMAIN s : s[k].type \in EffectLines =>
             Has(chain, {"signal.ingested"}, Permit) /\ Has(chain, {"judgment.recorded"}, s[k].judgment)
  PROVE  /\ Posted' /\ Rooted' /\ chain' \in Seq(Lines)
         /\ \A types, id : Has(chain, types, id) => Has(chain', types, id)
         /\ \A k \in DOMAIN s : Has(chain', {s[k].type}, s[k].id)
<1>1. /\ chain' \in Seq(Lines) /\ DOMAIN chain \subseteq DOMAIN chain'
      /\ \A i \in DOMAIN chain : chain'[i] = chain[i]
      /\ \A i \in DOMAIN chain' : i \in DOMAIN chain \/ \E k \in DOMAIN s : chain'[i] = s[k]
      /\ \A k \in DOMAIN s : \E i \in DOMAIN chain' : chain'[i] = s[k]
  BY Grows DEF Routing, Desk
<1>2. \A types, id : Has(chain, types, id) => Has(chain', types, id)
  BY <1>1 DEF Has
<1>3. \A k \in DOMAIN s : Has(chain', {s[k].type}, s[k].id)
  BY <1>1 DEF Has
<1>4. \A l : AsPosted(l) => AsPosted(l)'
  <2>1. \A j \in DOMAIN judgments : Cited(judgments, j) => Cited(judgments', j)
    BY CitedStays
  <2> QED
    BY <2>1 DEF AsPosted
<1>5. Posted'
  <2>1. ASSUME NEW i \in DOMAIN chain', ~chain'[i].altered
        PROVE  AsPosted(chain[i])'
    <3>1. CASE i \in DOMAIN chain
      <4>1. chain'[i] = chain[i] /\ AsPosted(chain[i])
        BY <1>1, <2>1, <3>1 DEF Routing, Posted
      <4>2. PICK l : l = chain[i]
        OBVIOUS
      <4>3. AsPosted(l)
        BY <4>1, <4>2
      <4>4. AsPosted(l)' /\ chain'[i] = l
        BY <1>4, <4>1, <4>2, <4>3
      <4> QED
        BY <4>4 DEF AsPosted
    <3>2. CASE i \notin DOMAIN chain
      <4>1. PICK k \in DOMAIN s : chain'[i] = s[k]
        BY <1>1, <2>1, <3>2
      <4> QED
        BY <4>1 DEF AsPosted
    <3> QED
      BY <3>1, <3>2
  <2> QED
    BY <2>1 DEF Posted
<1>6. Rooted'
  <2>1. ASSUME edits = 0, NEW i \in DOMAIN chain'
        PROVE  /\ ~chain'[i].altered
               /\ chain'[i].type \in EffectLines =>
                    /\ Has(chain', {"signal.ingested"}, Permit)
                    /\ Has(chain', {"judgment.recorded"}, chain'[i].judgment)
    <3>1. CASE i \in DOMAIN chain
      BY <1>1, <1>2, <2>1, <3>1 DEF Routing, Rooted
    <3>2. CASE i \notin DOMAIN chain
      <4>1. PICK k \in DOMAIN s : chain'[i] = s[k]
        BY <1>1, <2>1, <3>2
      <4> DEFINE e == s[k]
      <4>2. ~e.altered /\ (e.type \in EffectLines =>
                Has(chain', {"signal.ingested"}, Permit) /\ Has(chain', {"judgment.recorded"}, e.judgment))
        BY <1>2, <2>1
      <4>3. chain'[i] = e
        BY <4>1
      <4> HIDE DEF e
      <4> QED
        BY <4>2, <4>3 DEF Has
    <3> QED
      BY <3>1, <3>2
  <2> QED
    BY <2>1 DEF Rooted
<1> QED
  BY <1>1, <1>2, <1>3, <1>5, <1>6

LEMMA RoutingBegins ==
  ASSUME Init
  PROVE  Routing
<1> DEFINE w == [at |-> "new", judgment |-> 0]
           t == [status |-> 0, substrate |-> "none"]
<1>1. w \in RouteStates /\ w.at = "new" /\ t \in Tellings /\ t.status = 0
  BY DEF RouteStates, Tellings
<1>2. route = [r \in Routes |-> w] /\ told = [r \in Routes |-> t]
  BY DEF Init
<1> HIDE DEF w, t
<1>3. /\ judging = 0 /\ judgments = <<>> /\ kept = {} /\ client = "none" /\ chain = <<>> /\ edits = 0
      /\ mock \in BOOLEAN /\ <<>> \in Seq({}) /\ <<>> \in Seq(Lines) /\ DOMAIN <<>> = {}
  BY DEF Init
<1>4. Desk
  BY <1>1, <1>2, <1>3 DEF Desk
<1>5. Posting /\ Posted /\ Rooted /\ Answers
  BY <1>1, <1>2, <1>3 DEF Posting, Posted, Rooted, Answers, Working
<1> QED
  BY <1>4, <1>5 DEF Routing

\* The desk moves, and no request, answer or line does.
LEMMA DeskKeeps ==
  ASSUME Routing, UNCHANGED <<client, mock, route, told, chain, edits>>,
         judging' \in 0..2, \E S : judgments' \in Seq(S),
         DOMAIN judgments \subseteq DOMAIN judgments',
         \A j \in DOMAIN judgments : judgments'[j] = judgments[j],
         kept' \subseteq DOMAIN judgments'
  PROVE  Routing'
<1>1. Desk'
  BY DEF Routing, Desk
<1>3. Posting'
  <2>2. ASSUME NEW r \in Routes
        PROVE  /\ route[r].at # "new" => route[r].judgment \in DOMAIN judgments'
               /\ route[r].at \in Working => Cited(judgments', route[r].judgment)
               /\ edits = 0 /\ route[r].at \in {"judgment", "effect"} => Has(chain, {"signal.ingested"}, Permit)
               /\ edits = 0 /\ route[r].at = "effect" =>
                     Has(chain, {"judgment.recorded"}, <<"jdg", route[r].judgment>>)
    <3>1. route[r].at \in Working => route[r].at # "new"
      BY DEF Working
    <3>2. route[r].at # "new" => route[r].judgment \in DOMAIN judgments
      BY DEF Routing, Posting
    <3>3. route[r].at \in Working => Cited(judgments', route[r].judgment)
      BY <3>1, <3>2, CitedStays DEF Routing, Posting
    <3> QED
      BY <3>2, <3>3 DEF Routing, Posting
  <2> QED
    BY <2>2 DEF Posting
<1>4. Posted'
  <2>1. ASSUME NEW i \in DOMAIN chain, ~chain[i].altered
        PROVE  AsPosted(chain[i])'
    <3>1. AsPosted(chain[i])
      BY <2>1 DEF Routing, Posted
    <3> QED
      BY <3>1, CitedStays DEF AsPosted
  <2> QED
    BY <2>1 DEF Posted
<1>5. Rooted'
  BY DEF Routing, Rooted
<1>6. Answers'
  BY DEF Routing, Answers
<1> QED
  BY <1>1, <1>3, <1>4, <1>5, <1>6 DEF Routing

LEMMA PublishKeeps ==
  ASSUME Routing, NEW j, Publish(j), Unjudged
  PROVE  Routing'
<1>1. PICK S : judgments \in Seq(S)
  BY DEF Routing, Desk
<1>2. judgments' = Append(judgments, j) /\ kept' = kept \cup {Len(judgments) + 1} /\ judging' = 0
  BY DEF Publish
<1>3. judgments \in Seq(S \cup {j}) /\ j \in S \cup {j}
  BY <1>1
<1>4. PICK n \in Nat : n = Len(judgments) /\ DOMAIN judgments = 1..n
  BY <1>1
<1>5. /\ judgments' \in Seq(S \cup {j}) /\ DOMAIN judgments' = 1..(n + 1)
      /\ \A k \in 1..n : judgments'[k] = judgments[k]
  BY <1>2, <1>3, <1>4, AppendProperties
<1>6. kept' \subseteq DOMAIN judgments'
  BY <1>2, <1>4, <1>5 DEF Routing, Desk
<1>7. \E T : judgments' \in Seq(T)
  BY <1>5
<1>8. DOMAIN judgments \subseteq DOMAIN judgments'
  BY <1>4, <1>5
<1>9. UNCHANGED <<client, mock, route, told, chain, edits>>
  BY DEF Unjudged, worldVars
<1> QED
  BY <1>2, <1>4, <1>5, <1>6, <1>7, <1>8, <1>9, DeskKeeps

LEMMA JudgingKeeps ==
  ASSUME Routing, Judge \/ Declines \/ \E q \in Replies : Reply(q)
  PROVE  Routing'
<1>1. ASSUME NEW n \in 0..2, judging' = n, UNCHANGED <<judgments, kept>>, Unjudged
      PROVE  Routing'
  BY <1>1, DeskKeeps DEF Routing, Desk, Unjudged, worldVars
<1>2. judging \in 0..2
  BY DEF Routing, Desk
<1>3. ASSUME Judge
      PROVE  Routing'
  BY <1>1, <1>3, PublishKeeps DEF Judge
<1>4. ASSUME Declines
      PROVE  Routing'
  BY <1>4, PublishKeeps DEF Declines
<1>5. ASSUME NEW q \in Replies, Reply(q)
      PROVE  Routing'
  <2>1. CASE Publish(Accepted(Verify(q, description).quote)) \/ Publish(Abstention)
    BY <1>5, <2>1, PublishKeeps DEF Reply
  <2>2. CASE judging < MaxAttempts /\ judging' = judging + 1 /\ UNCHANGED <<judgments, kept>>
    BY <1>1, <1>2, <1>5, <2>2 DEF Reply, MaxAttempts
  <2> QED
    BY <1>5, <2>1, <2>2 DEF Reply
<1> QED
  BY <1>3, <1>4, <1>5

\* A request begins, is turned away, or goes to its first call.
LEMMA RouteKeeps ==
  ASSUME Routing, NEW r \in Routes,
         route' \in [Routes -> RouteStates], told' \in [Routes -> Tellings],
         \A o \in Routes \ {r} : route'[o] = route[o] /\ told'[o] = told[o],
         UNCHANGED deskVars, UNCHANGED kept, UNCHANGED mock, UNCHANGED edits, UNCHANGED chain,
         client' \in {"none", "mock", "real"}, client' = "mock" => mock = TRUE,
         route'[r].at \in {"asked", "signal", "done"},
         route'[r].judgment \in DOMAIN judgments,
         route[r].at # "new" => route'[r].judgment = route[r].judgment,
         route'[r].at = "signal" => Cited(judgments, route'[r].judgment),
         \/ told'[r] = told[r]
         \/ told'[r].status # 202
         \/ Honored(mock, edits, chain, r, told'[r])
  PROVE  Routing'
<1>1. UNCHANGED judging /\ UNCHANGED judgments
  BY DEF deskVars
<1>2. Desk'
  BY <1>1 DEF Routing, Desk
<1>3. \A o \in Routes : route[o].at # "new" =>
          route'[o].at # "new" /\ route'[o].judgment = route[o].judgment
  OBVIOUS
<1>4. Posting'
  <2>1. ASSUME NEW o \in Routes
        PROVE  /\ route'[o].at # "new" => route'[o].judgment \in DOMAIN judgments
               /\ route'[o].at \in Working => Cited(judgments, route'[o].judgment)
               /\ edits = 0 /\ route'[o].at \in {"judgment", "effect"} => Has(chain, {"signal.ingested"}, Permit)
               /\ edits = 0 /\ route'[o].at = "effect" =>
                     Has(chain, {"judgment.recorded"}, <<"jdg", route'[o].judgment>>)
    <3>1. CASE o = r
      BY <3>1 DEF Working
    <3>2. CASE o # r
      BY <3>2 DEF Routing, Posting
    <3> QED
      BY <3>1, <3>2
  <2> QED
    BY <1>1, <2>1 DEF Posting
<1>5. Posted'
  <2>1. ASSUME NEW i \in DOMAIN chain, ~chain[i].altered
        PROVE  AsPosted(chain[i])'
    <3>1. AsPosted(chain[i])
      BY <2>1 DEF Routing, Posted
    <3> QED
      BY <1>1, <1>3, <3>1 DEF AsPosted
  <2> QED
    BY <2>1 DEF Posted
<1>6. Rooted'
  BY DEF Routing, Rooted
<1>7. Answers'
  <2>1. ASSUME NEW o \in Routes, told'[o].status = 202
        PROVE  Honored(mock, edits, chain, o, told'[o])
    BY <2>1 DEF Routing, Answers
  <2> QED
    BY <2>1 DEF Answers
<1> QED
  BY <1>2, <1>4, <1>5, <1>6, <1>7 DEF Routing

LEMMA AskingKeeps ==
  ASSUME Routing, NEW r \in Routes, NEW j \in DOMAIN judgments, Ask(r, j)
  PROVE  Routing'
<1> DEFINE w == [at |-> "asked", judgment |-> j]
<1>1. j \in Nat
  <2>1. PICK S : judgments \in Seq(S)
    BY DEF Routing, Desk
  <2> QED
    BY <2>1
<1>2. w \in RouteStates /\ w.judgment = j /\ w.at = "asked"
  BY <1>1 DEF RouteStates
<1>3. /\ route' = [route EXCEPT ![r] = w] /\ route[r].at = "new" /\ UNCHANGED told
      /\ UNCHANGED <<deskVars, kept, mock, edits, chain, client>>
  BY DEF Ask, worldVars
<1> HIDE DEF w
<1>4. /\ route' \in [Routes -> RouteStates] /\ route'[r] = w
      /\ \A o \in Routes \ {r} : route'[o] = route[o]
  BY <1>2, <1>3 DEF Routing, Desk
<1>5. told' \in [Routes -> Tellings]
  BY <1>3 DEF Routing, Desk
<1>6. client' \in {"none", "mock", "real"} /\ (client' = "mock" => mock = TRUE)
  BY <1>3 DEF Routing, Desk
<1> QED
  BY <1>2, <1>3, <1>4, <1>5, <1>6, RouteKeeps

LEMMA StartKeeps ==
  ASSUME Routing, NEW r \in Routes, Start(r)
  PROVE  Routing'
<1> DEFINE j == route[r].judgment
           substrate == IF client = "none" THEN Built ELSE client
           Moved(at) == [route[r] EXCEPT !.at = at]
<1>1. route[r].at = "asked" /\ UNCHANGED <<deskVars, kept, mock, edits, chain>>
  BY DEF Start, worldVars
<1>2. j \in DOMAIN judgments /\ route[r] \in RouteStates
  BY <1>1 DEF Routing, Desk, Posting
<1>3. substrate \in {"none", "mock", "real"} /\ (substrate = "mock" => mock = TRUE)
  BY DEF Built, Routing, Desk
<1>4. client' \in {"none", "mock", "real"} /\ (client' = "mock" => mock = TRUE)
  <2>1. client' = client \/ client' = substrate
    BY DEF Start
  <2> QED
    BY <1>3, <2>1 DEF Routing, Desk
<1>5. ASSUME NEW at \in {"signal", "done"}, Goto(r, at)
      PROVE  /\ route' \in [Routes -> RouteStates]
             /\ route'[r].at = at /\ route'[r].judgment = j
             /\ \A o \in Routes \ {r} : route'[o] = route[o]
  <2> DEFINE w == Moved(at)
  <2>1. w \in RouteStates /\ w.at = at /\ w.judgment = j
    BY <1>2 DEF RouteStates, Working
  <2>2. route' = [route EXCEPT ![r] = w]
    BY <1>5 DEF Goto
  <2> HIDE DEF w
  <2> QED
    BY <2>1, <2>2 DEF Routing, Desk
<1>6. ASSUME NEW s \in {202, 404, 409, 503}, NEW m \in {"none", "mock"}, Tell(r, s, m),
             s = 202 => m = "mock" /\ mock = TRUE
      PROVE  Routing'
  <2> DEFINE t == [status |-> s, substrate |-> m]
  <2>1. Goto(r, "done") /\ told' = [told EXCEPT ![r] = t]
    BY <1>6 DEF Tell
  <2>2. t \in Tellings /\ t.status = s /\ t.substrate = m
    BY DEF Tellings
  <2> HIDE DEF t
  <2>3. /\ told' \in [Routes -> Tellings] /\ told'[r] = t
        /\ \A o \in Routes \ {r} : told'[o] = told[o]
    BY <2>1, <2>2 DEF Routing, Desk
  <2>4. told'[r].status # 202 \/ Honored(mock, edits, chain, r, told'[r])
    BY <1>6, <2>2, <2>3 DEF Honored
  <2>5. /\ route' \in [Routes -> RouteStates]
        /\ route'[r].at = "done" /\ route'[r].judgment = j
        /\ \A o \in Routes \ {r} : route'[o] = route[o]
    BY <1>5, <2>1
  <2>6. /\ \A o \in Routes \ {r} : route'[o] = route[o] /\ told'[o] = told[o]
        /\ route'[r].at \in {"asked", "signal", "done"} /\ route'[r].at # "signal"
        /\ route'[r].judgment \in DOMAIN judgments
    BY <1>2, <2>3, <2>5
  <2> QED
    BY <1>1, <1>4, <2>3, <2>4, <2>5, <2>6, RouteKeeps
<1>7. ASSUME Goto(r, "signal"), UNCHANGED told, Cited(judgments, j)
      PROVE  Routing'
  <2>1. told' \in [Routes -> Tellings]
    BY <1>7 DEF Routing, Desk
  <2> QED
    BY <1>1, <1>2, <1>4, <1>5, <1>7, <2>1, RouteKeeps
<1>8. \/ Tell(r, 404, "none") \/ Tell(r, 503, "none") \/ Tell(r, 409, "none")
      \/ Tell(r, 202, "mock") /\ substrate = "mock"
      \/ Goto(r, "signal") /\ UNCHANGED told /\ ~RouteRefused(j)
  BY Zenon DEF Start
<1>9. ~RouteRefused(j) => Cited(judgments, j)
  BY Zenon DEF RouteRefused, Cited
<1>10. \/ Tell(r, 404, "none") \/ Tell(r, 503, "none") \/ Tell(r, 409, "none")
       \/ Tell(r, 202, "mock") /\ mock = TRUE
       \/ Goto(r, "signal") /\ UNCHANGED told /\ Cited(judgments, j)
  BY <1>3, <1>8, <1>9
<1>11. ASSUME NEW s \in {404, 409, 503}, Tell(r, s, "none")
       PROVE  Routing'
  BY <1>6, <1>11
<1>12. ASSUME Tell(r, 202, "mock"), mock = TRUE
       PROVE  Routing'
  BY <1>6, <1>12
<1>13. CASE Tell(r, 404, "none") \/ Tell(r, 503, "none") \/ Tell(r, 409, "none")
  BY <1>11, <1>13
<1>14. CASE Tell(r, 202, "mock") /\ mock = TRUE
  BY <1>12, <1>14
<1>15. CASE Goto(r, "signal") /\ UNCHANGED told /\ Cited(judgments, j)
  BY <1>7, <1>15
<1> QED
  BY <1>10, <1>13, <1>14, <1>15

\* Lines arrive, and their request goes on or ends.
Arrive(r, s) ==
    /\ route[r].at \in Working
    /\ s \in Seq(Lines) /\ chain' = chain \o s
    /\ \A k \in DOMAIN s : \E l \in DOMAIN Appends(r, route[r].at) :
           s[k] = Appends(r, route[r].at)[l]
    /\ UNCHANGED deskVars /\ UNCHANGED kept /\ UNCHANGED client /\ UNCHANGED mock /\ UNCHANGED edits

MovesOn(r, s) ==
    /\ route' \in [Routes -> RouteStates] /\ told' \in [Routes -> Tellings]
    /\ \A o \in Routes \ {r} : route'[o] = route[o] /\ told'[o] = told[o]
    /\ route'[r].judgment = route[r].judgment
    /\ \/ route'[r].at = "done"
       \/ route'[r].at = "judgment" /\ route[r].at = "signal" /\ DOMAIN s # {}
       \/ route'[r].at = "effect" /\ route[r].at = "judgment" /\ DOMAIN s # {}
    /\ \/ told'[r] = told[r] \/ told'[r].status # 202
       \/ /\ told'[r].substrate = "real"
          /\ \E k \in DOMAIN s : s[k].type = "effect.executed" /\ s[k].id = <<"eff", r>>

LEMMA LinesKeep ==
  ASSUME Routing, NEW r \in Routes, NEW s, Arrive(r, s), MovesOn(r, s)
  PROVE  Routing'
<1> USE DEF Arrive, MovesOn
<1> DEFINE at == route[r].at
           j  == <<"jdg", route[r].judgment>>
           a  == Appends(r, at)
<1>1. /\ \A k \in DOMAIN a : ~a[k].altered
      /\ at = "signal" => \A k \in DOMAIN a : a[k].type = "signal.ingested" /\ a[k].id = Permit
      /\ at = "judgment" => \A k \in DOMAIN a : a[k].type = "judgment.recorded" /\ a[k].id = j
      /\ at = "effect" => \A k \in DOMAIN a : /\ a[k].type \in EffectLines
                                              /\ a[k].id = <<"eff", r>>
                                              /\ a[k].judgment = j
                                              /\ a[k].signal = Permit
  BY WhatIsAppended DEF Routing
<1> HIDE DEF a
<1>2. /\ \A k \in DOMAIN s : ~s[k].altered
      /\ at = "signal" => \A k \in DOMAIN s : s[k].type = "signal.ingested" /\ s[k].id = Permit
      /\ at = "judgment" => \A k \in DOMAIN s : s[k].type = "judgment.recorded" /\ s[k].id = j
      /\ at = "effect" => \A k \in DOMAIN s : /\ s[k].type \in EffectLines
                                              /\ s[k].id = <<"eff", r>>
                                              /\ s[k].judgment = j
                                              /\ s[k].signal = Permit
  BY <1>1 DEF a
<1>3. UNCHANGED judging /\ UNCHANGED judgments
  BY DEF deskVars
<1>4. at # "new"
  BY DEF Working
<1>5. route[r].judgment \in DOMAIN judgments /\ Cited(judgments, route[r].judgment)
  BY <1>4 DEF Routing, Posting
<1>6. \A o \in Routes : route[o].at # "new" =>
          route'[o].at # "new" /\ route'[o].judgment = route[o].judgment
  BY <1>4
<1>7. at \in Working
  OBVIOUS
<1>8. ASSUME NEW k \in DOMAIN s
      PROVE  ~s[k].altered /\ AsPosted(s[k])'
  <2> DEFINE e == s[k]
  <2>1. ~e.altered
    BY <1>2
  <2>2. CASE at = "effect"
    <3>1. e.type \in EffectLines /\ e.id = <<"eff", r>> /\ e.judgment = j /\ e.signal = Permit
      BY <1>2, <2>2
    <3>2. "judgment.recorded" \notin EffectLines
      BY DEF EffectLines
    <3>3. route'[r].at # "new" /\ j = <<"jdg", route'[r].judgment>>
      OBVIOUS
    <3> HIDE DEF e, j
    <3>4. AsPosted(e)'
      BY <3>1, <3>2, <3>3 DEF AsPosted
    <3> QED
      BY <2>1, <3>4 DEF e
  <2>3. CASE at = "judgment"
    <3>1. e.type = "judgment.recorded" /\ e.id = j
      BY <1>2, <2>3
    <3>2. "judgment.recorded" \notin EffectLines
      BY DEF EffectLines
    <3> HIDE DEF e
    <3>3. AsPosted(e)'
      BY <1>3, <1>5, <3>1, <3>2 DEF AsPosted
    <3> QED
      BY <2>1, <3>3 DEF e
  <2>4. CASE at = "signal"
    <3>1. e.type = "signal.ingested"
      BY <1>2, <2>4
    <3>2. "signal.ingested" \notin EffectLines
      BY DEF EffectLines
    <3> HIDE DEF e
    <3>3. AsPosted(e)'
      BY <3>1, <3>2 DEF AsPosted
    <3> QED
      BY <2>1, <3>3 DEF e
  <2> QED
    BY <1>7, <2>2, <2>3, <2>4 DEF Working
<1>9. ASSUME edits = 0, NEW k \in DOMAIN s, s[k].type \in EffectLines
      PROVE  Has(chain, {"signal.ingested"}, Permit) /\ Has(chain, {"judgment.recorded"}, s[k].judgment)
  <2>1. at = "effect"
    BY <1>2, <1>7, <1>9 DEF Working, EffectLines
  <2>2. s[k].judgment = j
    BY <1>2, <2>1
  <2> QED
    BY <1>9, <2>1, <2>2 DEF Routing, Posting
<1>10. /\ Posted' /\ Rooted' /\ chain' \in Seq(Lines)
       /\ \A types, id : Has(chain, types, id) => Has(chain', types, id)
       /\ \A k \in DOMAIN s : Has(chain', {s[k].type}, s[k].id)
  BY <1>3, <1>6, <1>8, <1>9, PostedStays
<1>11. Desk'
  BY <1>3, <1>10 DEF Routing, Desk
<1>12. Posting'
  <2>1. ASSUME NEW o \in Routes
        PROVE  /\ route'[o].at # "new" => route'[o].judgment \in DOMAIN judgments
               /\ route'[o].at \in Working => Cited(judgments, route'[o].judgment)
               /\ edits = 0 /\ route'[o].at \in {"judgment", "effect"} => Has(chain', {"signal.ingested"}, Permit)
               /\ edits = 0 /\ route'[o].at = "effect" =>
                     Has(chain', {"judgment.recorded"}, <<"jdg", route'[o].judgment>>)
    <3>1. CASE o = r
      <4>1. route'[o].at # "new" /\ route'[o].judgment = route[r].judgment
        BY <3>1
      <4>2. ASSUME edits = 0, route'[r].at \in {"judgment", "effect"}
            PROVE  Has(chain', {"signal.ingested"}, Permit)
        <5>1. CASE route'[r].at = "judgment"
          <6>1. PICK k \in DOMAIN s : s[k].type = "signal.ingested" /\ s[k].id = Permit
            BY <1>2, <5>1
          <6> QED
            BY <1>10, <6>1
        <5>2. CASE route'[r].at = "effect"
          BY <1>10, <4>2, <5>2 DEF Routing, Posting
        <5> QED
          BY <4>2, <5>1, <5>2
      <4>3. ASSUME edits = 0, route'[r].at = "effect"
            PROVE  Has(chain', {"judgment.recorded"}, j)
        <5>1. PICK k \in DOMAIN s : s[k].type = "judgment.recorded" /\ s[k].id = j
          BY <1>2, <4>3
        <5> QED
          BY <1>10, <5>1 DEF Has
      <4>4. <<"jdg", route'[o].judgment>> = j
        BY <3>1, <4>1
      <4> QED
        BY <1>5, <3>1, <4>1, <4>2, <4>3, <4>4
    <3>2. CASE o # r
      <4>1. route'[o] = route[o]
        BY <3>2
      <4> QED
        BY <1>10, <4>1 DEF Routing, Posting
    <3> QED
      BY <3>1, <3>2
  <2> QED
    BY <1>3, <2>1 DEF Posting
<1>13. Answers'
  <2>1. ASSUME NEW o \in Routes, told'[o].status = 202
        PROVE  Honored(mock, edits, chain', o, told'[o])
    <3>3. CASE told'[o] = told[o]
      <4>1. Honored(mock, edits, chain, o, told[o])
        BY <2>1, <3>3 DEF Routing, Answers
      <4> QED
        BY <1>10, <3>3, <4>1 DEF Honored
    <3>4. CASE told'[o] # told[o]
      <4>1. o = r /\ told'[r] # told[r]
        BY <3>4
      <4>2. PICK k \in DOMAIN s : s[k].type = "effect.executed" /\ s[k].id = <<"eff", r>>
        BY <2>1, <4>1
      <4>3. Has(chain', {s[k].type}, s[k].id)
        BY <1>10
      <4>4. Has(chain', {"effect.executed"}, <<"eff", r>>)
        BY <4>2, <4>3
      <4>5. told'[o].substrate = "real"
        BY <2>1, <4>1
      <4> QED
        BY <4>1, <4>4, <4>5 DEF Honored
    <3> QED
      BY <3>3, <3>4
  <2> QED
    BY <2>1 DEF Answers
<1> QED
  BY <1>10, <1>11, <1>12, <1>13 DEF Routing

LEMMA CallKeeps ==
  ASSUME Routing, NEW r \in Routes, Call(r)
  PROVE  Routing'
<1> DEFINE at == route[r].at
           s  == Appends(r, at)
           j  == <<"jdg", route[r].judgment>>
<1>1. at \in Working /\ chain' = chain \o s
  BY DEF Call, Working
<1>2. /\ UNCHANGED deskVars /\ UNCHANGED kept /\ UNCHANGED client /\ UNCHANGED mock /\ UNCHANGED edits
  BY DEF Call, worldVars
<1>3. /\ s \in Seq(Lines) /\ Len(s) \in {1, 3}
      /\ at = "effect" => Len(s) = 3 /\ s[3].type = "effect.executed"
      /\ at = "effect" => \A k \in DOMAIN s : s[k].id = <<"eff", r>>
  BY <1>1, WhatIsAppended DEF Routing
<1>4. IF NextCall(at) = "answer" THEN Tell(r, 202, "real")
      ELSE Goto(r, NextCall(at)) /\ UNCHANGED told
  BY DEF Call
<1> HIDE DEF s
<1>5. DOMAIN s # {}
  <2>1. PICK n \in Nat : n = Len(s) /\ DOMAIN s = 1..n
    BY <1>3
  <2>2. n \in {1, 3}
    BY <1>3, <2>1
  <2> QED
    BY <2>1, <2>2
<1>6. route[r] \in RouteStates
  BY DEF Routing, Desk
<1>7. ASSUME NEW to \in Working \cup {"done"}, Goto(r, to)
      PROVE  /\ route' \in [Routes -> RouteStates]
             /\ route'[r].at = to /\ route'[r].judgment = route[r].judgment
             /\ \A o \in Routes \ {r} : route'[o] = route[o]
  <2> DEFINE w == [route[r] EXCEPT !.at = to]
  <2>1. w \in RouteStates /\ w.at = to /\ w.judgment = route[r].judgment
    BY <1>6 DEF RouteStates, Working
  <2>2. route' = [route EXCEPT ![r] = w]
    BY <1>7 DEF Goto
  <2> HIDE DEF w
  <2> QED
    BY <2>1, <2>2 DEF Routing, Desk
<1>8. \A k \in DOMAIN s : \E l \in DOMAIN Appends(r, route[r].at) : s[k] = Appends(r, route[r].at)[l]
  BY DEF s
<1>9. CASE at = "effect"
  <2> DEFINE t == [status |-> 202, substrate |-> "real"]
  <2>1. Goto(r, "done") /\ told' = [told EXCEPT ![r] = t]
    BY <1>4, <1>9 DEF NextCall, Tell
  <2>2. t \in Tellings /\ t.substrate = "real"
    BY DEF Tellings
  <2> HIDE DEF t
  <2>3. /\ told' \in [Routes -> Tellings] /\ told'[r] = t
        /\ \A o \in Routes \ {r} : told'[o] = told[o]
    BY <2>1, <2>2 DEF Routing, Desk
  <2>4. /\ route' \in [Routes -> RouteStates]
        /\ route'[r].at = "done" /\ route'[r].judgment = route[r].judgment
        /\ \A o \in Routes \ {r} : route'[o] = route[o]
    BY <1>7, <2>1
  <2>5. 3 \in DOMAIN s
    <3>1. Len(s) = 3
      BY <1>3, <1>9
    <3> QED
      BY <1>3, <3>1
  <2>6. \E k \in DOMAIN s : s[k].type = "effect.executed" /\ s[k].id = <<"eff", r>>
    BY <1>3, <1>9, <2>5
  <2>7. told'[r].substrate = "real"
    BY <2>2, <2>3
  <2>8. \A o \in Routes \ {r} : route'[o] = route[o] /\ told'[o] = told[o]
    BY <2>3, <2>4
  <2>10. Arrive(r, s)
    BY <1>1, <1>2, <1>3, <1>8 DEF Arrive
  <2>11. MovesOn(r, s)
    BY <2>3, <2>4, <2>6, <2>7, <2>8 DEF MovesOn
  <2> QED
    BY <2>10, <2>11, LinesKeep
<1>10. ASSUME at \in {"signal", "judgment"}
       PROVE  Routing'
  <2> DEFINE to == NextCall(at)
  <2>1. /\ to \in {"judgment", "effect"}
        /\ to = "judgment" => at = "signal"
        /\ to = "effect" => at = "judgment"
    BY <1>10 DEF NextCall
  <2>2. Goto(r, to) /\ UNCHANGED told
    BY <1>4, <2>1
  <2> HIDE DEF to
  <2>3. to \in Working
    BY <2>1 DEF Working
  <2>4. /\ route' \in [Routes -> RouteStates]
        /\ route'[r].at = to /\ route'[r].judgment = route[r].judgment
        /\ \A o \in Routes \ {r} : route'[o] = route[o]
    BY <1>7, <2>2, <2>3
  <2>5. told' \in [Routes -> Tellings]
    BY <2>2 DEF Routing, Desk
  <2>6. \A o \in Routes \ {r} : route'[o] = route[o] /\ told'[o] = told[o]
    BY <2>2, <2>4
  <2>7. told'[r] = told[r]
    BY <2>2
  <2>8. /\ route'[r].at \in {"judgment", "effect", "done"}
        /\ route'[r].at = "judgment" => route[r].at = "signal"
        /\ route'[r].at = "effect" => route[r].at = "judgment"
    BY <2>1, <2>4
  <2>9. Arrive(r, s)
    BY <1>1, <1>2, <1>3, <1>8 DEF Arrive
  <2>10. MovesOn(r, s)
    BY <1>5, <2>4, <2>5, <2>6, <2>7, <2>8 DEF MovesOn
  <2> QED
    BY <2>9, <2>10, LinesKeep
<1> QED
  BY <1>1, <1>9, <1>10 DEF Working

\* A call that fails leaves a part of its lines.
LEMMA CallFailsKeeps ==
  ASSUME Routing, NEW r \in Routes, CallFails(r)
  PROVE  Routing'
<1> DEFINE at == route[r].at
           a  == Appends(r, at)
           w == [route[r] EXCEPT !.at = "done"]
           t == [status |-> 500, substrate |-> "none"]
<1>1. at \in Working
  BY DEF CallFails, Working
<1>2. /\ UNCHANGED deskVars /\ UNCHANGED kept /\ UNCHANGED client /\ UNCHANGED mock /\ UNCHANGED edits
  BY DEF CallFails, worldVars
<1>3. PICK n \in 0..Len(a) : chain' = chain \o SubSeq(a, 1, n)
  BY DEF CallFails
<1>4. a \in Seq(Lines)
  BY <1>1, WhatIsAppended DEF Routing
<1> DEFINE s == SubSeq(a, 1, n)
<1>5. s \in Seq(Lines) /\ \A k \in DOMAIN s : k \in DOMAIN a /\ s[k] = a[k]
  BY <1>3, <1>4, Part
<1>6. route[r] \in RouteStates
  BY DEF Routing, Desk
<1>7. w \in RouteStates /\ w.at = "done" /\ w.judgment = route[r].judgment
  BY <1>6 DEF RouteStates
<1>8. t \in Tellings /\ t.status = 500
  BY DEF Tellings
<1>9. route' = [route EXCEPT ![r] = w] /\ told' = [told EXCEPT ![r] = t]
  BY DEF CallFails, Tell, Goto
<1>10. \A k \in DOMAIN s : \E l \in DOMAIN Appends(r, route[r].at) : s[k] = Appends(r, route[r].at)[l]
  BY <1>5
<1>11. chain' = chain \o s
  BY <1>3
<1> HIDE DEF w, t, s, a
<1>12. /\ route' \in [Routes -> RouteStates] /\ told' \in [Routes -> Tellings]
       /\ route'[r] = w /\ told'[r] = t
       /\ \A o \in Routes \ {r} : route'[o] = route[o] /\ told'[o] = told[o]
  BY <1>7, <1>8, <1>9 DEF Routing, Desk
<1>13. /\ route'[r].at \in {"judgment", "effect", "done"}
       /\ route'[r].at # "judgment" /\ route'[r].at # "effect" /\ route'[r].at = "done"
       /\ route'[r].judgment = route[r].judgment
       /\ told'[r].status # 202
  BY <1>7, <1>8, <1>12
<1>14. Arrive(r, s)
  BY <1>1, <1>2, <1>5, <1>10, <1>11 DEF Arrive
<1>15. MovesOn(r, s)
  BY <1>12, <1>13 DEF MovesOn
<1> QED
  BY <1>14, <1>15, LinesKeep

\* An edit changes one line, and marks it.
LEMMA EditKeeps ==
  ASSUME Routing, NEW i \in DOMAIN chain, Edit(i)
  PROVE  Routing'
<1>1. PICK field \in {"id", "judgment", "signal"}, other \in {chain[k].id : k \in DOMAIN chain} \cup {NoId} :
          chain' = [chain EXCEPT ![i] = [@ EXCEPT ![field] = other, !.altered = TRUE]]
  BY DEF Edit
<1>2. /\ UNCHANGED deskVars /\ UNCHANGED kept /\ UNCHANGED client /\ UNCHANGED mock
      /\ UNCHANGED route /\ UNCHANGED told /\ edits' = edits + 1
  BY DEF Edit, worldVars
<1>3. UNCHANGED judging /\ UNCHANGED judgments
  BY <1>2 DEF deskVars
<1>4. PICK n \in Nat : DOMAIN chain = 1..n /\ chain \in [1..n -> Lines]
  <2>1. chain \in Seq(Lines)
    BY DEF Routing, Desk
  <2>2. PICK n \in Nat : n = Len(chain) /\ DOMAIN chain = 1..n
    BY <2>1
  <2>3. chain \in [1..n -> Lines]
    BY <2>1, <2>2
  <2> QED
    BY <2>2, <2>3
<1>5. other \in LineIds
  <2>1. \A k \in DOMAIN chain : chain[k].id \in LineIds
    BY <1>4 DEF Lines
  <2>2. NoId \in LineIds
    BY DEF LineIds
  <2> QED
    BY <1>1, <2>1, <2>2
<1> DEFINE l == chain[i]
           f == [l EXCEPT ![field] = other]
           e == [f EXCEPT !.altered = TRUE]
<1>6. l \in Lines
  BY <1>4
<1>7. f \in Lines
  BY <1>1, <1>5, <1>6 DEF Lines
<1> HIDE DEF l
<1>8. [l EXCEPT ![field] = other, !.altered = TRUE] = e
  BY <1>1
<1> HIDE DEF f
<1>9. e \in Lines /\ e.altered = TRUE
  BY <1>7 DEF Lines
<1>10. chain' = [chain EXCEPT ![i] = e]
  BY <1>1, <1>8 DEF l
<1> HIDE DEF e
<1>11. /\ chain' \in [1..n -> Lines] /\ chain'[i] = e
       /\ \A k \in 1..n \ {i} : chain'[k] = chain[k]
       /\ DOMAIN chain' = 1..n
  BY <1>4, <1>9, <1>10
<1>12. chain' \in Seq(Lines)
  BY <1>4, <1>11, SeqDef
<1>13. edits' \in Nat /\ edits' > 0 /\ edits' # 0
  BY <1>2 DEF Routing, Desk
<1>14. Desk'
  BY <1>2, <1>3, <1>12, <1>13 DEF Routing, Desk
<1>15. Posting'
  BY <1>2, <1>3, <1>13 DEF Routing, Posting
<1>16. Posted'
  <2>1. \A c : AsPosted(c) => AsPosted(c)'
    BY <1>2, <1>3 DEF AsPosted
  <2>2. ASSUME NEW k \in 1..n, ~chain'[k].altered
        PROVE  AsPosted(chain[k])' /\ chain'[k] = chain[k]
    <3>1. k # i
      <4>1. CASE k = i
        <5>1. chain'[k].altered = TRUE
          BY <1>9, <1>11, <4>1
        <5> QED
          BY <2>2, <5>1
      <4> QED
        BY <4>1
    <3>2. chain'[k] = chain[k]
      BY <1>11, <3>1
    <3>3. ~chain[k].altered
      BY <2>2, <3>2
    <3>4. AsPosted(chain[k])
      BY <1>4, <3>3 DEF Routing, Posted
    <3>5. PICK c : c = chain[k]
      OBVIOUS
    <3>6. AsPosted(c)' /\ chain'[k] = c
      BY <2>1, <3>2, <3>4, <3>5
    <3> QED
      BY <3>2, <3>6 DEF AsPosted
  <2> QED
    BY <1>11, <2>2 DEF Posted
<1>17. Rooted'
  BY <1>13 DEF Rooted
<1>18. Answers'
  <2>1. ASSUME NEW o \in Routes, told[o].status = 202
        PROVE  Honored(mock, edits', chain', o, told[o])
    <3>1. Honored(mock, edits, chain, o, told[o])
      BY <2>1 DEF Routing, Answers
    <3> QED
      BY <1>13, <3>1 DEF Honored
  <2> QED
    BY <1>2, <2>1 DEF Answers
<1> QED
  BY <1>14, <1>15, <1>16, <1>17, <1>18 DEF Routing

\* After a restart nothing is under way, and the chain is as it was.
LEMMA RestartKeeps ==
  ASSUME Routing, Restart
  PROVE  Routing'
<1> DEFINE Closed(r) == IF route[r].at = "new" THEN route[r] ELSE [route[r] EXCEPT !.at = "done"]
<1>1. /\ judging' = 0 /\ kept' = {} /\ client' = "none" /\ route' = [r \in Routes |-> Closed(r)]
      /\ UNCHANGED mock /\ UNCHANGED judgments /\ UNCHANGED told /\ UNCHANGED chain /\ UNCHANGED edits
  BY DEF Restart
<1>2. ASSUME NEW r \in Routes
      PROVE  /\ Closed(r) \in RouteStates /\ Closed(r).judgment = route[r].judgment
             /\ Closed(r).at \in {"new", "done"} /\ (Closed(r).at = "new" <=> route[r].at = "new")
  <2>1. route[r] \in RouteStates
    BY DEF Routing, Desk
  <2> QED
    BY <2>1 DEF RouteStates
<1> HIDE DEF Closed
<1>3. /\ route' \in [Routes -> RouteStates]
      /\ \A r \in Routes : /\ route'[r].judgment = route[r].judgment
                           /\ route'[r].at \in {"new", "done"}
                           /\ (route'[r].at = "new" <=> route[r].at = "new")
  BY <1>1, <1>2
<1>4. Desk'
  BY <1>1, <1>3 DEF Routing, Desk
<1>5. Posting'
  <2>1. ASSUME NEW r \in Routes
        PROVE  /\ route'[r].at # "new" => route'[r].judgment \in DOMAIN judgments
               /\ route'[r].at \notin Working
    BY <1>3 DEF Routing, Posting, Working
  <2>2. \A r \in Routes : route'[r].at # "judgment" /\ route'[r].at # "effect"
    BY <2>1 DEF Working
  <2> QED
    BY <1>1, <2>1, <2>2 DEF Posting
<1>6. Posted'
  <2>1. ASSUME NEW i \in DOMAIN chain, ~chain[i].altered
        PROVE  AsPosted(chain[i])'
    <3>1. AsPosted(chain[i])
      BY <2>1 DEF Routing, Posted
    <3> QED
      BY <1>1, <1>3, <3>1 DEF AsPosted
  <2> QED
    BY <1>1, <2>1 DEF Posted
<1>7. Rooted'
  BY <1>1 DEF Routing, Rooted
<1>8. Answers'
  BY <1>1 DEF Routing, Answers
<1> QED
  BY <1>4, <1>5, <1>6, <1>7, <1>8 DEF Routing

LEMMA RoutingStands ==
  ASSUME Routing, [Next]_vars
  PROVE  Routing'
<1>1. ASSUME UNCHANGED <<judging, judgments, kept, client, mock, route, told, chain, edits>>
      PROVE  Routing'
  <2>1. UNCHANGED <<client, mock, route, told, chain, edits>> /\ UNCHANGED judgments
        /\ UNCHANGED judging /\ UNCHANGED kept
    BY <1>1
  <2>2. judging' \in 0..2 /\ (\E S : judgments' \in Seq(S)) /\ kept' \subseteq DOMAIN judgments'
    BY <2>1 DEF Routing, Desk
  <2> QED
    BY <2>1, <2>2, DeskKeeps
<1>2. CASE UNCHANGED vars
  BY <1>1, <1>2 DEF vars
<1>3. CASE SubstrateFlips
  BY <1>1, <1>3 DEF SubstrateFlips, deskVars, worldVars
<1>4. CASE Judge \/ Declines \/ \E q \in Replies : Reply(q)
  BY <1>4, JudgingKeeps
<1>5. CASE \E r \in Routes : \/ \E j \in DOMAIN judgments : Ask(r, j)
                             \/ Start(r) \/ Call(r) \/ CallFails(r)
  BY <1>5, AskingKeeps, StartKeeps, CallKeeps, CallFailsKeeps
<1>6. CASE Restart
  BY <1>6, RestartKeeps
<1>7. CASE \E i \in DOMAIN chain : Edit(i)
  BY <1>7, EditKeeps
<1> QED
  BY <1>2, <1>3, <1>4, <1>5, <1>6, <1>7 DEF Next

\* The first of some positions of a file is one of them.
LEMMA FirstIsThere ==
  ASSUME NEW c, c \in Seq(Lines), NEW S, S \subseteq DOMAIN c, S # {}
  PROVE  Min(S) \in S /\ Earliest(S) = {Min(S)}
<1>1. S \subseteq Nat
  OBVIOUS
<1>2. PICK m \in S : \A k \in S : m <= k
  BY <1>1, LeastOne
<1>3. Min(S) \in S
  BY <1>2 DEF Min
<1> QED
  BY <1>3 DEF Earliest

LEMMA FirstIsOf ==
  ASSUME NEW c, c \in Seq(Lines), NEW types, NEW id, Of(c, types, id) # {}
  PROVE  LET i == Min(Of(c, types, id))
         IN  i \in DOMAIN c /\ c[i].type \in types /\ c[i].id = id
<1>1. Of(c, types, id) \subseteq DOMAIN c
  BY DEF Of
<1>2. Min(Of(c, types, id)) \in Of(c, types, id)
  BY <1>1, FirstIsThere
<1> QED
  BY <1>2 DEF Of

LEMMA HasIsOf ==
  ASSUME NEW c, NEW types, NEW id
  PROVE  Has(c, types, id) <=> Of(c, types, id) # {}
BY DEF Has, Of

\* The entry a walk sets out from: the proposal if there is one.
OriginOf(c, e) ==
    LET entries  == Of(c, EffectLines, e)
        proposed == Of(c, {"effect.proposed"}, e)
    IN  Min(IF proposed # {} THEN proposed ELSE entries)

LEMMA OriginIsOfIt ==
  ASSUME NEW c, c \in Seq(Lines), NEW e, Of(c, EffectLines, e) # {}
  PROVE  LET o == OriginOf(c, e)
         IN  o \in DOMAIN c /\ c[o].type \in EffectLines /\ c[o].id = e
<1> DEFINE proposed == Of(c, {"effect.proposed"}, e)
<1>1. CASE proposed # {}
  <2>1. OriginOf(c, e) = Min(proposed)
    BY <1>1 DEF OriginOf
  <2> QED
    BY <1>1, <2>1, FirstIsOf DEF EffectLines
<1>2. CASE proposed = {}
  <2>1. OriginOf(c, e) = Min(Of(c, EffectLines, e))
    BY <1>2 DEF OriginOf
  <2> QED
    BY <2>1, FirstIsOf
<1> QED
  BY <1>1, <1>2

LEMMA PermitIsNamed == Permit # NoId /\ \A n : <<"jdg", n>> # NoId
BY DEF Permit, NoId

\* What a walk finds of an entry that names a judgment and the permit's signal.
LEMMA WalkOfAPosting ==
  ASSUME NEW c, c \in Seq(Lines), NEW e, Of(c, EffectLines, e) # {},
         LET o == OriginOf(c, e)
         IN  c[o].judgment # NoId /\ c[o].signal = Permit
  PROVE  LET w == WalkEffect(c, e)
             o == OriginOf(c, e)
         IN  /\ w.origin = o
             /\ w.judgment = Earliest(Of(c, {"judgment.recorded"}, c[o].judgment))
             /\ w.signal = Earliest(Of(c, {"signal.ingested"}, Permit))
             /\ w.complete <=> (w.signal # {} /\ w.judgment # {})
<1> DEFINE o == OriginOf(c, e)
           entries  == Of(c, EffectLines, e)
           proposed == Of(c, {"effect.proposed"}, e)
           j        == c[o].judgment
           judgment == IF j = NoId THEN {} ELSE Earliest(Of(c, {"judgment.recorded"}, j))
           s        == IF c[o].signal # NoId \/ judgment = {}
                       THEN c[o].signal
                       ELSE c[Min(judgment)].signal
           signal   == IF s = NoId THEN {} ELSE Earliest(Of(c, {"signal.ingested"}, s))
<1>1. o = Min(IF proposed # {} THEN proposed ELSE entries)
  BY DEF OriginOf
<1>2. /\ WalkEffect(c, e).origin = o /\ WalkEffect(c, e).judgment = judgment
      /\ WalkEffect(c, e).signal = signal
      /\ WalkEffect(c, e).complete = (signal # {} /\ (j = NoId \/ judgment # {}))
  BY <1>1 DEF WalkEffect
<1>3. j # NoId /\ c[o].signal = Permit /\ Permit # NoId
  BY PermitIsNamed
<1> HIDE DEF o
<1>4. judgment = Earliest(Of(c, {"judgment.recorded"}, j)) /\ s = Permit
  BY <1>3
<1>5. signal = Earliest(Of(c, {"signal.ingested"}, Permit))
  BY <1>3, <1>4
<1> QED
  BY <1>2, <1>3, <1>4, <1>5 DEF o

LEMMA TypesHold ==
  ASSUME Routing
  PROVE  TypeOK
<1>1. \A r \in Routes : route[r].at \in Working \cup {"new", "asked", "done"}
                     /\ told[r].status \in {0, 202, 404, 409, 500, 503}
  BY DEF Routing, Desk, RouteStates, Tellings
<1> QED
  BY <1>1 DEF TypeOK, Routing, Desk, Working

LEMMA EffectsWalk ==
  ASSUME Routing
  PROVE  EffectIsTraceable
<1> SUFFICES ASSUME edits = 0, NEW i \in DOMAIN chain, chain[i].type \in EffectLines
             PROVE  LET w == WalkEffect(chain, chain[i].id)
                    IN  w.complete /\ w.judgment # {}
  BY DEF EffectIsTraceable
<1> DEFINE e == chain[i].id
           o == OriginOf(chain, e)
<1>1. chain \in Seq(Lines)
  BY DEF Routing, Desk
<1>2. Of(chain, EffectLines, e) # {}
  BY DEF Of
<1>3. o \in DOMAIN chain /\ chain[o].type \in EffectLines
  BY <1>1, <1>2, OriginIsOfIt
<1> HIDE DEF o
<1>4. ~chain[o].altered /\ AsPosted(chain[o])
  BY <1>3 DEF Routing, Rooted, Posted
<1>5. PICK r \in Routes : chain[o].judgment = <<"jdg", route[r].judgment>> /\ chain[o].signal = Permit
  BY <1>3, <1>4 DEF AsPosted
<1>6. Of(chain, {"signal.ingested"}, Permit) # {}
      /\ Of(chain, {"judgment.recorded"}, chain[o].judgment) # {}
  BY <1>3, HasIsOf DEF Routing, Rooted
<1>7. chain[o].judgment # NoId
  BY <1>5, PermitIsNamed
<1>8. /\ WalkEffect(chain, e).judgment = Earliest(Of(chain, {"judgment.recorded"}, chain[o].judgment))
      /\ WalkEffect(chain, e).signal = Earliest(Of(chain, {"signal.ingested"}, Permit))
      /\ WalkEffect(chain, e).complete <=>
            (WalkEffect(chain, e).signal # {} /\ WalkEffect(chain, e).judgment # {})
  BY <1>1, <1>2, <1>5, <1>7, WalkOfAPosting DEF o
<1>9. \A S : S # {} => Earliest(S) # {}
  BY DEF Earliest
<1> QED
  BY <1>6, <1>8, <1>9

\* docket posts a judgment line only of a judgment it accepted.
LEMMA AcceptedLeave ==
  ASSUME Routing
  PROVE  OnlyAcceptedLeaves
<1> SUFFICES ASSUME NEW i \in DOMAIN chain, chain[i].type = "judgment.recorded", ~chain[i].altered
             PROVE  ~judgments[chain[i].id[2]].abstained
  BY DEF OnlyAcceptedLeaves
<1>1. AsPosted(chain[i])
  BY DEF Routing, Posted
<1>2. PICK j \in DOMAIN judgments : chain[i].id = <<"jdg", j>> /\ Cited(judgments, j)
  BY <1>1 DEF AsPosted
<1>3. chain[i].id[2] = j
  BY <1>2
<1> QED
  BY <1>2, <1>3, Zenon DEF Cited

LEMMA AnswersHold ==
  ASSUME Routing
  PROVE  AnswerIsOnTheChain
<1> SUFFICES ASSUME NEW r \in Routes, told[r].status = 202
             PROVE  \/ mock /\ told[r].substrate = "mock"
                    \/ /\ told[r].substrate = "real"
                       /\ edits > 0 \/ Of(chain, {"effect.executed"}, <<"eff", r>>) # {}
  BY DEF AnswerIsOnTheChain
<1>1. Honored(mock, edits, chain, r, told[r])
  BY DEF Routing, Answers
<1>2. Has(chain, {"effect.executed"}, <<"eff", r>>) <=> Of(chain, {"effect.executed"}, <<"eff", r>>) # {}
  BY HasIsOf
<1>3. mock = TRUE => mock
  OBVIOUS
<1> QED
  BY <1>1, <1>2, <1>3 DEF Honored

\* For any routes, replies, failing calls, restarts and edits: only judgments
\* docket accepted are posted, every effect of a file nobody edited walks back
\* to its judgment and the permit's signal, and a 202 names what ran.
THEOREM RoutesStaySound == Spec => []RoutesAreSound
<1>1. Routing /\ [Next]_vars => Routing'
  BY RoutingStands
<1>2. Init => Routing
  BY RoutingBegins
<1>3. Routing => RoutesAreSound
  BY TypesHold, EffectsWalk, AcceptedLeave, AnswersHold DEF RoutesAreSound
<1> QED
  BY <1>1, <1>2, <1>3, PTL DEF Spec

\* Whoever edits the file, and however: a walk that is complete and whose hops
\* all verify names the judgment the effect was proposed for.
THEOREM VerifiedWalksAreTrue == Spec => []VerifiedWalkIsTrue
<1>1. Routing /\ [Next]_vars => Routing'
  BY RoutingStands
<1>2. Init => Routing
  BY RoutingBegins
<1>3. ASSUME Routing
      PROVE  VerifiedWalkIsTrue
  <2> SUFFICES ASSUME NEW r \in Routes, Of(chain, EffectLines, <<"eff", r>>) # {},
                      LET w == WalkEffect(chain, <<"eff", r>>)
                      IN  w.complete /\ w.verified /\ w.judgment # {}
               PROVE  LET w == WalkEffect(chain, <<"eff", r>>)
                      IN  /\ chain[Min(w.judgment)].id = <<"jdg", route[r].judgment>>
                          /\ chain[Min(w.signal)].id = Permit
    BY DEF VerifiedWalkIsTrue
  <2> DEFINE e == <<"eff", r>>
             o == OriginOf(chain, e)
             w == WalkEffect(chain, e)
  <2>1. chain \in Seq(Lines)
    BY <1>3 DEF Routing, Desk
  <2>2. o \in DOMAIN chain /\ chain[o].type \in EffectLines /\ chain[o].id = e
    BY <2>1, OriginIsOfIt
  <2>3. ~chain[o].altered
    <3>1. o \in {w.origin} \cup w.judgment \cup w.signal
      BY DEF WalkEffect, OriginOf
    <3>2. w.verified <=> \A i \in {w.origin} \cup w.judgment \cup w.signal : Verified(chain, i)
      BY Zenon DEF WalkEffect
    <3> QED
      BY <3>1, <3>2 DEF Verified
  <2>4. AsPosted(chain[o])
    BY <1>3, <2>2, <2>3 DEF Routing, Posted
  <2>5. chain[o].judgment = <<"jdg", route[r].judgment>> /\ chain[o].signal = Permit
    <3>1. PICK p \in Routes : /\ chain[o].id = <<"eff", p>> /\ chain[o].signal = Permit
                              /\ chain[o].judgment = <<"jdg", route[p].judgment>>
      BY <2>2, <2>4 DEF AsPosted
    <3>2. p = r
      BY <2>2, <3>1
    <3> QED
      BY <3>1, <3>2
  <2> HIDE DEF o
  <2>6. chain[o].judgment # NoId
    BY <2>5, PermitIsNamed
  <2>7. /\ w.judgment = Earliest(Of(chain, {"judgment.recorded"}, chain[o].judgment))
        /\ w.signal = Earliest(Of(chain, {"signal.ingested"}, Permit))
        /\ w.complete <=> (w.signal # {} /\ w.judgment # {})
    BY <2>1, <2>5, <2>6, WalkOfAPosting DEF o
  <2>8. w.judgment # {} /\ w.signal # {}
    BY <2>7
  <2> HIDE DEF w
  <2>9. ASSUME NEW types, NEW id, Earliest(Of(chain, types, id)) # {}
        PROVE  chain[Min(Earliest(Of(chain, types, id)))].id = id
    <3> DEFINE S == Of(chain, types, id)
    <3>1. S # {}
      BY <2>9 DEF Earliest
    <3>2. Min(S) \in DOMAIN chain /\ chain[Min(S)].id = id
      BY <2>1, <3>1, FirstIsOf
    <3>3. Earliest(S) = {Min(S)}
      BY <3>1 DEF Earliest
    <3>4. {Min(S)} \subseteq DOMAIN chain /\ {Min(S)} # {}
      BY <3>2
    <3>5. Min({Min(S)}) = Min(S)
      BY <2>1, <3>4, FirstIsThere
    <3> QED
      BY <3>2, <3>3, <3>5
  <2> QED
    BY <2>5, <2>7, <2>8, <2>9 DEF w
<1> QED
  BY <1>1, <1>2, <1>3, PTL DEF Spec

-----------------------------------------------------------------------------
(* Quotes: what the recursion over a text computes, by induction over its   *)
(* prefixes, and from it that the check errs on neither side.               *)

\* Induction over a bounded range: what holds of 0, and of i + 1 if of i, holds of all.
LEMMA CountUp ==
  ASSUME NEW n \in Nat, NEW S, 0 \in S, \A i \in 0..n-1 : i \in S => i + 1 \in S
  PROVE  0..n \subseteq S
<1> DEFINE gap == {i \in 0..n : i \notin S}
<1>1. SUFFICES ASSUME gap # {} PROVE FALSE
  OBVIOUS
<1>2. gap \subseteq Nat
  OBVIOUS
<1>3. PICK m \in gap : \A i \in gap : m <= i
  BY <1>1, <1>2, LeastOne
<1>4. m - 1 \in 0..n-1 /\ m - 1 \notin gap
  BY <1>3
<1>5. m - 1 \in S
  BY <1>4
<1> QED
  BY <1>3, <1>4, <1>5

\* A scan of n steps: a value for each prefix, each from the one before.
Steps(step, n, T) == \A i \in 1..n : \A v \in T : step[i][v] \in T

Scans(g, n, T, first, step) ==
    /\ g \in [0..n -> T] /\ g[0] = first
    /\ \A i \in 1..n : g[i] = step[i][g[i - 1]]

LEMMA ScanExists ==
  ASSUME NEW n \in Nat, NEW T, NEW first \in T, NEW step, Steps(step, n, T)
  PROVE  \E g : Scans(g, n, T, first, step)
<1> DEFINE Upto(g, k) == Scans(g, k, T, first, step)
           S == {k \in 0..n : \E g : Upto(g, k)}
<1>1. 0 \in S
  <2>1. Upto([i \in 0..0 |-> first], 0)
    BY DEF Scans
  <2> HIDE DEF Upto
  <2> QED
    BY <2>1
<1>2. ASSUME NEW k \in 0..n-1, k \in S
      PROVE  k + 1 \in S
  <2>1. PICK g : Upto(g, k)
    BY <1>2
  <2> DEFINE h == [i \in 0..k+1 |-> IF i = k + 1 THEN step[k + 1][g[k]] ELSE g[i]]
  <2>2. h \in [0..k+1 -> T]
    <3>1. g[k] \in T /\ k + 1 \in 1..n
      BY <2>1 DEF Scans
    <3>2. step[k + 1][g[k]] \in T
      BY <3>1 DEF Steps
    <3> QED
      BY <2>1, <3>2 DEF Scans
  <2>3. h[0] = first
    BY <2>1 DEF Scans
  <2>4. ASSUME NEW i \in 1..k+1
        PROVE  h[i] = step[i][h[i - 1]]
    <3>1. CASE i = k + 1
      BY <3>1, <2>1 DEF Scans
    <3>2. CASE i # k + 1
      BY <3>2, <2>1 DEF Scans
    <3> QED
      BY <3>1, <3>2
  <2>5. Upto(h, k + 1)
    BY <2>2, <2>3, <2>4 DEF Scans
  <2> HIDE DEF Upto, h
  <2> QED
    BY <2>5
<1>3. 0..n \subseteq S
  <2> HIDE DEF S
  <2> QED
    BY <1>1, <1>2, CountUp
<1> QED
  BY <1>3

\* Pick is the last value of a scan.
PickScan(g, t, P, T) ==
    /\ g \in [0..Len(t) -> Seq(T)] /\ g[0] = <<>>
    /\ \A i \in 1..Len(t) :
          g[i] = IF i \in P THEN Append(g[i - 1], t[i]) ELSE g[i - 1]
    /\ Pick(t, P) = g[Len(t)]

LEMMA PickScans ==
  ASSUME NEW T, NEW t \in Seq(T), NEW P
  PROVE  \E g : PickScan(g, t, P, T)
<1> DEFINE n == Len(t)
           Grown(v, i) == IF i \in P THEN Append(v, t[i]) ELSE v
           Body(g) == [i \in 0..n |-> IF i = 0 THEN <<>> ELSE Grown(g[i - 1], i)]
           step == [i \in 1..n |-> [v \in Seq(T) |-> Grown(v, i)]]
<1>1. n \in Nat /\ \A i \in 1..n : t[i] \in T
  OBVIOUS
<1>2. \A i \in 1..n : \A v \in Seq(T) : Grown(v, i) \in Seq(T)
  BY <1>1
<1>3. Pick(t, P) = (CHOOSE f : f = Body(f))[n]
  BY DEF Pick
<1> HIDE DEF n, Grown
<1>4. \A i \in 1..n : \A v \in Seq(T) : step[i][v] = Grown(v, i)
  OBVIOUS
<1> HIDE DEF step
<1> DEFINE U == Seq(T)
           none == <<>>
<1>5. PICK g : Scans(g, n, U, none, step)
  <2>1. none \in U
    OBVIOUS
  <2>2. Steps(step, n, U)
    BY <1>2, <1>4 DEF Steps
  <2> HIDE DEF U, none
  <2> QED
    BY <1>1, <2>1, <2>2, ScanExists
<1>6. \A i \in 1..n : g[i] = Grown(g[i - 1], i)
  <2>1. \A i \in 1..n : g[i - 1] \in Seq(T)
    BY <1>1, <1>5 DEF Scans
  <2> QED
    BY <1>4, <1>5, <2>1 DEF Scans
<1>7. g = Body(g)
  BY <1>5, <1>6 DEF Scans
<1> DEFINE f == CHOOSE f : f = Body(f)
<1>8. f = Body(f)
  <2> HIDE DEF Body
  <2> QED
    BY <1>7, Zenon
<1> HIDE DEF f
<1>9. DOMAIN f = 0..n /\ f = [i \in 0..n |-> f[i]] /\ f[0] = <<>>
  BY <1>8, <1>1
<1>10. \A i \in 1..n : f[i] = Grown(f[i - 1], i)
  BY <1>8, <1>1
<1>11. \A i \in 0..n : f[i] \in Seq(T)
  <2> DEFINE S == {i \in 0..n : f[i] \in Seq(T)}
  <2>1. 0 \in S
    <3>1. f[0] \in Seq(T)
      BY <1>9, EmptySeq, Zenon
    <3>2. 0 \in 0..n
      BY <1>1
    <3> QED
      BY <3>1, <3>2
  <2>2. ASSUME NEW i \in 0..n-1, i \in S PROVE i + 1 \in S
    <3>1. f[i] \in Seq(T) /\ (i + 1) - 1 = i /\ i + 1 \in 1..n
      BY <2>2, <1>1
    <3>2. f[i + 1] = Grown(f[i], i + 1)
      BY <3>1, <1>10
    <3> QED
      BY <3>1, <3>2, <1>1, <1>2
  <2> HIDE DEF S
  <2>3. 0..n \subseteq S
    BY <1>1, <2>1, <2>2, CountUp
  <2> QED
    BY <2>3 DEF S
<1>12. f \in [0..n -> Seq(T)]
  BY <1>9, <1>11
<1>13. \A i \in 1..n : f[i] = IF i \in P THEN Append(f[i - 1], t[i]) ELSE f[i - 1]
  BY <1>10 DEF Grown
<1>14. Pick(t, P) = f[n]
  BY <1>3 DEF f
<1>15. PickScan(f, t, P, T)
  BY <1>9, <1>12, <1>13, <1>14 DEF n, PickScan
<1> QED
  BY <1>15

\* e lists the k members of P in increasing order.
Lists(e, k, P) ==
    /\ k \in Nat
    /\ \A m \in 1..k : e[m] \in P
    /\ \A l, m \in 1..k : l < m => e[l] < e[m]
    /\ \A i \in P : \E m \in 1..k : e[m] = i

\* Two lists that are the same before m.
AlikeAt(e, f, l, m) == m <= l /\ e[m] = f[m]
Alike(e, f, l, m) == \A j \in 1..m-1 : AlikeAt(e, f, l, j)
Same(e, f, k) == \A m \in 1..k : e[m] = f[m]

LEMMA ListsAgree ==
  ASSUME NEW P, P \subseteq Int, NEW e, NEW k, Lists(e, k, P),
         NEW f, NEW l, Lists(f, l, P), NEW m \in 1..k,
         Alike(e, f, l, m)
  PROVE  AlikeAt(e, f, l, m)
<1>1. PICK n \in 1..l : f[n] = e[m]
  BY DEF Lists
<1>2. ~(n < m)
  <2>1. ASSUME n < m PROVE FALSE
    <3>1. n \in 1..k /\ e[n] = f[n] /\ e[n] < e[m]
      BY <1>1, <2>1 DEF Lists, Alike, AlikeAt
    <3>2. e[n] \in Int
      BY <3>1 DEF Lists
    <3> QED
      BY <3>1, <3>2, <1>1
  <2> QED
    BY <2>1
<1>3. m \in 1..l
  BY <1>2 DEF Lists
<1>4. PICK j \in 1..k : e[j] = f[m]
  BY <1>3 DEF Lists
<1>5. ~(m < n)
  <2>1. ASSUME m < n PROVE FALSE
    <3>1. f[m] < f[n]
      BY <2>1, <1>3 DEF Lists
    <3>2. e[j] < e[m] /\ e[j] \in Int /\ e[m] \in Int
      BY <3>1, <1>1, <1>4 DEF Lists
    <3>3. j < m
      <4>1. j > m => e[m] < e[j]
        BY <1>4 DEF Lists
      <4>2. j # m
        BY <3>2
      <4> QED
        BY <3>2, <4>1, <4>2
    <3>4. e[j] = f[j] /\ j \in 1..l
      BY <3>3, <1>3 DEF Lists, Alike, AlikeAt
    <3>5. f[j] < f[m] /\ f[j] \in Int
      BY <3>3, <3>4, <1>3 DEF Lists
    <3> QED
      BY <3>4, <3>5, <1>4
  <2> QED
    BY <2>1
<1> QED
  BY <1>1, <1>2, <1>3, <1>5 DEF AlikeAt

LEMMA ListsBelow ==
  ASSUME NEW P, P \subseteq Int, NEW e, NEW k, Lists(e, k, P),
         NEW f, NEW l, Lists(f, l, P)
  PROVE  k <= l /\ Same(e, f, k)
<1> DEFINE S == {m \in 0..k : \A j \in 1..m : AlikeAt(e, f, l, j)}
<1>1. k \in Nat /\ l \in Nat
  BY DEF Lists
<1>2. 0 \in S
  BY <1>1
<1>3. ASSUME NEW m \in 0..k-1, m \in S
      PROVE  m + 1 \in S
  <2>1. m + 1 \in 1..k /\ Alike(e, f, l, m + 1)
    BY <1>1, <1>3 DEF Alike
  <2>2. AlikeAt(e, f, l, m + 1)
    BY <2>1, ListsAgree
  <2>3. \A j \in 1..m+1 : j \in 1..m \/ j = m + 1
    BY <1>1
  <2> QED
    BY <1>1, <1>3, <2>2, <2>3
<1>4. k \in S
  <2> HIDE DEF S
  <2>1. 0..k \subseteq S
    BY <1>1, <1>2, <1>3, CountUp
  <2> QED
    BY <1>1, <2>1
<1> QED
  BY <1>1, <1>4 DEF AlikeAt, Same

LEMMA ListsOnce ==
  ASSUME NEW P, P \subseteq Int, NEW e, NEW k, Lists(e, k, P),
         NEW f, NEW l, Lists(f, l, P)
  PROVE  k = l /\ Same(e, f, k)
<1>1. k \in Nat /\ l \in Nat
  BY DEF Lists
<1>2. k <= l /\ Same(e, f, k)
  BY ListsBelow
<1>3. l <= k
  BY ListsBelow
<1> QED
  BY <1>1, <1>2, <1>3

\* u is t at the positions P, which e lists.
Picked(u, t, P, e) ==
    Lists(e, Len(u), P) /\ \A m \in 1..Len(u) : u[m] = t[e[m]]

\* What Pick picks, whatever the text and the positions.
LEMMA PickPicks ==
  ASSUME NEW T, NEW t \in Seq(T), NEW P, P \subseteq DOMAIN t
  PROVE  Pick(t, P) \in Seq(T) /\ \E e : Picked(Pick(t, P), t, P, e)
<1> DEFINE n == Len(t)
           Upto(i) == {p \in P : p <= i}
<1>0. PICK g : PickScan(g, t, P, T)
  BY PickScans
<1>1. /\ g \in [0..n -> Seq(T)] /\ g[0] = <<>>
      /\ \A i \in 1..n : g[i] = IF i \in P THEN Append(g[i - 1], t[i]) ELSE g[i - 1]
      /\ Pick(t, P) = g[n]
  BY <1>0 DEF PickScan
<1>2. n \in Nat /\ P \subseteq 1..n /\ \A i \in 1..n : t[i] \in T
  OBVIOUS
<1> HIDE DEF n
<1> DEFINE S == {i \in 0..n : \E e : Picked(g[i], t, Upto(i), e)}
<1>3. 0 \in S
  <2>1. Len(g[0]) = 0 /\ Upto(0) = {}
    BY <1>1, <1>2
  <2>2. Picked(g[0], t, Upto(0), <<>>)
    BY <2>1 DEF Picked, Lists
  <2> HIDE DEF Upto
  <2> QED
    BY <1>2, <2>2
<1>4. ASSUME NEW i \in 0..n-1, i \in S
      PROVE  i + 1 \in S
  <2>1. PICK e : Picked(g[i], t, Upto(i), e)
    BY <1>4
  <2>2. i \in Nat /\ i + 1 \in 1..n /\ (i + 1) - 1 = i /\ g[i] \in Seq(T) /\ t[i + 1] \in T
    BY <1>1, <1>2
  <2>3. g[i + 1] = IF i + 1 \in P THEN Append(g[i], t[i + 1]) ELSE g[i]
    BY <1>1, <2>2
  <2> DEFINE k == Len(g[i])
             f == [m \in 1..k+1 |-> IF m = k + 1 THEN i + 1 ELSE e[m]]
  <2>4. CASE i + 1 \in P
    <3>1. Len(g[i + 1]) = k + 1 /\ g[i + 1][k + 1] = t[i + 1]
          /\ \A m \in 1..k : g[i + 1][m] = g[i][m]
      BY <2>2, <2>3, <2>4
    <3>2. k \in Nat /\ \A m \in 1..k : e[m] \in Upto(i)
      BY <2>1, <2>2 DEF Picked, Lists
    <3> HIDE DEF k
    <3>3. Upto(i + 1) = Upto(i) \cup {i + 1}
      BY <1>2, <2>2, <2>4
    <3>4. \A m \in 1..k+1 : f[m] \in Upto(i + 1)
      BY <3>2, <3>3
    <3>5. \A l, m \in 1..k+1 : l < m => f[l] < f[m]
      <4>1. \A l, m \in 1..k : l < m => e[l] < e[m]
        BY <2>1 DEF Picked, Lists, k
      <4>2. \A l \in 1..k : e[l] < i + 1
        BY <3>2, <1>2, <2>2
      <4>3. ASSUME NEW l \in 1..k+1, NEW m \in 1..k+1, l < m
            PROVE  f[l] < f[m]
        <5>1. l \in 1..k /\ f[l] = e[l]
          BY <4>3, <3>2
        <5>2. CASE m = k + 1
          BY <5>1, <5>2, <4>2
        <5>3. CASE m # k + 1
          BY <5>1, <5>3, <4>1, <4>3, <3>2
        <5> QED
          BY <5>2, <5>3
      <4> QED
        BY <4>3
    <3>6. ASSUME NEW p \in Upto(i + 1)
          PROVE  \E m \in 1..k+1 : f[m] = p
      <4>1. CASE p = i + 1
        <5>1. f[k + 1] = p /\ k + 1 \in 1..k+1
          BY <4>1, <3>2
        <5> QED
          BY <5>1
      <4>2. CASE p # i + 1
        <5>1. p \in Upto(i)
          BY <3>3, <4>2
        <5>2. PICK m \in 1..k : e[m] = p
          BY <5>1, <2>1 DEF Picked, Lists, k
        <5>3. m \in 1..k+1 /\ f[m] = p
          BY <5>2, <3>2
        <5> QED
          BY <5>3
      <4> QED
        BY <4>1, <4>2
    <3>7. \A m \in 1..k+1 : g[i + 1][m] = t[f[m]]
      <4>1. \A m \in 1..k : g[i][m] = t[e[m]]
        BY <2>1 DEF Picked, k
      <4> QED
        BY <4>1, <3>1, <3>2
    <3> HIDE DEF Upto, f
    <3>8. Lists(f, k + 1, Upto(i + 1))
      BY <3>2, <3>4, <3>5, <3>6 DEF Lists
    <3>9. Picked(g[i + 1], t, Upto(i + 1), f)
      BY <3>1, <3>7, <3>8 DEF Picked
    <3> QED
      BY <2>2, <3>9
  <2>5. CASE i + 1 \notin P
    <3>1. Upto(i + 1) = Upto(i)
      BY <2>2, <2>5, <1>2
    <3>2. g[i + 1] = g[i]
      BY <2>3, <2>5
    <3>3. Picked(g[i + 1], t, Upto(i + 1), e)
      BY <2>1, <3>1, <3>2
    <3> HIDE DEF Upto
    <3> QED
      BY <2>2, <3>3
  <2> QED
    BY <2>4, <2>5
<1>5. n \in S
  <2> HIDE DEF S
  <2>1. 0..n \subseteq S
    BY <1>2, <1>3, <1>4, CountUp
  <2> QED
    BY <1>2, <2>1
<1>6. Upto(n) = P
  BY <1>2
<1>7. g[n] \in Seq(T)
  BY <1>1, <1>2
<1> HIDE DEF Upto
<1> QED
  BY <1>1, <1>5, <1>6, <1>7

\* Whatever has the characters of a text at those positions is what Pick gives.
LEMMA PickedOnce ==
  ASSUME NEW T, NEW t \in Seq(T), NEW P, P \subseteq DOMAIN t,
         NEW u \in Seq(T), NEW e, Picked(u, t, P, e)
  PROVE  u = Pick(t, P)
<1> DEFINE v == Pick(t, P)
<1>1. v \in Seq(T) /\ \E f : Picked(v, t, P, f)
  BY PickPicks
<1> HIDE DEF v
<1>2. PICK f : Picked(v, t, P, f)
  BY <1>1
<1>3. P \subseteq Int
  OBVIOUS
<1>4. Len(u) = Len(v) /\ Same(e, f, Len(u))
  BY <1>2, <1>3, ListsOnce DEF Picked
<1>5. \A m \in 1..Len(u) : u[m] = v[m]
  BY <1>2, <1>4 DEF Picked, Same
<1>6. u = v
  BY <1>1, <1>4, <1>5, SeqEqual
<1> QED
  BY <1>6 DEF v

\* The positions e lists for some of its numbers, and those within a window.
At(e, Q) == {e[m] : m \in Q}
Between(P, a, b) == {i \in P : a <= i /\ i <= b}

\* Picking out of what was picked is picking from the text.
LEMMA PickOfPick ==
  ASSUME NEW T, NEW t \in Seq(T), NEW P, P \subseteq DOMAIN t,
         NEW e, Picked(Pick(t, P), t, P, e),
         NEW Q, Q \subseteq DOMAIN Pick(t, P)
  PROVE  Pick(Pick(t, P), Q) = Pick(t, At(e, Q))
<1> DEFINE u == Pick(t, P)
           v == Pick(u, Q)
           R == {e[m] : m \in Q}
<1>1. u \in Seq(T)
  BY PickPicks
<1>2. Lists(e, Len(u), P) /\ \A m \in 1..Len(u) : u[m] = t[e[m]]
  BY DEF Picked
<1>3. Q \subseteq 1..Len(u)
  BY <1>1
<1> HIDE DEF u
<1>4. v \in Seq(T) /\ \E f : Picked(v, u, Q, f)
  BY <1>1, <1>3, PickPicks
<1> HIDE DEF v
<1>5. PICK f : Picked(v, u, Q, f)
  BY <1>4
<1>6. /\ Len(v) \in Nat /\ \A m \in 1..Len(v) : f[m] \in Q /\ v[m] = u[f[m]]
      /\ \A l, m \in 1..Len(v) : l < m => f[l] < f[m]
      /\ \A q \in Q : \E m \in 1..Len(v) : f[m] = q
  BY <1>5 DEF Picked, Lists
<1> DEFINE h == [m \in 1..Len(v) |-> e[f[m]]]
<1>7. \A m \in 1..Len(v) : h[m] \in R
  BY <1>6
<1>8. \A l, m \in 1..Len(v) : l < m => h[l] < h[m]
  <2>1. \A l, m \in 1..Len(u) : l < m => e[l] < e[m]
    BY <1>2 DEF Lists
  <2>2. \A m \in 1..Len(v) : f[m] \in 1..Len(u) /\ h[m] = e[f[m]]
    BY <1>3, <1>6
  <2> HIDE DEF h
  <2> QED
    BY <1>6, <2>1, <2>2
<1>9. ASSUME NEW r \in R PROVE \E m \in 1..Len(v) : h[m] = r
  <2>1. PICK q \in Q : e[q] = r
    BY <1>9
  <2>2. PICK m \in 1..Len(v) : f[m] = q
    BY <1>6
  <2>3. h[m] = r
    BY <2>1, <2>2
  <2> QED
    BY <2>3
<1>10. \A m \in 1..Len(v) : v[m] = t[h[m]]
  BY <1>2, <1>3, <1>6
<1>11. R \subseteq P
  BY <1>2, <1>3 DEF Lists
<1> HIDE DEF R, h
<1>12. Picked(v, t, R, h)
  BY <1>6, <1>7, <1>8, <1>9, <1>10 DEF Picked, Lists
<1>13. v = Pick(t, R)
  BY <1>4, <1>11, <1>12, PickedOnce
<1> QED
  BY <1>13 DEF u, v, R, At

\* Texts with the same characters at some positions give the same pick.
LEMMA PickAgrees ==
  ASSUME NEW T, NEW s \in Seq(T), NEW t \in Seq(T),
         NEW P, P \subseteq DOMAIN s, P \subseteq DOMAIN t,
         \A i \in P : s[i] = t[i]
  PROVE  Pick(s, P) = Pick(t, P)
<1> DEFINE u == Pick(s, P)
<1>1. u \in Seq(T) /\ \E e : Picked(u, s, P, e)
  BY PickPicks
<1> HIDE DEF u
<1>2. PICK e : Picked(u, s, P, e)
  BY <1>1
<1>3. Picked(u, t, P, e)
  BY <1>2 DEF Picked, Lists
<1>4. u = Pick(t, P)
  BY <1>1, <1>3, PickedOnce
<1> QED
  BY <1>4 DEF u

\* A contiguous piece is a pick.
LEMMA PickRange ==
  ASSUME NEW T, NEW t \in Seq(T), NEW a \in 1..Len(t)+1, NEW b \in 0..Len(t), a <= b + 1
  PROVE  /\ SubSeq(t, a, b) = Pick(t, a..b)
         /\ Picked(SubSeq(t, a, b), t, a..b, [m \in 1..b-a+1 |-> m + a - 1])
<1> DEFINE u == SubSeq(t, a, b)
           e == [m \in 1..b-a+1 |-> m + a - 1]
<1>1. u \in Seq(T) /\ Len(u) = b - a + 1 /\ \A m \in 1..b-a+1 : u[m] = t[a + m - 1]
  BY SubSeqProperties
<1>2. \A m \in 1..b-a+1 : e[m] = m + a - 1 /\ e[m] \in a..b
  OBVIOUS
<1>3. ASSUME NEW i \in a..b PROVE \E m \in 1..b-a+1 : e[m] = i
  <2>1. i - a + 1 \in 1..b-a+1 /\ e[i - a + 1] = i
    BY <1>2
  <2> QED
    BY <2>1
<1>4. \A m \in 1..b-a+1 : u[m] = t[e[m]]
  BY <1>1, <1>2
<1>5. b - a + 1 \in Nat /\ a..b \subseteq DOMAIN t
  OBVIOUS
<1>6. \A l, m \in 1..b-a+1 : l < m => e[l] < e[m]
  BY <1>2
<1> HIDE DEF u, e
<1>7. Picked(u, t, a..b, e)
  BY <1>1, <1>2, <1>3, <1>4, <1>5, <1>6 DEF Picked, Lists
<1>8. u = Pick(t, a..b)
  BY <1>1, <1>5, <1>7, PickedOnce
<1> QED
  BY <1>7, <1>8 DEF u, e

LEMMA PickOfRange ==
  ASSUME NEW T, NEW t \in Seq(T), NEW a \in 1..Len(t)+1, NEW b \in 0..Len(t), a <= b + 1,
         NEW Q, Q \subseteq DOMAIN SubSeq(t, a, b)
  PROVE  Pick(SubSeq(t, a, b), Q) = Pick(t, {i \in a..b : i - a + 1 \in Q})
<1> DEFINE u == SubSeq(t, a, b)
           P == a..b
           e == [m \in 1..b-a+1 |-> m + a - 1]
           R == {i \in a..b : i - a + 1 \in Q}
<1>1. u = Pick(t, P) /\ Picked(u, t, P, e)
  BY PickRange
<1>2. P \subseteq DOMAIN t
  OBVIOUS
<1>3. DOMAIN u = 1..b-a+1
  BY SubSeqProperties
<1>4. At(e, Q) = R
  <2>0. Q \subseteq 1..b-a+1
    BY <1>3
  <2>1. \A m \in Q : e[m] \in R
    BY <2>0
  <2>2. ASSUME NEW i \in R PROVE \E m \in Q : e[m] = i
    <3>1. i - a + 1 \in Q /\ e[i - a + 1] = i
      BY <2>0
    <3> QED
      BY <3>1
  <2> HIDE DEF e, R
  <2> QED
    BY <2>1, <2>2 DEF At
<1> HIDE DEF u, P, e, R
<1>5. Picked(Pick(t, P), t, P, e) /\ Q \subseteq DOMAIN Pick(t, P)
  BY <1>1 DEF u
<1>6. Pick(Pick(t, P), Q) = Pick(t, At(e, Q))
  BY <1>2, <1>5, PickOfPick
<1> QED
  BY <1>1, <1>4, <1>6 DEF u, R

\* The pick between two of its positions is a contiguous piece of the pick.
LEMMA PickBetween ==
  ASSUME NEW T, NEW t \in Seq(T), NEW P, P \subseteq DOMAIN t,
         NEW e, Picked(Pick(t, P), t, P, e),
         NEW c \in DOMAIN Pick(t, P), NEW d \in DOMAIN Pick(t, P), c <= d
  PROVE  Pick(t, Between(P, e[c], e[d])) = SubSeq(Pick(t, P), c, d)
<1> DEFINE u == Pick(t, P)
           R == {i \in P : e[c] <= i /\ i <= e[d]}
<1>1. u \in Seq(T)
  BY PickPicks
<1>2. Lists(e, Len(u), P)
  BY DEF Picked
<1> HIDE DEF u
<1>3. c \in 1..Len(u) /\ d \in 1..Len(u) /\ c..d \subseteq DOMAIN u
  BY <1>1 DEF u
<1>4. At(e, c..d) = R
  <2>0. P \subseteq Int
    OBVIOUS
  <2>1. ASSUME NEW m \in c..d PROVE e[m] \in R
    <3>1. e[m] \in P /\ e[c] \in P /\ e[d] \in P
      BY <1>2, <1>3 DEF Lists
    <3>2. c < m => e[c] < e[m]
      BY <1>2, <1>3 DEF Lists
    <3>3. m < d => e[m] < e[d]
      BY <1>2, <1>3 DEF Lists
    <3>4. e[c] <= e[m] /\ e[m] <= e[d]
      BY <2>0, <3>1, <3>2, <3>3, <1>3
    <3> QED
      BY <3>1, <3>4
  <2>2. ASSUME NEW i \in R PROVE \E m \in c..d : e[m] = i
    <3>1. PICK m \in 1..Len(u) : e[m] = i
      BY <1>2 DEF Lists
    <3>2. e[m] \in P /\ e[c] \in P /\ e[d] \in P
      BY <1>2, <1>3 DEF Lists
    <3>3. m < c => e[m] < e[c]
      BY <1>2, <1>3 DEF Lists
    <3>4. d < m => e[d] < e[m]
      BY <1>2, <1>3 DEF Lists
    <3>5. m \in c..d
      BY <1>3, <3>1, <3>2, <3>3, <3>4, <2>0
    <3> QED
      BY <3>1, <3>5
  <2> HIDE DEF R
  <2> QED
    BY <2>1, <2>2 DEF At
<1>5. Pick(u, c..d) = Pick(t, At(e, c..d))
  BY <1>3, PickOfPick DEF u
<1>6. SubSeq(u, c, d) = Pick(u, c..d)
  <2>1. c \in 1..Len(u)+1 /\ d \in 0..Len(u) /\ c <= d + 1
    BY <1>1, <1>3
  <2> QED
    BY <1>1, <2>1, PickRange
<1> QED
  BY <1>4, <1>5, <1>6 DEF u, R, Between

\* The greatest of some positions.
LEMMA GreatestOne ==
  ASSUME NEW n \in Nat, NEW S, S \subseteq 1..n, S # {}
  PROVE  \E g \in S : \A m \in S : m <= g
<1> DEFINE U == {n - m : m \in S}
<1>1. U \subseteq Nat /\ U # {}
  OBVIOUS
<1>2. PICK x \in U : \A y \in U : x <= y
  BY <1>1, LeastOne
<1>3. PICK g \in S : x = n - g
  OBVIOUS
<1>4. \A m \in S : n - g <= n - m
  BY <1>2, <1>3
<1>5. \A m \in S : m <= g
  BY <1>4
<1> QED
  BY <1>5

LEMMA PickNothing ==
  ASSUME NEW T, NEW t \in Seq(T)
  PROVE  Pick(t, {}) = <<>>
<1>1. PICK e : Picked(Pick(t, {}), t, {}, e)
  BY PickPicks
<1>2. Pick(t, {}) \in Seq(T)
  BY PickPicks
<1>3. ~(1 \in 1..Len(Pick(t, {})))
  BY <1>1 DEF Picked, Lists
<1>4. Len(Pick(t, {})) = 0
  BY <1>2, <1>3
<1> QED
  BY <1>2, <1>4

LEMMA NothingIsAPiece ==
  ASSUME NEW T, NEW t \in Seq(T)
  PROVE  <<>> \in SubSeqs(t)
<1>1. 0 \in 0..Len(t) /\ SubSeq(t, 0+1, 0) = <<>>
  OBVIOUS
<1> QED
  BY <1>1 DEF SubSeqs

LEMMA PieceIsAPiece ==
  ASSUME NEW T, NEW t \in Seq(T), NEW c \in DOMAIN t, NEW d \in DOMAIN t
  PROVE  SubSeq(t, c, d) \in SubSeqs(t)
<1>1. c - 1 \in 0..Len(t) /\ d \in 0..Len(t)
  OBVIOUS
<1>2. (c - 1) + 1 = c
  OBVIOUS
<1>3. SubSeq(t, (c - 1) + 1, d) \in SubSeqs(t)
  <2> DEFINE i == c - 1
  <2>1. i \in 0..Len(t)
    BY <1>1
  <2> HIDE DEF i
  <2>2. SubSeq(t, i + 1, d) \in SubSeqs(t)
    BY <1>1, <2>1 DEF SubSeqs
  <2> QED
    BY <2>2 DEF i
<1> QED
  BY <1>2, <1>3, Zenon

\* The pick within a window of the text is a contiguous piece of the pick.
LEMMA PickWindow ==
  ASSUME NEW T, NEW t \in Seq(T), NEW P, P \subseteq DOMAIN t,
         NEW a \in Int, NEW b \in Int
  PROVE  Pick(t, Between(P, a, b)) \in SubSeqs(Pick(t, P))
<1> DEFINE u == Pick(t, P)
           R == Between(P, a, b)
<1>1. u \in Seq(T) /\ \E e : Picked(u, t, P, e)
  BY PickPicks
<1>2. PICK e : Picked(u, t, P, e)
  BY <1>1
<1> DEFINE Q == {m \in 1..Len(u) : e[m] \in R}
<1>3. CASE R = {}
  BY <1>1, <1>3, PickNothing, NothingIsAPiece
<1>4. CASE R # {}
  <2> HIDE DEF u
  <2>1. Lists(e, Len(u), P) /\ Len(u) \in Nat /\ P \subseteq Int /\ DOMAIN u = 1..Len(u)
    BY <1>1, <1>2 DEF Picked
  <2>2. Q # {} /\ Q \subseteq 1..Len(u) /\ Q \subseteq Nat
    <3>1. PICK r \in R : TRUE
      BY <1>4
    <3>2. PICK m \in 1..Len(u) : e[m] = r
      BY <2>1, <3>1 DEF Lists, Between
    <3>3. m \in Q
      BY <3>1, <3>2
    <3> QED
      BY <3>3
  <2>3. PICK c \in Q : \A m \in Q : c <= m
    <3> HIDE DEF Q
    <3> QED
      BY <2>2, LeastOne
  <2>4. PICK d \in Q : \A m \in Q : m <= d
    <3> HIDE DEF Q
    <3> QED
      BY <2>1, <2>2, GreatestOne
  <2>5. R = Between(P, e[c], e[d])
    <3>1. e[c] \in R /\ e[d] \in R
      OBVIOUS
    <3>2. ASSUME NEW i \in R PROVE e[c] <= i /\ i <= e[d]
      <4>1. PICK m \in 1..Len(u) : e[m] = i
        BY <2>1 DEF Lists, Between
      <4>2. m \in Q
        BY <4>1
      <4>3. c <= m /\ m <= d /\ c \in 1..Len(u) /\ d \in 1..Len(u)
        BY <2>3, <2>4, <4>2
      <4>4. (c < m => e[c] < e[m]) /\ (m < d => e[m] < e[d])
        BY <2>1, <4>3 DEF Lists
      <4>5. e[m] \in Int /\ (c = m \/ c < m) /\ (m = d \/ m < d)
        BY <2>1, <4>1, <4>3 DEF Between, Lists
      <4>6. e[c] \in Int /\ e[d] \in Int
        BY <3>1, <2>1 DEF Between
      <4> QED
        BY <4>1, <4>4, <4>5, <4>6
    <3> QED
      BY <2>1, <3>1, <3>2 DEF Between
  <2>6. c \in DOMAIN u /\ d \in DOMAIN u /\ c <= d
    BY <2>1, <2>3
  <2>7. Pick(t, Between(P, e[c], e[d])) = SubSeq(u, c, d)
    BY <1>2, <2>6, PickBetween DEF u
  <2>8. SubSeq(u, c, d) \in SubSeqs(u)
    BY <1>1, <2>6, PieceIsAPiece
  <2> QED
    BY <2>5, <2>7, <2>8 DEF u
<1> QED
  BY <1>3, <1>4

\* A text.
Text == Seq(Chars)

LEMMA InkIsText ==
  ASSUME NEW t \in Text
  PROVE  Ink(t) \in Text /\ Inked(t) \subseteq DOMAIN t
<1>1. Inked(t) \subseteq DOMAIN t
  BY DEF Inked
<1>2. Pick(t, Inked(t)) \in Seq(Chars)
  BY <1>1, PickPicks DEF Text
<1> QED
  BY <1>1, <1>2 DEF Ink, Text

\* A text has ink if some of its characters have.
LEMMA InkIsThere ==
  ASSUME NEW t \in Text
  PROVE  Ink(t) # <<>> <=> Inked(t) # {}
<1>1. Inked(t) \subseteq DOMAIN t
  BY DEF Inked
<1>2. PICK e : Picked(Pick(t, Inked(t)), t, Inked(t), e)
  BY <1>1, PickPicks DEF Text
<1>3. Ink(t) \in Text
  BY InkIsText
<1>4. Lists(e, Len(Ink(t)), Inked(t))
  BY <1>2 DEF Picked, Ink
<1>5. Inked(t) # {} => 1..Len(Ink(t)) # {}
  BY <1>4 DEF Lists
<1>6. 1..Len(Ink(t)) # {} => Inked(t) # {}
  BY <1>4 DEF Lists
<1>7. Ink(t) # <<>> <=> 1..Len(Ink(t)) # {}
  <2> DEFINE u == Ink(t)
  <2>1. u \in Seq(Chars)
    BY <1>3 DEF Text
  <2> HIDE DEF u
  <2>2. u # <<>> <=> 1..Len(u) # {}
    BY <2>1
  <2> QED
    BY <2>2 DEF u
<1> QED
  BY <1>5, <1>6, <1>7

\* The ink of what is picked is what is picked of the ink.
LEMMA InkOfPick ==
  ASSUME NEW t \in Text, NEW P, P \subseteq DOMAIN t
  PROVE  /\ Pick(t, P) \in Text
         /\ Ink(Pick(t, P)) = Pick(t, P \cap Inked(t))
<1> DEFINE u == Pick(t, P)
           Q == Inked(u)
<1>1. u \in Text /\ \E e : Picked(u, t, P, e)
  BY PickPicks DEF Text
<1>2. PICK e : Picked(u, t, P, e)
  BY <1>1
<1>3. Q \subseteq DOMAIN u
  BY DEF Inked
<1>4. At(e, Q) = P \cap Inked(t)
  <2> HIDE DEF u
  <2>1. /\ Lists(e, Len(u), P) /\ \A m \in 1..Len(u) : u[m] = t[e[m]]
        /\ DOMAIN u = 1..Len(u)
    BY <1>1, <1>2 DEF Picked, Text
  <2>2. ASSUME NEW m \in Q PROVE e[m] \in P \cap Inked(t)
    <3>1. m \in 1..Len(u) /\ u[m] \notin White
      BY <2>1 DEF Inked
    <3>2. e[m] \in P
      BY <2>1, <3>1 DEF Lists
    <3> QED
      BY <2>1, <3>1, <3>2 DEF Inked
  <2>3. ASSUME NEW i \in P \cap Inked(t) PROVE \E m \in Q : e[m] = i
    <3>1. PICK m \in 1..Len(u) : e[m] = i
      BY <2>1 DEF Lists
    <3>2. m \in Q
      BY <2>1, <3>1 DEF Inked
    <3> QED
      BY <3>1, <3>2
  <2> HIDE DEF Q
  <2> QED
    BY <2>2, <2>3 DEF At
<1>5. t \in Seq(Chars)
  BY DEF Text
<1> HIDE DEF Q
<1>6. Pick(u, Q) = Pick(t, At(e, Q))
  BY <1>2, <1>3, <1>5, PickOfPick
<1> QED
  BY <1>1, <1>4, <1>6 DEF Ink, Q

\* A pick that leaves no ink out has all of it.
LEMMA InkIsKept ==
  ASSUME NEW t \in Text, NEW P, P \subseteq DOMAIN t, Inked(t) \subseteq P
  PROVE  Ink(Pick(t, P)) = Ink(t)
<1>1. P \cap Inked(t) = Inked(t)
  OBVIOUS
<1> QED
  BY <1>1, InkOfPick DEF Ink

\* The ink of a contiguous piece is a contiguous piece of the ink.
LEMMA InkOfPiece ==
  ASSUME NEW t \in Text, NEW x \in SubSeqs(t)
  PROVE  x \in Text /\ Ink(x) \in SubSeqs(Ink(t))
<1>1. t \in Seq(Chars) /\ Ink(t) \in Seq(Chars)
  BY InkIsText DEF Text
<1>2. PICK i \in 0..Len(t), b \in 0..Len(t) : x = SubSeq(t, i + 1, b)
  BY DEF SubSeqs
<1> DEFINE a == i + 1
<1>3. a \in 1..Len(t)+1 /\ a \in Int
  BY <1>1
<1>4. CASE a <= b + 1
  <2> HIDE DEF a
  <2>1. x = Pick(t, a..b)
    BY <1>1, <1>2, <1>3, <1>4, PickRange DEF a
  <2>2. a..b \subseteq DOMAIN t
    BY <1>1, <1>3
  <2>3. x \in Text /\ Ink(x) = Pick(t, (a..b) \cap Inked(t))
    BY <2>1, <2>2, InkOfPick
  <2>4. (a..b) \cap Inked(t) = Between(Inked(t), a, b)
    <3>1. Inked(t) \subseteq Int
      BY <1>1 DEF Inked
    <3> QED
      BY <1>3, <3>1 DEF Between
  <2>5. Pick(t, Between(Inked(t), a, b)) \in SubSeqs(Pick(t, Inked(t)))
    <3>1. Inked(t) \subseteq DOMAIN t /\ b \in Int
      BY DEF Inked
    <3> QED
      BY <1>1, <1>3, <3>1, PickWindow
  <2> QED
    BY <2>3, <2>4, <2>5 DEF Ink
<1>5. CASE ~(a <= b + 1)
  <2>1. x = <<>>
    BY <1>1, <1>2, <1>5
  <2>2. x \in Text
    BY <2>1 DEF Text
  <2>3. Inked(x) = {}
    BY <2>1 DEF Inked
  <2>4. Ink(x) = <<>>
    BY <2>2, <2>3, InkIsThere
  <2> QED
    BY <1>1, <2>2, <2>4, NothingIsAPiece
<1> QED
  BY <1>4, <1>5

\* Strip takes what lies between the first and the last inked character.
LEMMA StripIs ==
  ASSUME NEW t \in Text, Inked(t) # {}
  PROVE  \E a, b \in Inked(t) :
            /\ a <= b /\ \A i \in Inked(t) : a <= i /\ i <= b
            /\ Strip(t) = SubSeq(t, a, b)
<1>1. t \in Seq(Chars) /\ DOMAIN t = 1..Len(t) /\ Len(t) \in Nat
  BY DEF Text
<1>2. Inked(t) \subseteq 1..Len(t) /\ Inked(t) \subseteq Nat
  BY <1>1 DEF Inked
<1>3. PICK a \in Inked(t) : \A i \in Inked(t) : a <= i
  BY <1>2, LeastOne
<1>4. PICK b \in Inked(t) : \A i \in Inked(t) : i <= b
  BY <1>1, <1>2, GreatestOne
<1> DEFINE P == {i \in DOMAIN t : \E j, k \in Inked(t) : j <= i /\ i <= k}
<1>5. P = a..b
  <2>1. ASSUME NEW i \in P PROVE i \in a..b
    <3>1. PICK j \in Inked(t), k \in Inked(t) : j <= i /\ i <= k
      OBVIOUS
    <3>2. a <= j /\ k <= b /\ a \in Int /\ b \in Int /\ j \in Int /\ k \in Int /\ i \in Int
      BY <1>1, <1>2, <1>3, <1>4
    <3> QED
      BY <3>1, <3>2
  <2>2. ASSUME NEW i \in a..b PROVE i \in P
    <3>1. i \in 1..Len(t) /\ a <= i /\ i <= b
      BY <1>2
    <3> QED
      BY <1>1, <3>1
  <2> QED
    BY <2>1, <2>2
<1>6. Strip(t) = Pick(t, P)
  BY DEF Strip
<1> HIDE DEF P
<1>7. a \in 1..Len(t)+1 /\ b \in 0..Len(t) /\ a <= b /\ a <= b + 1
  BY <1>1, <1>2, <1>3
<1>8. SubSeq(t, a, b) = Pick(t, a..b)
  BY <1>1, <1>7, PickRange
<1> QED
  BY <1>3, <1>4, <1>5, <1>6, <1>7, <1>8

LEMMA StripNothing ==
  ASSUME NEW t \in Text, Inked(t) = {}
  PROVE  Strip(t) = <<>>
<1>1. {i \in DOMAIN t : \E j, k \in Inked(t) : j <= i /\ i <= k} = {}
  OBVIOUS
<1>2. Strip(t) = Pick(t, {})
  BY <1>1 DEF Strip
<1> QED
  BY <1>2, PickNothing DEF Text

LEMMA StripKeepsInk ==
  ASSUME NEW t \in Text
  PROVE  Strip(t) \in Text /\ Ink(Strip(t)) = Ink(t)
<1> DEFINE P == {i \in DOMAIN t : \E j, k \in Inked(t) : j <= i /\ i <= k}
<1>1. P \subseteq DOMAIN t
  OBVIOUS
<1>2. Inked(t) \subseteq P
  <2>1. \A i \in Inked(t) : i \in DOMAIN t /\ i <= i
    BY DEF Inked, Text
  <2> QED
    BY <2>1
<1>3. Strip(t) = Pick(t, P)
  BY DEF Strip
<1> HIDE DEF P
<1> QED
  BY <1>1, <1>2, <1>3, InkOfPick, InkIsKept

\* The two halves of Collapse: the characters kept, and the spaces they become.
Singled(s) == {i \in DOMAIN s : s[i] \notin White \/ s[i - 1] \notin White}
Spaced(p) == [i \in DOMAIN p |-> IF p[i] \in White THEN " " ELSE p[i]]

LEMMA SpacedKeepsInk ==
  ASSUME NEW p \in Text
  PROVE  /\ Spaced(p) \in Text /\ DOMAIN Spaced(p) = DOMAIN p
         /\ Ink(Spaced(p)) = Ink(p)
<1>1. p \in Seq(Chars) /\ DOMAIN p = 1..Len(p) /\ Len(p) \in Nat
      /\ \A i \in DOMAIN p : p[i] \in Chars
  BY DEF Text
<1>2. Spaced(p) \in Seq(Chars) /\ DOMAIN Spaced(p) = DOMAIN p
  <2> DEFINE space == " "
             f == [i \in 1..Len(p) |-> IF p[i] \in White THEN space ELSE p[i]]
  <2>0. space \in Chars
    BY QuotesAssumption DEF White
  <2>1. Spaced(p) = f
    BY <1>1 DEF Spaced
  <2> HIDE DEF space
  <2>2. f \in [1..Len(p) -> Chars]
    BY <1>1, <2>0
  <2> HIDE DEF f
  <2>3. Spaced(p) \in [1..Len(p) -> Chars] /\ DOMAIN Spaced(p) = 1..Len(p)
    BY <2>1, <2>2
  <2> QED
    BY <1>1, <2>3
<1>3. Inked(Spaced(p)) = Inked(p)
  BY <1>2 DEF Inked, Spaced, White
<1>4. \A i \in Inked(p) : Spaced(p)[i] = p[i]
  BY DEF Inked, Spaced
<1>5. Inked(p) \subseteq DOMAIN p
  BY DEF Inked
<1>6. Pick(Spaced(p), Inked(p)) = Pick(p, Inked(p))
  BY <1>1, <1>2, <1>4, <1>5, PickAgrees
<1> QED
  BY <1>2, <1>3, <1>6 DEF Ink, Text

LEMMA CollapseKeepsInk ==
  ASSUME NEW t \in Text
  PROVE  /\ Collapse(t) \in Text /\ Ink(Collapse(t)) = Ink(t)
         /\ Inked(t) = {} => Collapse(t) = <<>>
<1> DEFINE s == Strip(t)
           p == Pick(s, Singled(s))
<1>1. Collapse(t) = Spaced(p)
  BY DEF Collapse, Singled, Spaced
<1>2. s \in Text /\ Ink(s) = Ink(t)
  BY StripKeepsInk
<1> HIDE DEF s
<1>3. Singled(s) \subseteq DOMAIN s /\ Inked(s) \subseteq Singled(s)
  BY DEF Singled, Inked
<1>4. p \in Text /\ Ink(p) = Ink(s)
  BY <1>2, <1>3, InkOfPick, InkIsKept
<1>5. Inked(t) = {} => p = <<>>
  <2>1. SUFFICES ASSUME Inked(t) = {} PROVE p = <<>>
    OBVIOUS
  <2>2. s = <<>>
    BY <2>1, StripNothing DEF s
  <2>3. Singled(s) = {}
    BY <2>2 DEF Singled
  <2> QED
    BY <1>2, <2>3, PickNothing DEF Text
<1> HIDE DEF p
<1>6. Spaced(p) \in Text /\ Ink(Spaced(p)) = Ink(p) /\ DOMAIN Spaced(p) = DOMAIN p
  BY <1>4, SpacedKeepsInk
<1>7. p = <<>> => Spaced(p) = <<>>
  BY <1>6 DEF Text
<1> QED
  BY <1>1, <1>2, <1>4, <1>5, <1>6, <1>7

LEMMA RegroupKeepsInk ==
  ASSUME NEW t \in Text
  PROVE  /\ Regroup(t) \in Text /\ Ink(Regroup(t)) = Ink(t)
         /\ Regroup(t) # <<>> => Ink(t) # <<>>
<1> DEFINE P == DOMAIN t \ DigitGroupSpaces(t)
           u == Pick(t, P)
<1>1. P \subseteq DOMAIN t /\ Inked(t) \subseteq P
  BY DEF DigitGroupSpaces, Inked, White
<1>2. Regroup(t) = Collapse(u)
  BY DEF Regroup
<1> HIDE DEF P
<1>3. u \in Text /\ Ink(u) = Ink(t)
  BY <1>1, InkOfPick, InkIsKept
<1> HIDE DEF u
<1>4. /\ Collapse(u) \in Text /\ Ink(Collapse(u)) = Ink(u)
      /\ Inked(u) = {} => Collapse(u) = <<>>
  BY <1>3, CollapseKeepsInk
<1>5. Ink(u) # <<>> <=> Inked(u) # {}
  BY <1>3, InkIsThere
<1> QED
  BY <1>2, <1>3, <1>4, <1>5

\* No quotation mark is in a text.
Clean(t) == \A n \in DOMAIN t : t[n] \notin Marks

\* A text and one more character: what was there stays or becomes a composed
\* letter in its place, and what is added is at the end.
LEMMA JoinedIs ==
  ASSUME NEW s \in Text, NEW p \in Text, p # <<>>
  PROVE  LET j == Joined(s, p)
             c == Composes[<<Last(s), p[1]>>]
             o == IF s # <<>> /\ <<Last(s), p[1]>> \in DOMAIN Composes THEN 1 ELSE 0
         IN  /\ j \in Text /\ Len(j) = Len(s) + Len(p) - o
             /\ o = 1 => s # <<>> /\ c \in Chars /\ c \notin White \cup Marks
             /\ \A n \in 1..Len(j) :
                   j[n] = IF n <= Len(s) - o THEN s[n]
                          ELSE IF o = 1 /\ n = Len(s) THEN c ELSE p[n - Len(s) + o]
<1> DEFINE j == Joined(s, p)
           c == Composes[<<Last(s), p[1]>>]
           joins == s # <<>> /\ <<Last(s), p[1]>> \in DOMAIN Composes
<1>1. s \in Seq(Chars) /\ p \in Seq(Chars) /\ Len(s) \in Nat /\ Len(p) \in Nat \ {0}
  BY DEF Text
<1>2. CASE joins
  <2>1. c \in Chars /\ c \notin White \cup Marks
    <3> DEFINE pair == <<Last(s), p[1]>>
    <3>1. pair \in DOMAIN Composes
      BY <1>2
    <3> HIDE DEF pair
    <3>2. Composes[pair] \in Chars /\ Composes[pair] \notin White \cup Marks
      BY <3>1, QuotesAssumption
    <3> QED
      BY <3>2 DEF pair
  <2>2. j = Front(s) \o <<c>> \o Tail(p)
    BY <1>2 DEF Joined
  <2>3. Len(s) \in Nat \ {0}
    BY <1>1, <1>2
  <2> HIDE DEF c, j
  <2>4. /\ Front(s) \in Seq(Chars) /\ Len(Front(s)) = Len(s) - 1
        /\ \A n \in 1..Len(s)-1 : Front(s)[n] = s[n]
    <3> DEFINE l == Len(s) - 1
    <3>1. 1 \in 1..Len(s)+1 /\ l \in 1-1..Len(s) /\ l \in Int /\ l - 1 + 1 = l
          /\ \A n \in 1..l : 1 + n - 1 = n
      BY <2>3
    <3>2. Front(s) = SubSeq(s, 1, l)
      BY DEF Front
    <3> HIDE DEF l
    <3>3. /\ SubSeq(s, 1, l) \in Seq(Chars) /\ Len(SubSeq(s, 1, l)) = l
          /\ \A n \in 1..l : SubSeq(s, 1, l)[n] = s[n]
      BY <1>1, <3>1, SubSeqProperties
    <3> QED
      BY <3>2, <3>3 DEF l
  <2>5. /\ Tail(p) \in Seq(Chars) /\ Len(Tail(p)) = Len(p) - 1
        /\ \A n \in 1..Len(p)-1 : Tail(p)[n] = p[n + 1]
    BY <1>1
  <2> DEFINE f == Front(s)
             r == Tail(p)
             m == f \o <<c>>
  <2>6. f \in Seq(Chars) /\ r \in Seq(Chars) /\ <<c>> \in Seq(Chars) /\ Len(<<c>>) = 1
        /\ <<c>>[1] = c
    BY <2>1, <2>4, <2>5
  <2>9. \A n \in 1..Len(s)-1 : f[n] = s[n]
    BY <2>4
  <2>10. \A n \in 1..Len(p)-1 : r[n] = p[n + 1]
    BY <2>5
  <2>11. Len(f) = Len(s) - 1 /\ Len(r) = Len(p) - 1 /\ j = m \o r
    BY <2>2, <2>4, <2>5
  <2> HIDE DEF f, r
  <2>7. /\ m \in Seq(Chars) /\ Len(m) = Len(s)
        /\ \A n \in 1..Len(s) : m[n] = IF n <= Len(s) - 1 THEN s[n] ELSE c
    BY <2>3, <2>6, <2>9, <2>11
  <2> HIDE DEF m
  <2>8. /\ j \in Seq(Chars) /\ Len(j) = Len(s) + Len(p) - 1
        /\ \A n \in 1..Len(j) :
              j[n] = IF n <= Len(s) THEN m[n] ELSE r[n - Len(s)]
    <3>1. /\ j \in Seq(Chars) /\ Len(j) = Len(m) + Len(r)
          /\ \A n \in 1..Len(j) : j[n] = IF n <= Len(m) THEN m[n] ELSE r[n - Len(m)]
      <4>1. m \in Seq(Chars) /\ r \in Seq(Chars) /\ j = m \o r
        BY <2>6, <2>7, <2>11
      <4> QED
        BY <4>1
    <3>2. Len(m) = Len(s) /\ Len(r) = Len(p) - 1
      BY <2>7, <2>11
    <3>3. Len(s) + (Len(p) - 1) = Len(s) + Len(p) - 1
      BY <1>1
    <3> QED
      BY <3>1, <3>2, <3>3
  <2>12. ASSUME NEW n \in 1..Len(j)
         PROVE  j[n] = IF n <= Len(s) - 1 THEN s[n]
                       ELSE IF n = Len(s) THEN c ELSE p[n - Len(s) + 1]
    <3>1. CASE n <= Len(s)
      BY <1>1, <2>7, <2>8, <3>1
    <3>2. CASE ~(n <= Len(s))
      <4>1. n - Len(s) \in 1..Len(p)-1
        BY <1>1, <2>8, <3>2
      <4> QED
        BY <1>1, <2>8, <2>10, <3>2, <4>1
    <3> QED
      BY <3>1, <3>2
  <2> QED
    BY <1>2, <2>1, <2>8, <2>12 DEF Text, c, j
<1>3. CASE ~joins
  <2>1. j = s \o p
    BY <1>3 DEF Joined
  <2> HIDE DEF j
  <2>2. /\ j \in Seq(Chars) /\ Len(j) = Len(s) + Len(p)
        /\ \A n \in 1..Len(j) : j[n] = IF n <= Len(s) THEN s[n] ELSE p[n - Len(s)]
    BY <1>1, <2>1
  <2> DEFINE o == IF joins THEN 1 ELSE 0
  <2>3. o = 0
    BY <1>3
  <2> HIDE DEF o
  <2>4. \A n \in 1..Len(j) : Len(s) - o = Len(s) /\ n - Len(s) + o = n - Len(s)
    BY <1>1, <2>2, <2>3
  <2>5. Len(s) + Len(p) - o = Len(s) + Len(p)
    BY <1>1, <2>3
  <2>6. /\ j \in Text /\ Len(j) = Len(s) + Len(p) - o
        /\ \A n \in 1..Len(j) :
              j[n] = IF n <= Len(s) - o THEN s[n]
                     ELSE IF o = 1 /\ n = Len(s) THEN c ELSE p[n - Len(s) + o]
    BY <2>2, <2>3, <2>4, <2>5 DEF Text
  <2>7. o = 1 => s # <<>> /\ c \in Chars /\ c \notin White \cup Marks
    BY <2>3
  <2> QED
    BY <2>6, <2>7 DEF o, j
<1> QED
  BY <1>2, <1>3

\* Ink stays, and no mark comes.
LEMMA JoinedKeeps ==
  ASSUME NEW s \in Text, NEW p \in Text, p # <<>>
  PROVE  /\ Joined(s, p) \in Text /\ Joined(s, p) # <<>>
         /\ Inked(s) \subseteq Inked(Joined(s, p))
         /\ (Clean(s) /\ Clean(p)) => Clean(Joined(s, p))
         /\ s = <<>> => Joined(s, p) = p
<1> DEFINE j == Joined(s, p)
           c == Composes[<<Last(s), p[1]>>]
           o == IF s # <<>> /\ <<Last(s), p[1]>> \in DOMAIN Composes THEN 1 ELSE 0
<1>1. /\ j \in Text /\ Len(j) = Len(s) + Len(p) - o
      /\ o = 1 => s # <<>> /\ c \in Chars /\ c \notin White \cup Marks
      /\ \A n \in 1..Len(j) :
            j[n] = IF n <= Len(s) - o THEN s[n]
                   ELSE IF o = 1 /\ n = Len(s) THEN c ELSE p[n - Len(s) + o]
  BY JoinedIs
<1>2. o \in {0, 1} /\ (s = <<>> => o = 0)
  OBVIOUS
<1>3. s = <<>> => j = p
  BY DEF Joined, Text
<1> HIDE DEF j, c, o
<1>4. /\ Len(s) \in Nat /\ Len(p) \in Nat \ {0} /\ DOMAIN s = 1..Len(s)
      /\ DOMAIN p = 1..Len(p) /\ DOMAIN j = 1..Len(j) /\ Len(j) \in Nat
  BY <1>1 DEF Text
<1>40. Len(j) = Len(s) + Len(p) - o
  BY <1>1
<1>41. s # <<>> => Len(s) # 0
  BY <1>4 DEF Text
<1>42. o = 1 => Len(s) # 0
  BY <1>2, <1>41
<1>43. Len(s) \in Nat /\ Len(p) \in Nat \ {0} /\ Len(j) \in Nat
  BY <1>4
<1>5. Len(j) # 0 /\ Len(s) <= Len(j)
  BY <1>2, <1>40, <1>42, <1>43
<1>6. ASSUME NEW n \in Inked(s) PROVE n \in Inked(j)
  <2>1. n \in 1..Len(s) /\ s[n] \notin White
    BY <1>4 DEF Inked
  <2>2. n \in 1..Len(j)
    BY <1>5, <1>43, <2>1
  <2>3. j[n] \notin White
    <3>1. CASE n <= Len(s) - o
      BY <1>1, <2>1, <2>2, <3>1
    <3>2. CASE ~(n <= Len(s) - o)
      <4>1. o = 1 /\ n = Len(s)
        BY <1>2, <1>43, <2>1, <3>2
      <4> QED
        BY <1>1, <2>2, <3>2, <4>1
    <3> QED
      BY <3>1, <3>2
  <2> QED
    BY <1>4, <2>2, <2>3 DEF Inked
<1>7. ASSUME Clean(s), Clean(p) PROVE Clean(j)
  <2>1. ASSUME NEW n \in 1..Len(j) PROVE j[n] \notin Marks
    <3>1. CASE n <= Len(s) - o
      <4>1. n \in 1..Len(s)
        BY <1>2, <1>4, <3>1
      <4> QED
        BY <1>1, <1>4, <1>7, <3>1, <4>1 DEF Clean
    <3>2. CASE ~(n <= Len(s) - o) /\ o = 1 /\ n = Len(s)
      BY <1>1, <3>2
    <3>3. CASE ~(n <= Len(s) - o) /\ ~(o = 1 /\ n = Len(s))
      <4>1. n - Len(s) + o \in 1..Len(p)
        BY <1>2, <1>40, <1>43, <3>3
      <4>2. j[n] = p[n - Len(s) + o]
        BY <1>1, <3>3
      <4> QED
        BY <1>4, <1>7, <4>1, <4>2 DEF Clean
    <3> QED
      BY <3>1, <3>2, <3>3
  <2> QED
    BY <1>4, <2>1 DEF Clean
<1>8. j # <<>>
  BY <1>5
<1>9. j \in Text /\ Inked(s) \subseteq Inked(j)
  BY <1>1, <1>6
<1> QED
  BY <1>3, <1>7, <1>8, <1>9 DEF j

FoldScan(g, t) ==
    /\ g \in [0..Len(t) -> Text] /\ g[0] = <<>>
    /\ \A i \in 1..Len(t) : g[i] = Joined(g[i - 1], Folds[t[i]])
    /\ Fold(t) = g[Len(t)]

\* What a character folds to.
LEMMA FoldsIs ==
  ASSUME NEW c \in Chars
  PROVE  Folds[c] \in Text /\ Folds[c] # <<>>
BY QuotesAssumption DEF Text

\* Fold is the last value of a scan.
LEMMA FoldScans ==
  ASSUME NEW t \in Text
  PROVE  \E g : FoldScan(g, t)
<1> DEFINE n == Len(t)
           U == Text
           none == <<>>
           Grown(v, i) == Joined(v, Folds[t[i]])
           Body(g) == [i \in 0..n |-> IF i = 0 THEN none ELSE Grown(g[i - 1], i)]
           step == [i \in 1..n |-> [v \in U |-> Grown(v, i)]]
<1>1. n \in Nat /\ \A i \in 1..n : t[i] \in Chars
  BY DEF Text
<1>2. \A i \in 1..n : \A v \in U : Grown(v, i) \in U
  <2>1. ASSUME NEW i \in 1..n, NEW v \in Text PROVE Joined(v, Folds[t[i]]) \in Text
    <3> DEFINE piece == Folds[t[i]]
    <3>1. piece \in Text /\ piece # <<>>
      BY <1>1, FoldsIs
    <3> HIDE DEF piece
    <3> QED
      BY <3>1, JoinedKeeps DEF piece
  <2> QED
    BY <2>1
<1>3. Fold(t) = (CHOOSE f : f = Body(f))[n]
  BY DEF Fold
<1>31. none \in U
  BY DEF Text
<1> HIDE DEF n, Grown, U, none
<1>4. \A i \in 1..n : \A v \in U : step[i][v] = Grown(v, i)
  OBVIOUS
<1> HIDE DEF step
<1>5. PICK g : Scans(g, n, U, none, step)
  <2>1. Steps(step, n, U)
    BY <1>2, <1>4 DEF Steps
  <2> QED
    BY <1>1, <1>31, <2>1, ScanExists
<1>6. \A i \in 1..n : g[i] = Grown(g[i - 1], i)
  <2>1. \A i \in 1..n : g[i - 1] \in U
    BY <1>1, <1>5 DEF Scans
  <2> QED
    BY <1>4, <1>5, <2>1 DEF Scans
<1>7. g = Body(g)
  BY <1>5, <1>6 DEF Scans
<1> DEFINE f == CHOOSE f : f = Body(f)
<1>8. f = Body(f)
  <2> HIDE DEF Body
  <2> QED
    BY <1>7, Zenon
<1> HIDE DEF f
<1>9. DOMAIN f = 0..n /\ f = [i \in 0..n |-> f[i]] /\ f[0] = none
  BY <1>8, <1>1
<1>10. \A i \in 1..n : f[i] = Grown(f[i - 1], i)
  BY <1>8, <1>1
<1>11. \A i \in 0..n : f[i] \in U
  <2> DEFINE S == {i \in 0..n : f[i] \in U}
  <2>1. 0 \in S
    BY <1>1, <1>9, <1>31
  <2>2. ASSUME NEW i \in 0..n-1, i \in S PROVE i + 1 \in S
    <3>1. f[i] \in U /\ (i + 1) - 1 = i /\ i + 1 \in 1..n
      BY <2>2, <1>1
    <3>2. f[i + 1] = Grown(f[i], i + 1)
      BY <3>1, <1>10
    <3> QED
      BY <3>1, <3>2, <1>1, <1>2
  <2> HIDE DEF S
  <2>3. 0..n \subseteq S
    BY <1>1, <2>1, <2>2, CountUp
  <2> QED
    BY <2>3 DEF S
<1>12. f \in [0..n -> U]
  BY <1>9, <1>11
<1>13. \A i \in 1..n : f[i] = Joined(f[i - 1], Folds[t[i]])
  BY <1>10 DEF Grown
<1>14. Fold(t) = f[n]
  BY <1>3 DEF f
<1>15. FoldScan(f, t)
  BY <1>9, <1>12, <1>13, <1>14 DEF n, U, none, FoldScan
<1> QED
  BY <1>15

LEMMA FoldIsText ==
  ASSUME NEW t \in Text
  PROVE  Fold(t) \in Text
<1>1. PICK g : FoldScan(g, t)
  BY FoldScans
<1> QED
  BY <1>1 DEF FoldScan, Text

LEMMA PieceIsText ==
  ASSUME NEW t \in Text, NEW a \in Int, NEW b \in Int, 1 <= a, b <= Len(t)
  PROVE  SubSeq(t, a, b) \in Text
BY DEF Text

\* A quote that verifies stands in the source, ink for ink as both are folded.
LEMMA VerifiedIsCited ==
  ASSUME NEW quote \in Text, NEW source \in Text, Verify(quote, source).valid
  PROVE  LET q == Verify(quote, source).quote
         IN  q \in Text /\ Ink(Fold(q)) # <<>> /\ Ink(Fold(q)) \in SubSeqs(Ink(Fold(source)))
<1> DEFINE q == StripWrapping(quote)
           s == Strip(quote)
<1>1. Verify(quote, source).quote = q
  BY DEF Verify
<1>2. Normalize(q) # <<>> /\ Normalize(q) \in SubSeqs(Normalize(source))
  BY DEF Verify, Appears, Haystack
<1>3. q \in Text
  <2>1. s \in Text
    BY StripKeepsInk
  <2> HIDE DEF s
  <2>2. Len(s) >= 2 => SubSeq(s, 2, Len(s) - 1) \in Text
    BY <2>1, PieceIsText DEF Text
  <2>3. Len(s) >= 2 => Strip(SubSeq(s, 2, Len(s) - 1)) \in Text
    BY <2>2, StripKeepsInk
  <2>4. q = s \/ (Len(s) >= 2 /\ q = Strip(SubSeq(s, 2, Len(s) - 1)))
    BY DEF StripWrapping, s
  <2> QED
    BY <2>1, <2>3, <2>4
<1> HIDE DEF q
<1> DEFINE y == Fold(q)
           x == Fold(source)
<1>4. y \in Text /\ x \in Text
  BY <1>3, FoldIsText
<1>5. Regroup(y) # <<>> /\ Regroup(y) \in SubSeqs(Regroup(x))
  BY <1>2 DEF Normalize
<1> HIDE DEF x, y
<1>6. Regroup(x) \in Text /\ Ink(Regroup(x)) = Ink(x)
  BY <1>4, RegroupKeepsInk
<1>7. Ink(Regroup(y)) \in SubSeqs(Ink(x))
  BY <1>5, <1>6, InkOfPiece
<1>8. Ink(Regroup(y)) = Ink(y) /\ Ink(y) # <<>>
  BY <1>4, <1>5, RegroupKeepsInk
<1> QED
  BY <1>1, <1>3, <1>7, <1>8 DEF x, y

\* What one character does to the mark that would close the quotation.
Turn(c, v) ==
    IF v = "" THEN (IF c \in Openers THEN Closing[c] ELSE "")
    ELSE IF c = v THEN "" ELSE v

CloserScan(f, t) ==
    \A i \in 1..Len(t)+1 : f[i] = IF i = 1 THEN "" ELSE Turn(t[i - 1], f[i - 1])

LEMMA ClosersScan ==
  ASSUME NEW t \in Text
  PROVE  CloserScan(ClosesAt(t), t)
<1> DEFINE n == Len(t)
           V == Marks \cup {""}
           step == [i \in 1..n |-> [v \in V |-> Turn(t[i], v)]]
           Body(f) == [i \in 1..n+1 |-> IF i = 1 THEN "" ELSE Turn(t[i - 1], f[i - 1])]
           f == CHOOSE f : f = Body(f)
           none == ""
<1>1. n \in Nat
  BY DEF Text
<1>2. ClosesAt(t) = f
  BY DEF ClosesAt, Turn
<1> HIDE DEF n
<1>3. \A i \in 1..n : \A v \in V : Turn(t[i], v) \in V
  BY DEF Turn, Marks, Openers, Closing
<1>4. \A i \in 1..n : \A v \in V : step[i][v] = Turn(t[i], v)
  OBVIOUS
<1> HIDE DEF step, V
<1>5. Steps(step, n, V)
  BY <1>3, <1>4 DEF Steps
<1>6. none \in V
  BY DEF V
<1> HIDE DEF none
<1>7. PICK g : Scans(g, n, V, none, step)
  BY <1>1, <1>5, <1>6, ScanExists
<1>8. \A i \in 1..n : g[i - 1] \in V /\ g[i] = Turn(t[i], g[i - 1])
  <2>1. \A i \in 1..n : g[i - 1] \in V
    BY <1>1, <1>7 DEF Scans
  <2> QED
    BY <1>4, <1>7, <2>1 DEF Scans
<1> DEFINE h == [i \in 1..n+1 |-> g[i - 1]]
<1>9. h = Body(h)
  <2>1. ASSUME NEW i \in 1..n+1
        PROVE  g[i - 1] = IF i = 1 THEN "" ELSE Turn(t[i - 1], h[i - 1])
    <3>1. CASE i = 1
      <4>1. g[0] = none
        BY <1>7 DEF Scans
      <4>2. i - 1 = 0
        BY <3>1
      <4>3. g[0] = ""
        BY <4>1 DEF none
      <4> QED
        BY <3>1, <4>2, <4>3
    <3>2. CASE i # 1
      <4>1. i - 1 \in 1..n /\ i - 1 \in 1..n+1
        BY <1>1, <3>2
      <4>2. h[i - 1] = g[(i - 1) - 1]
        BY <4>1
      <4>3. g[i - 1] = Turn(t[i - 1], g[(i - 1) - 1])
        BY <1>8, <4>1
      <4> QED
        BY <3>2, <4>2, <4>3
    <3> QED
      BY <3>1, <3>2
  <2> QED
    BY <2>1
<1>10. f = Body(f)
  <2> HIDE DEF Body, h
  <2> QED
    BY <1>9, Zenon
<1> HIDE DEF f
<1>11. \A i \in 1..n+1 : f[i] = IF i = 1 THEN "" ELSE Turn(t[i - 1], f[i - 1])
  BY <1>10
<1> QED
  BY <1>2, <1>11 DEF CloserScan, n

\* Before the first quotation mark nothing is quoted.
LEMMA BareIsUnquoted ==
  ASSUME NEW t \in Text, NEW k \in 0..Len(t), \A n \in 1..k : t[n] \notin Marks
  PROVE  \A i \in 1..k+1 : ClosesAt(t)[i] = ""
<1> DEFINE f == ClosesAt(t)
           S == {i \in 0..k : f[i + 1] = ""}
<1>0. CloserScan(f, t)
  BY ClosersScan
<1> HIDE DEF f
<1>1. k \in Nat /\ Len(t) \in Nat
  BY DEF Text
<1>2. 0 \in S
  <2>1. 1 \in 1..Len(t)+1
    BY <1>1
  <2>2. f[1] = ""
    BY <1>0, <2>1 DEF CloserScan
  <2>3. 0 \in 0..k /\ 0 + 1 = 1
    BY <1>1
  <2> QED
    BY <2>2, <2>3
<1>3. ASSUME NEW i \in 0..k-1, i \in S
      PROVE  i + 1 \in S
  <2>1. i + 1 \in 1..k /\ (i + 1) + 1 \in 1..Len(t)+1 /\ (i + 1) + 1 # 1
        /\ ((i + 1) + 1) - 1 = i + 1 /\ i + 1 \in 0..k
    BY <1>1
  <2>2. f[(i + 1) + 1] = Turn(t[i + 1], f[i + 1])
    BY <1>0, <2>1 DEF CloserScan
  <2>3. t[i + 1] \notin Openers
    BY <2>1 DEF Marks
  <2>4. f[i + 1] = ""
    BY <1>3
  <2>5. Turn(t[i + 1], f[i + 1]) = ""
    BY <2>3, <2>4 DEF Turn
  <2> QED
    BY <2>1, <2>2, <2>5
<1>4. 0..k \subseteq S
  <2> HIDE DEF S
  <2> QED
    BY <1>1, <1>2, <1>3, CountUp
<1>5. ASSUME NEW i \in 1..k+1 PROVE f[i] = ""
  <2>1. i - 1 \in 0..k /\ (i - 1) + 1 = i
    BY <1>1
  <2> QED
    BY <1>4, <2>1
<1> QED
  BY <1>5 DEF f

\* A span of a text from one inked character to another.
IsSpan(q, t, a, b) ==
    /\ a \in Inked(t) /\ b \in Inked(t) /\ a <= b
    /\ q = SubSeq(t, a, b)

LEMMA SpanChars ==
  ASSUME NEW q, NEW t \in Text, NEW a, NEW b, IsSpan(q, t, a, b)
  PROVE  /\ q \in Text /\ Len(q) = b - a + 1 /\ DOMAIN q = 1..b-a+1
         /\ \A m \in 1..b-a+1 : q[m] = t[m + a - 1]
         /\ a \in 1..Len(t) /\ b \in 1..Len(t) /\ a <= b /\ Len(t) \in Nat
<1>1. a \in 1..Len(t) /\ b \in 1..Len(t) /\ a <= b /\ Len(t) \in Nat
  BY DEF IsSpan, Inked, Text
<1>2. \A m \in 1..b-a+1 : a + m - 1 = m + a - 1
  BY <1>1
<1> QED
  BY <1>1, <1>2, SubSeqProperties DEF IsSpan, Text

\* Before the first mark, digits are grouped in a span as in the text.
LEMMA SpanGroups ==
  ASSUME NEW q, NEW t \in Text, NEW a, NEW b, IsSpan(q, t, a, b),
         \A n \in 1..b : t[n] \notin Marks
  PROVE  \A p \in DOMAIN q :
            p \in DigitGroupSpaces(q) <=> p + a - 1 \in DigitGroupSpaces(t)
<1>1. /\ q \in Text /\ Len(q) = b - a + 1 /\ DOMAIN q = 1..b-a+1
      /\ \A m \in 1..b-a+1 : q[m] = t[m + a - 1]
      /\ a \in 1..Len(t) /\ b \in 1..Len(t) /\ a <= b /\ Len(t) \in Nat
  BY SpanChars
<1>2. \A i \in 1..b+1 : ClosesAt(t)[i] = ""
  <2>1. b \in 0..Len(t)
    BY <1>1
  <2> QED
    BY <2>1, BareIsUnquoted
<1>3. \A i \in 1..Len(q)+1 : ClosesAt(q)[i] = ""
  <2>1. Len(q) \in 0..Len(q)
    BY <1>1
  <2>2. \A n \in 1..Len(q) : q[n] \notin Marks
    BY <1>1
  <2> QED
    BY <1>1, <2>1, <2>2, BareIsUnquoted
<1>4. t[a] # " " /\ t[b] # " "
  BY DEF IsSpan, Inked, White
<1>41. DOMAIN t = 1..Len(t)
  BY DEF Text
<1> DEFINE Grouped(s, i) ==
              \E j, k \in DOMAIN s :
                  /\ j < i /\ i < k /\ s[j] \in Digits /\ s[k] \in Digits
                  /\ \A l \in (j + 1)..(k - 1) : s[l] = " "
<1>5. a \in Int /\ b \in Int /\ Len(t) \in Int /\ 1 <= a /\ b <= Len(t)
  BY <1>1
<1>6. ASSUME NEW p \in 1..b-a+1
      PROVE  p \in DigitGroupSpaces(q) <=> p + a - 1 \in DigitGroupSpaces(t)
  <2> DEFINE r == p + a - 1
  <2>0. p \in Int /\ r \in Int /\ p = r - a + 1 /\ a <= r /\ r <= b
    BY <1>5
  <2> HIDE DEF r
  <2>1. p \in DigitGroupSpaces(q) <=> q[p] = " " /\ Grouped(q, p)
    <3>1. p \in 1..Len(q)+1
      BY <1>1, <1>5
    <3>2. ClosesAt(q)[p] = ""
      BY <1>3, <3>1
    <3> QED
      BY <1>1, <3>2 DEF DigitGroupSpaces
  <2>2. r \in DigitGroupSpaces(t) <=> t[r] = " " /\ Grouped(t, r)
    <3>1. r \in 1..b+1 /\ r \in DOMAIN t
      BY <1>1, <1>41, <2>0
    <3>2. ClosesAt(t)[r] = ""
      BY <1>2, <3>1
    <3> QED
      BY <3>1, <3>2 DEF DigitGroupSpaces
  <2>3. q[p] = t[r]
    BY <1>1 DEF r
  <2>4. ASSUME Grouped(q, p) PROVE Grouped(t, r)
    <3>1. PICK j \in DOMAIN q, k \in DOMAIN q :
             /\ j < p /\ p < k /\ q[j] \in Digits /\ q[k] \in Digits
             /\ \A l \in (j + 1)..(k - 1) : q[l] = " "
      BY <2>4
    <3>2. j \in 1..b-a+1 /\ k \in 1..b-a+1
      BY <1>1
    <3> DEFINE jj == j + a - 1
               kk == k + a - 1
    <3>3. jj \in 1..Len(t) /\ kk \in 1..Len(t) /\ jj < r /\ r < kk
      <4>1. j < p /\ p < k
        BY <3>1
      <4>2. j \in Int /\ k \in Int /\ 1 <= j /\ k <= b - a + 1
        BY <1>5, <3>2
      <4> QED
        BY <1>5, <2>0, <4>1, <4>2
    <3>4. t[jj] \in Digits /\ t[kk] \in Digits
      BY <1>1, <3>1, <3>2
    <3>5. ASSUME NEW l \in (jj + 1)..(kk - 1) PROVE t[l] = " "
      <4> DEFINE m == l - a + 1
      <4>1. m \in (j + 1)..(k - 1) /\ m \in 1..b-a+1 /\ m + a - 1 = l
        BY <1>5, <3>2
      <4> HIDE DEF m
      <4> QED
        BY <1>1, <3>1, <4>1
    <3> HIDE DEF jj, kk
    <3> QED
      BY <1>41, <3>3, <3>4, <3>5
  <2>5. ASSUME t[r] = " ", Grouped(t, r) PROVE Grouped(q, p)
    <3>1. PICK j \in DOMAIN t, k \in DOMAIN t :
             /\ j < r /\ r < k /\ t[j] \in Digits /\ t[k] \in Digits
             /\ \A l \in (j + 1)..(k - 1) : t[l] = " "
      BY <2>5
    <3>2. j \in Int /\ k \in Int
      BY <1>1, <1>41
    <3>3. r # a /\ r # b
      BY <1>4, <2>5
    <3>6. j < r /\ r < k
      BY <3>1
    <3>4. a <= j
      <4>1. j < a => a \in (j + 1)..(k - 1)
        BY <1>5, <2>0, <3>2, <3>3, <3>6
      <4>2. ~(j < a)
        BY <1>4, <3>1, <4>1
      <4> QED
        BY <1>5, <3>2, <4>2
    <3>5. k <= b
      <4>1. b < k => b \in (j + 1)..(k - 1)
        BY <1>5, <2>0, <3>2, <3>3, <3>6
      <4>2. ~(b < k)
        BY <1>4, <3>1, <4>1
      <4> QED
        BY <1>5, <3>2, <4>2
    <3> DEFINE jj == j - a + 1
               kk == k - a + 1
    <3>7. /\ jj \in 1..b-a+1 /\ kk \in 1..b-a+1 /\ jj < p /\ p < kk
          /\ jj + a - 1 = j /\ kk + a - 1 = k
      BY <1>5, <2>0, <3>2, <3>4, <3>5, <3>6
    <3> HIDE DEF jj, kk
    <3>9. ASSUME NEW l \in (jj + 1)..(kk - 1) PROVE q[l] = " "
      <4>1. l + a - 1 \in (j + 1)..(k - 1) /\ l \in 1..b-a+1
        <5>1. l \in Int /\ jj < l /\ l < kk
          BY <1>5, <3>7
        <5> QED
          BY <1>5, <3>2, <3>7, <5>1
      <4> QED
        BY <1>1, <3>1, <4>1
    <3>8. q[jj] \in Digits /\ q[kk] \in Digits
      <4>1. q[jj] = t[j] /\ q[kk] = t[k]
        BY <1>1, <3>7
      <4> QED
        BY <3>1, <4>1
    <3> QED
      BY <1>1, <3>7, <3>8, <3>9
  <2> HIDE DEF Grouped
  <2>6. p \in DigitGroupSpaces(q) <=> r \in DigitGroupSpaces(t)
    BY <2>1, <2>2, <2>3, <2>4, <2>5
  <2> QED
    BY <2>6 DEF r
<1> QED
  BY <1>1, <1>6

\* All the ink of a text lies between two places.
Encloses(t, a, b) == \A i \in Inked(t) : a <= i /\ i <= b

\* Without its grouping spaces, such a span is a span of the text without its own.
LEMMA GroupedSpan ==
  ASSUME NEW q, NEW t \in Text, NEW a, NEW b, IsSpan(q, t, a, b),
         \A n \in 1..b : t[n] \notin Marks
  PROVE  LET x == Pick(t, DOMAIN t \ DigitGroupSpaces(t)) IN
         /\ x \in Text
         /\ \E c, d :
               /\ IsSpan(Pick(q, DOMAIN q \ DigitGroupSpaces(q)), x, c, d)
               /\ Encloses(t, a, b) => Encloses(x, c, d)
<1> DEFINE P == DOMAIN t \ DigitGroupSpaces(t)
           Q == DOMAIN q \ DigitGroupSpaces(q)
           x == Pick(t, P)
<1>1. /\ q \in Text /\ Len(q) = b - a + 1 /\ DOMAIN q = 1..b-a+1
      /\ a \in 1..Len(t) /\ b \in 1..Len(t) /\ a <= b /\ Len(t) \in Nat
  BY SpanChars
<1>2. q = SubSeq(t, a, b) /\ a \in Inked(t) /\ b \in Inked(t)
  BY DEF IsSpan
<1>3. t \in Seq(Chars) /\ DOMAIN t = 1..Len(t)
  BY DEF Text
<1>4. \A p \in DOMAIN q : p \in DigitGroupSpaces(q) <=> p + a - 1 \in DigitGroupSpaces(t)
  BY SpanGroups
<1>5. {i \in a..b : i - a + 1 \in Q} = Between(P, a, b)
  <2>1. ASSUME NEW i \in a..b
        PROVE  i - a + 1 \in Q <=> i \in P
    <3>1. i - a + 1 \in DOMAIN q /\ (i - a + 1) + a - 1 = i /\ i \in DOMAIN t
      BY <1>1, <1>3
    <3> QED
      BY <1>4, <3>1
  <2>2. \A i \in P : i \in a..b <=> a <= i /\ i <= b
    BY <1>1, <1>3
  <2>3. \A i \in a..b : a <= i /\ i <= b
    BY <1>1
  <2> HIDE DEF P, Q
  <2> QED
    BY <2>1, <2>2, <2>3 DEF Between
<1>6. Q \subseteq DOMAIN SubSeq(t, a, b)
  BY <1>2
<1>7. a \in P /\ b \in P /\ P \subseteq DOMAIN t
  BY <1>1, <1>2, <1>3 DEF DigitGroupSpaces, Inked, White
<1> HIDE DEF P, Q
<1>8. Pick(q, Q) = Pick(t, Between(P, a, b))
  <2>1. a \in 1..Len(t)+1 /\ b \in 0..Len(t) /\ a <= b + 1
    BY <1>1
  <2>2. Pick(SubSeq(t, a, b), Q) = Pick(t, {i \in a..b : i - a + 1 \in Q})
    BY <1>3, <1>6, <2>1, PickOfRange
  <2> QED
    BY <1>2, <1>5, <2>2
<1>9. x \in Seq(Chars) /\ \E e : Picked(x, t, P, e)
  BY <1>3, <1>7, PickPicks
<1>10. PICK e : Picked(Pick(t, P), t, P, e)
  BY <1>9
<1> HIDE DEF x
<1>11. Lists(e, Len(x), P) /\ \A m \in 1..Len(x) : x[m] = t[e[m]]
  BY <1>10 DEF Picked, x
<1>12. DOMAIN x = 1..Len(x) /\ Len(x) \in Nat
  BY <1>9
<1>13. PICK c \in 1..Len(x) : e[c] = a
  BY <1>7, <1>11 DEF Lists
<1>14. PICK d \in 1..Len(x) : e[d] = b
  BY <1>7, <1>11 DEF Lists
<1>15. c <= d
  <2>1. d < c => e[d] < e[c]
    BY <1>11 DEF Lists
  <2>2. ~(d < c)
    BY <1>1, <1>13, <1>14, <2>1
  <2> QED
    BY <1>12, <2>2
<1>16. c \in Inked(x) /\ d \in Inked(x)
  BY <1>2, <1>11, <1>12, <1>13, <1>14 DEF Inked
<1>17. Pick(t, Between(P, e[c], e[d])) = SubSeq(Pick(t, P), c, d)
  <2>1. c \in DOMAIN Pick(t, P) /\ d \in DOMAIN Pick(t, P)
    BY <1>12 DEF x
  <2> QED
    BY <1>3, <1>7, <1>10, <1>15, <2>1, PickBetween
<1>18. Pick(q, Q) = SubSeq(x, c, d)
  BY <1>8, <1>13, <1>14, <1>17 DEF x
<1>19. IsSpan(Pick(q, Q), x, c, d)
  BY <1>15, <1>16, <1>18 DEF IsSpan
<1>20. ASSUME Encloses(t, a, b), NEW m \in Inked(x)
       PROVE  c <= m /\ m <= d
  <2>1. m \in 1..Len(x) /\ x[m] = t[e[m]] /\ x[m] \notin White /\ e[m] \in P
    BY <1>11, <1>12 DEF Inked, Lists
  <2>2. e[m] \in Inked(t)
    BY <1>7, <2>1 DEF Inked
  <2>3. e[c] <= e[m] /\ e[m] <= e[d]
    BY <1>13, <1>14, <1>20, <2>2 DEF Encloses
  <2>4. e[m] \in Int /\ e[c] \in Int /\ e[d] \in Int
    BY <1>1, <1>3, <1>7, <1>13, <1>14, <2>1
  <2>5. (m < c => e[m] < e[c]) /\ (d < m => e[d] < e[m])
    BY <1>11, <2>1 DEF Lists
  <2>6. ~(m < c) /\ ~(d < m)
    BY <2>3, <2>4, <2>5
  <2> QED
    BY <1>12, <2>1, <2>6
<1> QED
  BY <1>9, <1>19, <1>20 DEF Encloses, Text, x, P, Q

\* Spaces for white space, in a piece as in the whole.
LEMMA SpacedPiece ==
  ASSUME NEW s \in Text, NEW u \in SubSeqs(s)
  PROVE  Spaced(u) \in SubSeqs(Spaced(s))
<1>1. s \in Seq(Chars) /\ DOMAIN s = 1..Len(s) /\ Len(s) \in Nat
  BY DEF Text
<1>2. Spaced(s) \in Seq(Chars) /\ DOMAIN Spaced(s) = 1..Len(s)
      /\ \A i \in 1..Len(s) : Spaced(s)[i] = IF s[i] \in White THEN " " ELSE s[i]
  BY <1>1, SpacedKeepsInk DEF Spaced, Text
<1>3. Len(Spaced(s)) = Len(s)
  <2> DEFINE z == Spaced(s)
  <2>1. z \in Seq(Chars) /\ DOMAIN z = 1..Len(s)
    BY <1>2
  <2> HIDE DEF z
  <2>2. Len(z) \in Nat /\ DOMAIN z = 1..Len(z)
    BY <2>1
  <2>3. Len(z) = Len(s)
    BY <1>1, <2>1, <2>2
  <2> QED
    BY <2>3 DEF z
<1>4. PICK i \in 0..Len(s), j \in 0..Len(s) : u = SubSeq(s, i+1, j)
  BY DEF SubSeqs
<1> DEFINE k == i + 1
           n == j - k + 1
<1>5. k \in Int /\ j \in Int /\ 1 <= k /\ j <= Len(s) /\ n \in Int
  BY <1>1, <1>4
<1> HIDE DEF k
<1>6. CASE k <= j
  <2>1. u \in Seq(Chars) /\ Len(u) = n /\ DOMAIN u = 1..n
        /\ \A m \in 1..n : u[m] = s[k + m - 1]
    BY <1>1, <1>4, <1>5, <1>6, SubSeqProperties DEF k
  <2> DEFINE v == SubSeq(Spaced(s), k, j)
  <2>2. v \in Seq(Chars) /\ Len(v) = n /\ DOMAIN v = 1..n
        /\ \A m \in 1..n : v[m] = Spaced(s)[k + m - 1]
    <3> DEFINE z == Spaced(s)
    <3>0. z \in Seq(Chars)
      BY <1>2
    <3>1. k \in 1..Len(z)+1 /\ j \in k-1..Len(z) /\ j \in Int
      <4>1. Len(z) = Len(s)
        BY <1>3
      <4> HIDE DEF z
      <4> QED
        BY <1>1, <1>5, <1>6, <4>1
    <3> HIDE DEF z
    <3>2. SubSeq(z, k, j) \in Seq(Chars) /\ Len(SubSeq(z, k, j)) = n
          /\ \A m \in 1..n : SubSeq(z, k, j)[m] = z[k + m - 1]
      BY <1>5, <1>6, <3>0, <3>1, SubSeqProperties
    <3> QED
      BY <3>2 DEF z
  <2> HIDE DEF v
  <2>3. \A m \in 1..n : k + m - 1 \in 1..Len(s)
    BY <1>5
  <2> HIDE DEF n
  <2>4. Spaced(u) = [m \in 1..n |-> IF u[m] \in White THEN " " ELSE u[m]]
    BY <2>1 DEF Spaced
  <2>5. v = [m \in 1..n |-> v[m]]
    BY <2>2
  <2>6. \A m \in 1..n : v[m] = IF u[m] \in White THEN " " ELSE u[m]
    BY <1>2, <2>1, <2>2, <2>3
  <2>7. Spaced(u) = v
    BY <2>4, <2>5, <2>6
  <2>8. SubSeq(Spaced(s), i+1, j) \in SubSeqs(Spaced(s))
    BY <1>3, <1>4 DEF SubSeqs
  <2> QED
    BY <2>7, <2>8 DEF v, k
<1>7. CASE ~(k <= j)
  <2>1. u = <<>>
    BY <1>1, <1>4, <1>5, <1>7 DEF k
  <2>2. Spaced(u) = <<>>
    BY <2>1 DEF Spaced
  <2> QED
    BY <1>2, <2>2, NothingIsAPiece
<1> QED
  BY <1>6, <1>7

\* Runs of white space collapse in a span as they do in the text.
LEMMA CollapsedSpan ==
  ASSUME NEW y, NEW s \in Text, NEW a, NEW b, IsSpan(y, s, a, b)
  PROVE  Spaced(Pick(y, Singled(y))) \in SubSeqs(Spaced(Pick(s, Singled(s))))
<1>1. /\ y \in Text /\ Len(y) = b - a + 1 /\ DOMAIN y = 1..b-a+1
      /\ \A m \in 1..b-a+1 : y[m] = s[m + a - 1]
      /\ a \in 1..Len(s) /\ b \in 1..Len(s) /\ a <= b /\ Len(s) \in Nat
  BY SpanChars
<1>2. y = SubSeq(s, a, b) /\ s[a] \notin White
  BY DEF IsSpan, Inked
<1>3. s \in Seq(Chars) /\ DOMAIN s = 1..Len(s) /\ a \in Int /\ b \in Int
  BY <1>1 DEF Text
<1>4. {i \in a..b : i - a + 1 \in Singled(y)} = Between(Singled(s), a, b)
  <2>1. ASSUME NEW i \in a..b
        PROVE  i - a + 1 \in Singled(y) <=> i \in Singled(s)
    <3> DEFINE m == i - a + 1
    <3>1. m \in 1..b-a+1 /\ m + a - 1 = i /\ i \in 1..Len(s)
      BY <1>1
    <3>2. y[m] = s[i]
      BY <1>1, <3>1
    <3>3. CASE i = a
      <4>1. s[i] \notin White
        BY <1>2, <3>3
      <4> HIDE DEF m
      <4>2. m \in Singled(y) /\ i \in Singled(s)
        BY <1>1, <1>3, <3>1, <3>2, <4>1 DEF Singled
      <4> QED
        BY <4>2 DEF m
    <3>4. CASE i # a
      <4>1. m - 1 \in 1..b-a+1 /\ (m - 1) + a - 1 = i - 1
        BY <1>1, <3>4
      <4>2. y[m - 1] = s[i - 1]
        BY <1>1, <4>1
      <4> HIDE DEF m
      <4>3. m \in Singled(y) <=> i \in Singled(s)
        BY <1>1, <1>3, <3>1, <3>2, <4>2 DEF Singled
      <4> QED
        BY <4>3 DEF m
    <3> QED
      BY <3>3, <3>4
  <2>2. \A i \in Singled(s) : i \in a..b <=> a <= i /\ i <= b
    BY <1>1, <1>3 DEF Singled
  <2>3. \A i \in a..b : a <= i /\ i <= b
    BY <1>1
  <2> QED
    BY <2>1, <2>2, <2>3 DEF Between
<1>5. Singled(y) \subseteq DOMAIN SubSeq(s, a, b) /\ Singled(s) \subseteq DOMAIN s
  BY <1>2 DEF Singled
<1>6. Pick(y, Singled(y)) = Pick(s, Between(Singled(s), a, b))
  <2>1. a \in 1..Len(s)+1 /\ b \in 0..Len(s) /\ a <= b + 1
    BY <1>1
  <2>2. Pick(SubSeq(s, a, b), Singled(y)) = Pick(s, {i \in a..b : i - a + 1 \in Singled(y)})
    <3> DEFINE K == Singled(y)
    <3>1. K \subseteq DOMAIN SubSeq(s, a, b)
      BY <1>5
    <3> HIDE DEF K
    <3>2. Pick(SubSeq(s, a, b), K) = Pick(s, {i \in a..b : i - a + 1 \in K})
      BY <1>3, <2>1, <3>1, PickOfRange
    <3> QED
      BY <3>2 DEF K
  <2> QED
    BY <1>2, <1>4, <2>2
<1>7. Pick(s, Between(Singled(s), a, b)) \in SubSeqs(Pick(s, Singled(s)))
  BY <1>3, <1>5, PickWindow
<1>8. Pick(s, Singled(s)) \in Text
  BY <1>5, InkOfPick
<1> QED
  BY <1>6, <1>7, <1>8, SpacedPiece

\* A span begins and ends with ink, so there is nothing to strip off it, and it
\* is a span of the stripped text.
LEMMA SpanStripped ==
  ASSUME NEW y, NEW x \in Text, NEW a, NEW b, IsSpan(y, x, a, b)
  PROVE  Strip(y) = y /\ Strip(x) \in Text /\ \E c, d : IsSpan(y, Strip(x), c, d)
<1>1. /\ y \in Text /\ Len(y) = b - a + 1 /\ DOMAIN y = 1..b-a+1
      /\ \A m \in 1..b-a+1 : y[m] = x[m + a - 1]
      /\ a \in 1..Len(x) /\ b \in 1..Len(x) /\ a <= b /\ Len(x) \in Nat
  BY SpanChars
<1>2. a \in Inked(x) /\ b \in Inked(x) /\ y = SubSeq(x, a, b)
  BY DEF IsSpan
<1>3. Strip(y) = y
  <2> DEFINE n == b - a + 1
  <2>1. 1 \in 1..n /\ n \in 1..n /\ 1 + a - 1 = a /\ n + a - 1 = b
    BY <1>1
  <2>2. y[1] = x[a] /\ y[n] = x[b]
    BY <1>1, <2>1
  <2>3. 1 \in Inked(y) /\ n \in Inked(y)
    BY <1>1, <1>2, <2>1, <2>2 DEF Inked
  <2>4. PICK c, d \in Inked(y) :
           /\ c <= d /\ \A i \in Inked(y) : c <= i /\ i <= d
           /\ Strip(y) = SubSeq(y, c, d)
    BY <1>1, <2>3, StripIs
  <2>5. c \in 1..n /\ d \in 1..n
    BY <1>1 DEF Inked
  <2>6. c <= 1 /\ n <= d
    BY <2>3, <2>4
  <2>7. c = 1 /\ d = n
    BY <2>1, <2>5, <2>6
  <2>8. Strip(y) = SubSeq(y, 1, Len(y))
    BY <1>1, <2>4, <2>7
  <2>9. SubSeq(y, 1, Len(y)) = y
    BY <1>1 DEF Text
  <2> QED
    BY <2>8, <2>9
<1>4. PICK c, d \in Inked(x) :
         /\ c <= d /\ \A i \in Inked(x) : c <= i /\ i <= d
         /\ Strip(x) = SubSeq(x, c, d)
  BY <1>2, StripIs
<1>5. c <= a /\ b <= d
  BY <1>2, <1>4
<1> DEFINE s == Strip(x)
<1>6. IsSpan(s, x, c, d)
  BY <1>4 DEF IsSpan
<1>7. /\ s \in Text /\ Len(s) = d - c + 1 /\ DOMAIN s = 1..d-c+1
      /\ \A m \in 1..d-c+1 : s[m] = x[m + c - 1]
      /\ c \in 1..Len(x) /\ d \in 1..Len(x)
  BY <1>6, SpanChars
<1> HIDE DEF s
<1> DEFINE k == a - c + 1
           l == b - c + 1
<1>8. /\ k \in 1..d-c+1 /\ l \in 1..d-c+1 /\ k <= l
      /\ k + c - 1 = a /\ l + c - 1 = b /\ l - k + 1 = b - a + 1
  <2>1. a \in Int /\ b \in Int /\ c \in Int /\ d \in Int /\ a <= b
    BY <1>1, <1>7
  <2> QED
    BY <1>5, <2>1
<1> HIDE DEF k, l
<1>9. s[k] = x[a] /\ s[l] = x[b]
  BY <1>7, <1>8
<1>10. k \in Inked(s) /\ l \in Inked(s)
  BY <1>2, <1>7, <1>8, <1>9 DEF Inked
<1>11. y = SubSeq(s, k, l)
  <2> DEFINE v == SubSeq(s, k, l)
  <2>1. IsSpan(v, s, k, l)
    BY <1>8, <1>10 DEF IsSpan
  <2>2. /\ v \in Text /\ Len(v) = b - a + 1 /\ DOMAIN v = 1..b-a+1
        /\ \A m \in 1..b-a+1 : v[m] = s[m + k - 1]
    <3>0. s \in Text
      BY <1>7
    <3>1. /\ v \in Text /\ Len(v) = l - k + 1 /\ DOMAIN v = 1..l-k+1
          /\ \A m \in 1..l-k+1 : v[m] = s[m + k - 1]
      <4> HIDE DEF v
      <4>1. /\ v \in Text /\ Len(v) = l - k + 1 /\ DOMAIN v = 1..l-k+1
            /\ \A m \in 1..l-k+1 : v[m] = s[m + k - 1]
            /\ k \in 1..Len(s) /\ l \in 1..Len(s) /\ k <= l /\ Len(s) \in Nat
        BY <2>1, <3>0, SpanChars
      <4> QED
        BY <4>1
    <3> QED
      BY <1>8, <3>1
  <2> HIDE DEF v
  <2>3. ASSUME NEW m \in 1..b-a+1 PROVE v[m] = y[m]
    <3>1. m + k - 1 \in 1..d-c+1 /\ (m + k - 1) + c - 1 = m + a - 1
      <4>1. a \in Int /\ b \in Int /\ c \in Int /\ d \in Int
        BY <1>1, <1>7
      <4> QED
        BY <1>5, <4>1 DEF k
    <3>2. s[m + k - 1] = x[(m + k - 1) + c - 1]
      BY <1>7, <3>1
    <3> QED
      BY <1>1, <2>2, <3>1, <3>2
  <2>4. v = y
    BY <1>1, <2>2, <2>3 DEF Text
  <2> QED
    BY <2>4 DEF v
<1>12. IsSpan(y, s, k, l)
  BY <1>8, <1>10, <1>11 DEF IsSpan
<1> QED
  BY <1>3, <1>7, <1>12 DEF s

LEMMA CollapsePiece ==
  ASSUME NEW y, NEW x \in Text, NEW a, NEW b, IsSpan(y, x, a, b)
  PROVE  Collapse(y) \in SubSeqs(Collapse(x))
<1>1. Strip(y) = y /\ Strip(x) \in Text /\ \E c, d : IsSpan(y, Strip(x), c, d)
  BY SpanStripped
<1>2. Spaced(Pick(y, Singled(y))) \in SubSeqs(Spaced(Pick(Strip(x), Singled(Strip(x)))))
  BY <1>1, CollapsedSpan
<1> QED
  BY <1>1, <1>2 DEF Collapse, Singled, Spaced

\* A span of a piece is a span of the text, further on.
LEMMA SpanOfPiece ==
  ASSUME NEW t \in Text, NEW i \in DOMAIN t, NEW k \in DOMAIN t, i <= k,
         NEW y, NEW a, NEW b, IsSpan(y, SubSeq(t, i, k), a, b)
  PROVE  IsSpan(y, t, a + i - 1, b + i - 1) /\ b + i - 1 <= k
<1> DEFINE q == SubSeq(t, i, k)
<1>1. t \in Seq(Chars) /\ DOMAIN t = 1..Len(t) /\ Len(t) \in Nat
  BY DEF Text
<1>2. i \in 1..Len(t) /\ k \in 1..Len(t) /\ i \in Int /\ k \in Int
  BY <1>1
<1>3. /\ q \in Text /\ Len(q) = k - i + 1 /\ DOMAIN q = 1..k-i+1
      /\ \A m \in 1..k-i+1 : q[m] = t[m + i - 1]
  <2>1. \A m \in 1..k-i+1 : i + m - 1 = m + i - 1
    BY <1>2
  <2> QED
    BY <1>1, <1>2, <2>1, SubSeqProperties DEF Text
<1>4. IsSpan(y, q, a, b)
  OBVIOUS
<1> HIDE DEF q
<1>5. /\ y \in Text /\ Len(y) = b - a + 1 /\ DOMAIN y = 1..b-a+1
      /\ \A m \in 1..b-a+1 : y[m] = q[m + a - 1]
      /\ a \in 1..Len(q) /\ b \in 1..Len(q) /\ a <= b /\ Len(q) \in Nat
  BY <1>3, <1>4, SpanChars
<1> DEFINE c == a + i - 1
           d == b + i - 1
<1>6. a \in 1..k-i+1 /\ b \in 1..k-i+1 /\ a \in Int /\ b \in Int
  BY <1>3, <1>5
<1>7. c \in 1..Len(t) /\ d \in 1..Len(t) /\ c <= d /\ d <= k /\ d - c + 1 = b - a + 1
  <2>1. i >= 1 /\ k <= Len(t) /\ a <= b
    BY <1>2, <1>5
  <2> QED
    BY <1>1, <1>2, <1>6, <2>1
<1>8. q[a] = t[c] /\ q[b] = t[d]
  BY <1>3, <1>6
<1> HIDE DEF c, d
<1>9. c \in Inked(t) /\ d \in Inked(t)
  BY <1>1, <1>4, <1>7, <1>8 DEF IsSpan, Inked
<1> DEFINE v == SubSeq(t, c, d)
<1>10. IsSpan(v, t, c, d)
  BY <1>7, <1>9 DEF IsSpan
<1> HIDE DEF v
<1>11. /\ v \in Text /\ Len(v) = d - c + 1 /\ DOMAIN v = 1..d-c+1
       /\ \A m \in 1..d-c+1 : v[m] = t[m + c - 1]
       /\ c \in 1..Len(t) /\ d \in 1..Len(t) /\ c <= d /\ Len(t) \in Nat
  BY <1>10, SpanChars
<1>12. ASSUME NEW m \in 1..b-a+1 PROVE v[m] = y[m]
  <2>1. m + a - 1 \in 1..k-i+1 /\ (m + a - 1) + i - 1 = m + c - 1
    BY <1>2, <1>6 DEF c
  <2>2. q[m + a - 1] = t[(m + a - 1) + i - 1]
    BY <1>3, <2>1
  <2> QED
    BY <1>5, <1>7, <1>11, <2>1, <2>2
<1>13. v = y
  <2>1. DOMAIN v = 1..b-a+1
    BY <1>7, <1>11
  <2>2. v \in Seq(Chars) /\ y \in Seq(Chars)
    BY <1>5, <1>11 DEF Text
  <2>3. DOMAIN y = 1..b-a+1
    BY <1>5
  <2>4. v = [m \in 1..b-a+1 |-> v[m]]
    BY <2>1, <2>2
  <2>5. y = [m \in 1..b-a+1 |-> y[m]]
    BY <2>2, <2>3
  <2> QED
    BY <1>12, <2>4, <2>5, Zenon
<1> QED
  BY <1>7, <1>10, <1>13 DEF c, d

\* What a text is regrouped to is empty only if the text says nothing.
LEMMA RegroupedIsThere ==
  ASSUME NEW t \in Text, Inked(t) # {}
  PROVE  Regroup(t) # <<>>
<1>1. Regroup(t) \in Text /\ Ink(Regroup(t)) = Ink(t)
  BY RegroupKeepsInk
<1>2. Inked(Regroup(t)) # {}
  BY <1>1, InkIsThere
<1> QED
  BY <1>2 DEF Inked

\* Strip takes the white space off around a span that has all the ink.
LEMMA StripSpan ==
  ASSUME NEW u, NEW z \in Text, NEW c, NEW d, IsSpan(u, z, c, d),
         Encloses(z, c, d)
  PROVE  Strip(z) = u
<1>1. c \in Inked(z) /\ d \in Inked(z) /\ u = SubSeq(z, c, d)
  BY DEF IsSpan
<1>2. PICK a, b \in Inked(z) :
         /\ a <= b /\ \A i \in Inked(z) : a <= i /\ i <= b
         /\ Strip(z) = SubSeq(z, a, b)
  BY <1>1, StripIs
<1>3. a \in Int /\ b \in Int /\ c \in Int /\ d \in Int
  BY <1>1, <1>2 DEF Inked, Text
<1>4. a = c /\ b = d
  BY <1>1, <1>2, <1>3 DEF Encloses
<1> QED
  BY <1>1, <1>2, <1>4

\* A piece of a text with ink, before its first mark, is regrouped as it is there.
LEMMA RegroupPiece ==
  ASSUME NEW t \in Text, NEW i \in DOMAIN t, NEW k \in DOMAIN t,
         Inked(SubSeq(t, i, k)) # {}, \A n \in 1..k : t[n] \notin Marks
  PROVE  /\ Regroup(SubSeq(t, i, k)) # <<>>
         /\ Regroup(SubSeq(t, i, k)) \in SubSeqs(Regroup(t))
<1> DEFINE q == SubSeq(t, i, k)
           y == Strip(q)
<1>1. t \in Seq(Chars) /\ DOMAIN t = 1..Len(t) /\ Len(t) \in Nat /\ i \in Int /\ k \in Int
  BY DEF Text
<1>2. i <= k
  <2>1. SUFFICES ASSUME ~(i <= k) PROVE Inked(q) = {}
    OBVIOUS
  <2>2. q = <<>>
    BY <1>1, <2>1
  <2> QED
    BY <2>2 DEF Inked
<1>3. q \in Text /\ Inked(q) # {}
  BY <1>1, PieceIsText
<1>4. PICK a, b \in Inked(q) :
         /\ a <= b /\ \A n \in Inked(q) : a <= n /\ n <= b
         /\ Strip(q) = SubSeq(q, a, b)
  <2> HIDE DEF q
  <2> QED
    BY <1>3, StripIs
<1>5. IsSpan(y, q, a, b)
  BY <1>4 DEF IsSpan
<1> DEFINE c == a + i - 1
           d == b + i - 1
<1>6. IsSpan(y, t, c, d) /\ d <= k
  <2> HIDE DEF y
  <2> QED
    BY <1>2, <1>5, SpanOfPiece
<1>7. c \in 1..Len(t) /\ d \in 1..Len(t)
  <2> HIDE DEF y, c, d
  <2> QED
    BY <1>6, SpanChars
<1>8. \A n \in 1..d : t[n] \notin Marks
  <2>1. \A n \in 1..d : n \in 1..k
    BY <1>1, <1>6, <1>7
  <2> QED
    BY <2>1
<1>9. \A n \in 1..b : q[n] \notin Marks
  <2>1. i \in 1..Len(t) /\ k \in 1..Len(t)
    BY <1>1
  <2>2. /\ Len(q) = k - i + 1 /\ DOMAIN q = 1..k-i+1
        /\ \A n \in 1..k-i+1 : q[n] = t[i + n - 1]
    BY <1>1, <1>2, <2>1, SubSeqProperties
  <2>3. b \in 1..k-i+1
    <3> HIDE DEF q
    <3> QED
      BY <1>4, <2>2 DEF Inked
  <2>4. \A n \in 1..b : n \in 1..k-i+1 /\ i + n - 1 \in 1..k
    BY <2>1, <2>3
  <2> HIDE DEF q
  <2> QED
    BY <2>2, <2>4
<1> DEFINE u == Pick(y, DOMAIN y \ DigitGroupSpaces(y))
           x == Pick(t, DOMAIN t \ DigitGroupSpaces(t))
           z == Pick(q, DOMAIN q \ DigitGroupSpaces(q))
<1> HIDE DEF c, d, y, q
<1>10. x \in Text /\ \E e, f : IsSpan(u, x, e, f)
  BY <1>6, <1>8, GroupedSpan
<1>11. z \in Text /\ \E e, f : IsSpan(u, z, e, f) /\ Encloses(z, e, f)
  <2>1. Encloses(q, a, b)
    BY <1>4 DEF Encloses
  <2> QED
    BY <1>3, <1>5, <1>9, <2>1, GroupedSpan
<1>12. Regroup(q) = Collapse(z) /\ Regroup(t) = Collapse(x)
  BY DEF Regroup
<1> HIDE DEF u, x, z
<1>13. Strip(z) = u /\ Strip(u) = u
  BY <1>11, StripSpan, SpanStripped
<1>14. Collapse(z) = Collapse(u)
  BY <1>13 DEF Collapse
<1>15. Collapse(u) \in SubSeqs(Collapse(x))
  BY <1>10, CollapsePiece
<1>16. Regroup(q) # <<>>
  BY <1>3, RegroupedIsThere
<1> QED
  BY <1>12, <1>14, <1>15, <1>16 DEF q

\* What a character is joined to may be put before or after.
LEMMA JoinedAfter ==
  ASSUME NEW s \in Text, NEW h \in Text, h # <<>>, NEW p \in Text, p # <<>>
  PROVE  Joined(s \o h, p) = s \o Joined(h, p)
<1> DEFINE sh == s \o h
           c == Composes[<<Last(h), p[1]>>]
           o == IF h # <<>> /\ <<Last(h), p[1]>> \in DOMAIN Composes THEN 1 ELSE 0
           j == Joined(h, p)
           r == Joined(sh, p)
           v == s \o j
<1>1. /\ Len(s) \in Nat /\ Len(h) \in Nat \ {0} /\ Len(p) \in Nat \ {0}
      /\ s \in Seq(Chars) /\ h \in Seq(Chars)
  BY DEF Text
<1>2. /\ sh \in Text /\ Len(sh) = Len(s) + Len(h) /\ sh # <<>>
      /\ \A n \in 1..Len(sh) : sh[n] = IF n <= Len(s) THEN s[n] ELSE h[n - Len(s)]
  <2>1. sh \in Text /\ Len(sh) = Len(s) + Len(h)
        /\ \A n \in 1..Len(sh) : sh[n] = IF n <= Len(s) THEN s[n] ELSE h[n - Len(s)]
    BY <1>1 DEF Text
  <2> HIDE DEF sh
  <2>2. sh # <<>>
    BY <1>1, <2>1
  <2> QED
    BY <2>1, <2>2
<1> HIDE DEF sh
<1>3. Last(sh) = Last(h)
  <2>1. Len(sh) \in 1..Len(sh) /\ ~(Len(sh) <= Len(s)) /\ Len(sh) - Len(s) = Len(h)
    BY <1>1, <1>2
  <2> QED
    BY <1>2, <2>1 DEF Last
<1>4. /\ j \in Text /\ Len(j) = Len(h) + Len(p) - o
      /\ \A n \in 1..Len(j) :
            j[n] = IF n <= Len(h) - o THEN h[n]
                   ELSE IF o = 1 /\ n = Len(h) THEN c ELSE p[n - Len(h) + o]
  BY JoinedIs
<1>5. /\ r \in Text /\ Len(r) = Len(sh) + Len(p) - o
      /\ \A n \in 1..Len(r) :
            r[n] = IF n <= Len(sh) - o THEN sh[n]
                   ELSE IF o = 1 /\ n = Len(sh) THEN c ELSE p[n - Len(sh) + o]
  <2> DEFINE oo == IF sh # <<>> /\ <<Last(sh), p[1]>> \in DOMAIN Composes THEN 1 ELSE 0
             cc == Composes[<<Last(sh), p[1]>>]
  <2>1. oo = o /\ cc = c
    BY <1>2, <1>3
  <2>2. /\ r \in Text /\ Len(r) = Len(sh) + Len(p) - oo
        /\ \A n \in 1..Len(r) :
              r[n] = IF n <= Len(sh) - oo THEN sh[n]
                     ELSE IF oo = 1 /\ n = Len(sh) THEN cc ELSE p[n - Len(sh) + oo]
    BY <1>2, JoinedIs
  <2> HIDE DEF oo, cc, o, c, r
  <2> QED
    BY <2>1, <2>2
<1>6. o \in {0, 1}
  OBVIOUS
<1> HIDE DEF o, c, r, j
<1>7. /\ v \in Seq(Chars) /\ Len(v) = Len(s) + Len(j)
      /\ \A n \in 1..Len(v) : v[n] = IF n <= Len(s) THEN s[n] ELSE j[n - Len(s)]
  <2>1. s \in Seq(Chars) /\ j \in Seq(Chars)
    BY <1>1, <1>4 DEF Text
  <2> QED
    BY <2>1
<1> HIDE DEF v
<1>8. Len(v) = Len(r) /\ Len(v) \in Nat
  BY <1>1, <1>2, <1>4, <1>5, <1>6, <1>7
<1>9. ASSUME NEW n \in 1..Len(v) PROVE v[n] = r[n]
  <2>1. CASE n <= Len(s)
    <3>1. n \in 1..Len(sh) /\ n <= Len(sh) - o /\ n \in 1..Len(r)
      BY <1>1, <1>2, <1>6, <1>8, <2>1
    <3> QED
      BY <1>2, <1>5, <1>7, <2>1, <3>1
  <2>2. CASE ~(n <= Len(s))
    <3> DEFINE m == n - Len(s)
    <3>1. m \in 1..Len(j) /\ v[n] = j[m] /\ n \in 1..Len(r)
      BY <1>1, <1>4, <1>7, <1>8, <2>2
    <3>2. CASE m <= Len(h) - o
      <4>1. n <= Len(sh) - o /\ n \in 1..Len(sh)
        BY <1>1, <1>2, <1>6, <3>2
      <4>2. r[n] = h[m]
        BY <1>2, <1>5, <2>2, <3>1, <4>1
      <4> HIDE DEF m
      <4> QED
        BY <1>4, <3>1, <3>2, <4>2
    <3>3. CASE ~(m <= Len(h) - o)
      <4>1. ~(n <= Len(sh) - o) /\ (m = Len(h) <=> n = Len(sh))
            /\ m - Len(h) + o = n - Len(sh) + o
        BY <1>1, <1>2, <1>6, <3>3
      <4> HIDE DEF m
      <4> QED
        BY <1>4, <1>5, <3>1, <3>3, <4>1
    <3> QED
      BY <3>2, <3>3
  <2> QED
    BY <2>1, <2>2
<1>10. v = r
  <2>1. r \in Seq(Chars)
    BY <1>5 DEF Text
  <2> QED
    BY <1>7, <1>8, <1>9, <2>1
<1> QED
  BY <1>10 DEF v, r, j, sh

\* A text may be folded in two parts where no letter takes a mark over the cut.
Cut(g, t, k) == g[k] = <<>> \/ <<Last(g[k]), Folds[t[k + 1]][1]>> \notin DOMAIN Composes

Parted(g, t, k, m) ==
    LET u == SubSeq(t, k + 1, m)
    IN  Fold(u) \in Text /\ Fold(u) # <<>> /\ g[m] = g[k] \o Fold(u)

LEMMA FoldSplits ==
  ASSUME NEW t \in Text, NEW g, FoldScan(g, t), NEW k \in Nat, NEW m \in Nat,
         k < m, m <= Len(t), Cut(g, t, k)
  PROVE  Parted(g, t, k, m)
<1> DEFINE u == SubSeq(t, k + 1, m)
           n == m - k
<1>1. n \in Nat \ {0} /\ Len(t) \in Nat /\ k + n = m
  BY DEF Text
<1>2. /\ u \in Text /\ Len(u) = n /\ \A i \in 1..n : u[i] = t[k + i] /\ t[k + i] \in Chars
  <2>1. k + 1 \in 1..Len(t)+1 /\ m \in (k+1)-1..Len(t) /\ k + 1 \in Int /\ m \in Int
    BY <1>1
  <2>2. u \in Seq(Chars) /\ Len(u) = m - (k + 1) + 1
        /\ \A i \in 1..m-(k+1)+1 : u[i] = t[(k + 1) + i - 1]
    BY <1>1, <2>1, SubSeqProperties DEF Text
  <2>3. m - (k + 1) + 1 = n /\ \A i \in 1..n : (k + 1) + i - 1 = k + i /\ k + i \in 1..Len(t)
    BY <1>1
  <2> HIDE DEF u, n
  <2> QED
    BY <2>2, <2>3 DEF Text
<1> HIDE DEF u, n
<1>3. PICK h : FoldScan(h, u)
  BY <1>2, FoldScans
<1>4. /\ h \in [0..n -> Text] /\ h[0] = <<>> /\ Fold(u) = h[n]
      /\ \A i \in 1..n : h[i] = Joined(h[i - 1], Folds[u[i]])
  BY <1>2, <1>3 DEF FoldScan
<1>5. /\ g \in [0..Len(t) -> Text] /\ \A i \in 1..Len(t) : g[i] = Joined(g[i - 1], Folds[t[i]])
  BY DEF FoldScan
<1>6. \A i \in 0..n : g[k + i] \in Text
  BY <1>1, <1>5
<1> DEFINE Both(i) == g[k + i] = g[k] \o h[i] /\ h[i] # <<>>
           S == {i \in 0..n-1 : Both(i + 1)}
<1>7. 0 \in S
  <2> DEFINE p == Folds[t[k + 1]]
  <2>1. 1 \in 1..n /\ k + 1 \in 1..Len(t) /\ (k + 1) - 1 = k /\ 1 - 1 = 0
    BY <1>1
  <2>2. p \in Text /\ p # <<>>
    BY <1>2, <2>1, FoldsIs
  <2>3. h[1] = Joined(<<>>, p)
    BY <1>2, <1>4, <2>1
  <2>4. g[k + 1] = Joined(g[k], p)
    BY <1>5, <2>1
  <2>5. g[k] = <<>> \/ <<Last(g[k]), p[1]>> \notin DOMAIN Composes
    BY DEF Cut
  <2> HIDE DEF p
  <2>6. g[k + 1] = g[k] \o p
    BY <2>4, <2>5 DEF Joined
  <2>7. h[1] = p
    <3>1. <<>> \in Text
      BY DEF Text
    <3> QED
      BY <2>2, <2>3, <3>1, JoinedKeeps
  <2>8. Both(1)
    BY <2>2, <2>6, <2>7
  <2>9. 0 \in 0..n-1 /\ 0 + 1 = 1
    BY <1>1
  <2> HIDE DEF Both
  <2> QED
    BY <2>8, <2>9
<1>8. ASSUME NEW i \in 0..(n-1)-1, i \in S PROVE i + 1 \in S
  <2> DEFINE l == i + 1
             p == Folds[t[k + (l + 1)]]
  <2>1. l \in 0..n /\ l + 1 \in 1..n /\ (l + 1) - 1 = l /\ k + (l + 1) \in 1..Len(t)
        /\ (k + (l + 1)) - 1 = k + l /\ l \in 0..n-1
    BY <1>1
  <2>2. g[k + l] = g[k] \o h[l] /\ h[l] # <<>>
    BY <1>8
  <2> HIDE DEF l
  <2>3. p \in Text /\ p # <<>>
    BY <1>2, <2>1, FoldsIs
  <2>4. h[l + 1] = Joined(h[l], p)
    BY <1>2, <1>4, <2>1
  <2>5. g[k + (l + 1)] = Joined(g[k + l], p)
    BY <1>5, <2>1
  <2> HIDE DEF p
  <2>6. h[l] \in Text /\ g[k] \in Text
    <3>1. k \in 0..Len(t)
      BY <1>1
    <3> QED
      BY <1>4, <1>5, <2>1, <3>1
  <2>7. Joined(g[k] \o h[l], p) = g[k] \o Joined(h[l], p)
    BY <2>2, <2>3, <2>6, JoinedAfter
  <2>8. Joined(h[l], p) # <<>>
    BY <2>3, <2>6, JoinedKeeps
  <2>9. Both(l + 1)
    BY <2>2, <2>4, <2>5, <2>7, <2>8
  <2> HIDE DEF Both
  <2> QED
    BY <2>1, <2>9 DEF l
<1> HIDE DEF Both
<1>9. n - 1 \in S
  <2>1. n - 1 \in Nat /\ n - 1 \in 0..n-1
    BY <1>1
  <2> HIDE DEF S
  <2>2. 0..n-1 \subseteq S
    BY <1>7, <1>8, <2>1, CountUp
  <2> QED
    BY <2>1, <2>2
<1>10. Both(n)
  <2>1. (n - 1) + 1 = n
    BY <1>1
  <2> QED
    BY <1>9, <2>1
<1> QED
  BY <1>1, <1>2, <1>4, <1>10, FoldIsText DEF Both, Parted, u

\* White space folds to white space and takes no mark.
LEMMA WhiteFolds ==
  ASSUME NEW c \in White
  PROVE  /\ c \in Chars /\ ~Combines(c)
         /\ \A n \in DOMAIN Folds[c] : Folds[c][n] \in White
<1>1. c \in Chars /\ \A n \in DOMAIN Folds[c] : Folds[c][n] \in White
  BY QuotesAssumption
<1>2. Folds[c] \in Text /\ Folds[c] # <<>>
  BY <1>1, FoldsIs
<1>3. Folds[c][1] \in White
  BY <1>1, <1>2 DEF Text
<1>4. ASSUME NEW d \in Chars, <<d, Folds[c][1]>> \in DOMAIN Composes PROVE FALSE
  <2> DEFINE pair == <<d, Folds[c][1]>>
  <2>1. pair \in DOMAIN Composes
    BY <1>4
  <2> HIDE DEF pair
  <2>2. pair[2] \notin White
    BY <2>1, QuotesAssumption
  <2> QED
    BY <1>3, <2>2 DEF pair
<1> QED
  BY <1>1, <1>4 DEF Combines

\* Where a text may be cut.
LEMMA CutIsThere ==
  ASSUME NEW t \in Text, NEW g, FoldScan(g, t), NEW k \in Nat, k < Len(t),
         ~Combines(t[k + 1]) \/ (k > 0 /\ t[k] \in White)
  PROVE  Cut(g, t, k)
<1>1. /\ Len(t) \in Nat /\ k \in 0..Len(t) /\ k + 1 \in 1..Len(t)
      /\ g \in [0..Len(t) -> Text]
  BY DEF FoldScan, Text
<1>2. g[k] \in Text
  BY <1>1
<1>3. CASE ~Combines(t[k + 1])
  <2>1. g[k] # <<>> => Last(g[k]) \in Chars
    BY <1>2 DEF Last, Text
  <2> QED
    BY <1>3, <2>1 DEF Combines, Cut
<1>4. CASE k > 0 /\ t[k] \in White
  <2> DEFINE p == Folds[t[k]]
  <2>1. k \in 1..Len(t) /\ k - 1 \in 0..Len(t) /\ g[k - 1] \in Text
    BY <1>1, <1>4
  <2>2. g[k] = Joined(g[k - 1], p)
    BY <2>1 DEF FoldScan
  <2>3. /\ p \in Text /\ p # <<>> /\ ~Combines(t[k])
        /\ \A n \in DOMAIN p : p[n] \in White
    BY <1>4, WhiteFolds, FoldsIs
  <2>4. g[k - 1] # <<>> => Last(g[k - 1]) \in Chars
    BY <2>1 DEF Last, Text
  <2>5. g[k - 1] # <<>> => <<Last(g[k - 1]), p[1]>> \notin DOMAIN Composes
    BY <2>3, <2>4 DEF Combines
  <2> HIDE DEF p
  <2>6. g[k] = g[k - 1] \o p
    BY <2>2, <2>5 DEF Joined
  <2>7. Last(g[k]) = p[Len(p)] /\ Len(p) \in DOMAIN p
    BY <2>1, <2>3, <2>6 DEF Last, Text
  <2>8. Last(g[k]) \in White
    BY <2>3, <2>7
  <2> DEFINE pair == <<Last(g[k]), Folds[t[k + 1]][1]>>
  <2>9. ASSUME pair \in DOMAIN Composes PROVE FALSE
    <3> HIDE DEF pair
    <3>1. pair[1] \notin White
      BY <2>9, QuotesAssumption
    <3> QED
      BY <2>8, <3>1 DEF pair
  <2> QED
    BY <2>9 DEF Cut
<1> QED
  BY <1>3, <1>4

\* Folding makes no mark of what has none.
LEMMA FoldStaysClean ==
  ASSUME NEW t \in Text, NEW g, FoldScan(g, t), NEW k \in 0..Len(t),
         \A n \in 1..k : Clean(Folds[t[n]])
  PROVE  Clean(g[k])
<1> DEFINE S == {i \in 0..k : Clean(g[i])}
<1>1. /\ Len(t) \in Nat /\ k \in Nat /\ g \in [0..Len(t) -> Text] /\ g[0] = <<>>
      /\ \A i \in 1..Len(t) : g[i] = Joined(g[i - 1], Folds[t[i]]) /\ t[i] \in Chars
  BY DEF FoldScan, Text
<1>2. 0 \in S
  BY <1>1 DEF Clean
<1>3. ASSUME NEW i \in 0..k-1, i \in S PROVE i + 1 \in S
  <2> DEFINE p == Folds[t[i + 1]]
  <2>0. k <= Len(t) /\ Len(t) \in Nat /\ k \in Nat
    BY <1>1
  <2>01. i + 1 \in 1..k /\ i + 1 \in 1..Len(t) /\ (i + 1) - 1 = i /\ i + 1 \in 0..k
         /\ i \in 0..Len(t)
    BY <2>0
  <2>1. i + 1 \in 1..k /\ i + 1 \in 1..Len(t) /\ (i + 1) - 1 = i /\ g[i] \in Text /\ i + 1 \in 0..k
    BY <1>1, <2>01
  <2>2. p \in Text /\ p # <<>> /\ Clean(p)
    BY <1>1, <2>1, FoldsIs
  <2>3. g[i + 1] = Joined(g[i], p)
    BY <1>1, <2>1
  <2> HIDE DEF p
  <2>4. Clean(g[i + 1])
    BY <1>3, <2>1, <2>2, <2>3, JoinedKeeps
  <2> QED
    BY <2>1, <2>4
<1> HIDE DEF S
<1>4. 0..k \subseteq S
  BY <1>1, <1>2, <1>3, CountUp
<1> QED
  BY <1>1, <1>4 DEF S

\* What a text that begins with ink folds to has ink.
LEMMA FoldHasInk ==
  ASSUME NEW t \in Text, t # <<>>, t[1] \notin White
  PROVE  Inked(Fold(t)) # {}
<1>1. PICK g : FoldScan(g, t)
  BY FoldScans
<1>2. /\ Len(t) \in Nat \ {0} /\ g \in [0..Len(t) -> Text] /\ g[0] = <<>>
      /\ \A i \in 1..Len(t) : g[i] = Joined(g[i - 1], Folds[t[i]]) /\ t[i] \in Chars
      /\ Fold(t) = g[Len(t)]
  BY <1>1 DEF FoldScan, Text
<1> DEFINE S == {i \in 0..Len(t)-1 : Inked(g[i + 1]) # {}}
<1>3. 0 \in S
  <2> DEFINE p == Folds[t[1]]
  <2>1. 1 \in 1..Len(t) /\ 1 - 1 = 0 /\ t[1] \in Chars
    BY <1>2
  <2>2. p \in Text /\ p # <<>>
    BY <2>1, FoldsIs
  <2>3. PICK n \in DOMAIN p : p[n] \notin White
    BY <2>1, QuotesAssumption
  <2>4. g[1] = Joined(g[0], p)
    BY <1>2, <2>1
  <2> HIDE DEF p
  <2>5. g[1] = p
    <3>1. g[0] \in Text
      BY <1>2
    <3> QED
      BY <1>2, <2>2, <2>4, <3>1, JoinedKeeps
  <2>6. Inked(g[1]) # {}
    BY <2>3, <2>5 DEF Inked
  <2> QED
    BY <1>2, <2>6
<1>4. ASSUME NEW i \in 0..(Len(t)-1)-1, i \in S PROVE i + 1 \in S
  <2> DEFINE l == i + 1
             p == Folds[t[l + 1]]
  <2>1. l + 1 \in 1..Len(t) /\ (l + 1) - 1 = l /\ l \in 0..Len(t) /\ l \in 0..Len(t)-1
    BY <1>2
  <2>2. Inked(g[l]) # {}
    BY <1>4
  <2> HIDE DEF l
  <2>3. p \in Text /\ p # <<>>
    BY <1>2, <2>1, FoldsIs
  <2>4. g[l + 1] = Joined(g[l], p) /\ g[l] \in Text
    BY <1>2, <2>1
  <2> HIDE DEF p
  <2>5. Inked(g[l]) \subseteq Inked(g[l + 1])
    BY <2>3, <2>4, JoinedKeeps
  <2> QED
    BY <2>1, <2>2, <2>5 DEF l
<1> HIDE DEF S
<1>5. 0..Len(t)-1 \subseteq S
  <2>1. Len(t) - 1 \in Nat
    BY <1>2
  <2> QED
    BY <1>3, <1>4, <2>1, CountUp
<1>6. Len(t) - 1 \in S /\ (Len(t) - 1) + 1 = Len(t)
  BY <1>2, <1>5
<1> QED
  BY <1>2, <1>6 DEF S

\* A piece of a text before the text's first mark.
CleanPiece(x, f) ==
    /\ x \in Text
    /\ \E i, k \in DOMAIN f : x = SubSeq(f, i, k) /\ \A n \in 1..k : f[n] \notin Marks

\* A span of a text whose ends may be cut folds to a piece of what the text folds to.
LEMMA FoldOfSpan ==
  ASSUME NEW t \in Text, NEW c \in 1..Len(t), NEW d \in 1..Len(t), c <= d,
         ~Combines(t[c]) \/ (c > 1 /\ t[c - 1] \in White),
         d = Len(t) \/ ~Combines(t[d + 1]),
         \A n \in 1..d : Clean(Folds[t[n]])
  PROVE  CleanPiece(Fold(SubSeq(t, c, d)), Fold(t))
<1> DEFINE y == SubSeq(t, c, d)
           f == Fold(t)
<1>1. PICK g : FoldScan(g, t)
  BY FoldScans
<1>2. /\ Len(t) \in Nat /\ g \in [0..Len(t) -> Text] /\ f = g[Len(t)]
      /\ c \in Nat /\ d \in Nat /\ c - 1 \in Nat /\ (c - 1) + 1 = c /\ c - 1 < d
      /\ c - 1 < Len(t) /\ d <= Len(t) /\ (c > 1 <=> c - 1 > 0)
  BY <1>1 DEF FoldScan, Text
<1>3. Cut(g, t, c - 1)
  <2> DEFINE b == c - 1
  <2>1. b \in Nat /\ b < Len(t) /\ (~Combines(t[b + 1]) \/ (b > 0 /\ t[b] \in White))
    BY <1>2
  <2> HIDE DEF b
  <2>2. Cut(g, t, b)
    BY <1>1, <2>1, CutIsThere
  <2> QED
    BY <2>2 DEF b
<1> DEFINE h == g[c - 1]
           w == Fold(y)
           e == g[d]
<1>4. w \in Text /\ w # <<>> /\ e = h \o w
  <2> DEFINE b == c - 1
  <2>1. b \in Nat /\ b < d /\ d <= Len(t) /\ Cut(g, t, b) /\ b + 1 = c
    BY <1>2, <1>3
  <2> HIDE DEF b
  <2>2. Parted(g, t, b, d)
    BY <1>1, <1>2, <2>1, FoldSplits
  <2>3. w = Fold(SubSeq(t, b + 1, d)) /\ h = g[b]
    BY <2>1 DEF b
  <2> HIDE DEF h, w
  <2> QED
    BY <2>2, <2>3 DEF Parted
<1>5. \E v \in Text : f = e \o v
  <2>1. CASE d = Len(t)
    <3>1. e \in Seq(Chars) /\ f = e
      BY <1>2, <2>1 DEF Text
    <3> HIDE DEF e, f
    <3>2. f = e \o <<>> /\ <<>> \in Text
      BY <3>1 DEF Text
    <3> QED
      BY <3>2
  <2>2. CASE d # Len(t)
    <3>1. d < Len(t)
      BY <1>2, <2>2
    <3>2. Cut(g, t, d)
      BY <1>1, <1>2, <2>2, <3>1, CutIsThere
    <3>3. Parted(g, t, d, Len(t))
      BY <1>1, <1>2, <3>1, <3>2, FoldSplits
    <3> QED
      BY <1>2, <3>3 DEF Parted
  <2> QED
    BY <2>1, <2>2
<1>6. Clean(e)
  <2>1. d \in 0..Len(t)
    BY <1>2
  <2> QED
    BY <1>1, <2>1, FoldStaysClean
<1>7. h \in Text /\ e \in Text
  BY <1>2
<1> HIDE DEF h, w, e, f, y
<1>8. PICK v \in Text : f = e \o v
  BY <1>5
<1> DEFINE i == Len(h) + 1
           k == Len(e)
<1>9. /\ h \in Seq(Chars) /\ w \in Seq(Chars) /\ e \in Seq(Chars) /\ v \in Seq(Chars)
      /\ Len(h) \in Nat /\ Len(w) \in Nat \ {0} /\ Len(v) \in Nat
  BY <1>4, <1>7 DEF Text
<1>10. /\ Len(e) = Len(h) + Len(w)
       /\ \A n \in 1..Len(e) : e[n] = IF n <= Len(h) THEN h[n] ELSE w[n - Len(h)]
  BY <1>4, <1>9
<1>11. /\ f \in Seq(Chars) /\ Len(f) = Len(e) + Len(v)
       /\ \A n \in 1..Len(f) : f[n] = IF n <= Len(e) THEN e[n] ELSE v[n - Len(e)]
  BY <1>8, <1>9
<1>12. i \in 1..Len(f) /\ k \in 1..Len(f) /\ i <= k /\ DOMAIN f = 1..Len(f)
       /\ k - i + 1 = Len(w)
  BY <1>9, <1>10, <1>11
<1>13. SubSeq(f, i, k) = w
  <2> DEFINE z == SubSeq(f, i, k)
  <2>1. z \in Seq(Chars) /\ Len(z) = k - i + 1 /\ \A n \in 1..k-i+1 : z[n] = f[i + n - 1]
    BY <1>11, <1>12, SubSeqProperties
  <2> HIDE DEF z
  <2>2. ASSUME NEW n \in 1..Len(w) PROVE z[n] = w[n]
    <3>1. i + n - 1 = Len(h) + n /\ Len(h) + n \in 1..Len(e) /\ Len(h) + n \in 1..Len(f)
          /\ Len(h) + n <= Len(e) /\ ~(Len(h) + n <= Len(h)) /\ (Len(h) + n) - Len(h) = n
      BY <1>9, <1>10, <1>11
    <3>2. z[n] = f[Len(h) + n]
      BY <1>12, <2>1, <3>1
    <3> QED
      BY <1>10, <1>11, <3>1, <3>2
  <2>3. w \in Seq(Chars) /\ Len(z) = Len(w)
    BY <1>9, <1>12, <2>1
  <2>31. z \in Seq(Chars)
    BY <2>1
  <2>4. z = w
    BY <2>2, <2>3, <2>31
  <2> QED
    BY <2>4 DEF z
<1>14. \A n \in 1..k : f[n] \notin Marks
  <2>1. \A n \in 1..k : n \in 1..Len(f) /\ n <= Len(e) /\ n \in DOMAIN e
    BY <1>9, <1>10, <1>11
  <2> QED
    BY <1>6, <1>11, <2>1 DEF Clean
<1> HIDE DEF i, k
<1> QED
  BY <1>4, <1>12, <1>13, <1>14 DEF CleanPiece, w, f, y

\* A piece of the source with ink, before its first mark and cut where no letter
\* takes a mark, verifies as it stands.
LEMMA HonestSpan ==
  ASSUME NEW t \in Text, NEW i \in DOMAIN t, NEW k \in DOMAIN t,
         Inked(SubSeq(t, i, k)) # {}, Unquoted(SubSeq(t, 1, k)),
         ~Combines(t[i]), k = Len(t) \/ ~Combines(t[k + 1])
  PROVE  Verify(SubSeq(t, i, k), t).valid
<1> DEFINE q == SubSeq(t, i, k)
           y == Strip(q)
<1>1. t \in Seq(Chars) /\ DOMAIN t = 1..Len(t) /\ Len(t) \in Nat /\ i \in Int /\ k \in Int
  BY DEF Text
<1>2. i <= k
  <2>1. SUFFICES ASSUME ~(i <= k) PROVE Inked(q) = {}
    OBVIOUS
  <2>2. q = <<>>
    BY <1>1, <2>1
  <2> QED
    BY <2>2 DEF Inked
<1>3. q \in Text /\ Inked(q) # {}
  BY <1>1, PieceIsText
<1>4. PICK a, b \in Inked(q) :
         /\ a <= b /\ \A n \in Inked(q) : a <= n /\ n <= b
         /\ Strip(q) = SubSeq(q, a, b)
  <2> HIDE DEF q
  <2> QED
    BY <1>3, StripIs
<1>5. IsSpan(y, q, a, b)
  BY <1>4 DEF IsSpan
<1> DEFINE c == a + i - 1
           d == b + i - 1
<1>6. IsSpan(y, t, c, d) /\ d <= k
  <2> HIDE DEF y
  <2> QED
    BY <1>2, <1>5, SpanOfPiece
<1>7. c \in 1..Len(t) /\ d \in 1..Len(t) /\ c <= d /\ y = SubSeq(t, c, d) /\ y \in Text
      /\ t[c] \notin White /\ Len(y) = d - c + 1 /\ y[1] = t[c] /\ y # <<>>
  <2> HIDE DEF y, c, d
  <2>1. /\ y \in Text /\ Len(y) = d - c + 1
        /\ \A m \in 1..d-c+1 : y[m] = t[m + c - 1]
        /\ c \in 1..Len(t) /\ d \in 1..Len(t) /\ c <= d
    BY <1>6, SpanChars
  <2>2. 1 \in 1..d-c+1 /\ 1 + c - 1 = c
    BY <1>1, <2>1
  <2>3. y[1] = t[c]
    BY <2>1, <2>2
  <2>4. y = SubSeq(t, c, d) /\ t[c] \notin White
    BY <1>6 DEF IsSpan, Inked
  <2>5. Len(y) # 0
    BY <1>1, <2>1
  <2>6. y # <<>>
    BY <2>5
  <2> QED
    BY <2>1, <2>3, <2>4, <2>6
<1>8. /\ \A n \in 1..k-i+1 : q[n] = t[i + n - 1]
      /\ DOMAIN q = 1..k-i+1 /\ i \in 1..Len(t) /\ k \in 1..Len(t)
  BY <1>1, <1>2, SubSeqProperties
<1>9. a \in 1..k-i+1 /\ b \in 1..k-i+1
  BY <1>8 DEF Inked
<1>10. ~Combines(t[c]) \/ (c > 1 /\ t[c - 1] \in White)
  <2>1. CASE c = i
    BY <2>1
  <2>2. CASE c # i
    <3>1. a - 1 \in 1..k-i+1 /\ i + (a - 1) - 1 = c - 1 /\ c > 1 /\ ~(a <= a - 1)
      <4>1. a \in Int /\ i \in Int /\ k \in Int /\ 1 <= a /\ a <= k - i + 1 /\ 1 <= i
        BY <1>1, <1>8, <1>9
      <4>2. a # 1
        BY <2>2, <4>1
      <4> QED
        BY <4>1, <4>2
    <3>2. q[a - 1] \in White
      <4>1. a - 1 \notin Inked(q)
        BY <1>4, <3>1
      <4> QED
        BY <1>8, <3>1, <4>1 DEF Inked
    <3> QED
      BY <1>8, <3>1, <3>2
  <2> QED
    BY <2>1, <2>2
<1>11. d = Len(t) \/ ~Combines(t[d + 1])
  <2>1. CASE d = k
    BY <2>1
  <2>2. CASE d # k
    <3>1. b + 1 \in 1..k-i+1 /\ i + (b + 1) - 1 = d + 1 /\ ~(b + 1 <= b)
      <4>1. b \in Int /\ i \in Int /\ k \in Int /\ 1 <= b /\ b <= k - i + 1 /\ 1 <= i
        BY <1>1, <1>8, <1>9
      <4>2. b # k - i + 1
        BY <2>2, <4>1
      <4> QED
        BY <4>1, <4>2
    <3>2. q[b + 1] \in White
      <4>1. b + 1 \notin Inked(q)
        BY <1>4, <3>1
      <4> QED
        BY <1>8, <3>1, <4>1 DEF Inked
    <3> QED
      BY <1>8, <3>1, <3>2, WhiteFolds
  <2> QED
    BY <2>1, <2>2
<1>12. \A n \in 1..d : Clean(Folds[t[n]])
  <2>1. \A n \in 1..d : n \in 1..k
    BY <1>6, <1>7, <1>8
  <2>2. ASSUME NEW n \in 1..k PROVE Clean(Folds[t[n]])
    <3>1. /\ n \in DOMAIN SubSeq(t, 1, k) /\ SubSeq(t, 1, k)[n] = t[n]
      BY <1>1, <1>8
    <3> QED
      BY <3>1 DEF Unquoted, Clean
  <2> QED
    BY <2>1, <2>2
<1> HIDE DEF c, d, y, q
<1>13. y[1] \notin Marks
  <2>1. c \in 1..d /\ t[c] \in Chars
    BY <1>1, <1>7
  <2>2. t[c] \in Marks => Folds[t[c]] = <<t[c]>>
    BY <2>1, QuotesAssumption
  <2>3. <<t[c]>>[1] = t[c] /\ 1 \in DOMAIN <<t[c]>>
    OBVIOUS
  <2>4. Clean(Folds[t[c]])
    BY <1>12, <2>1
  <2>5. t[c] \notin Marks
    BY <2>2, <2>3, <2>4 DEF Clean
  <2> QED
    BY <1>7, <2>5
<1>14. StripWrapping(q) = y
  BY <1>13 DEF StripWrapping, y
<1> DEFINE f == Fold(t)
<1>15. PICK m, n \in DOMAIN f :
          /\ Fold(y) = SubSeq(f, m, n) /\ Fold(y) \in Text
          /\ \A l \in 1..n : f[l] \notin Marks
  <2>1. CleanPiece(Fold(y), f)
    BY <1>7, <1>10, <1>11, <1>12, FoldOfSpan
  <2> QED
    BY <2>1 DEF CleanPiece
<1>16. Inked(Fold(y)) # {}
  BY <1>7, FoldHasInk
<1>17. f \in Text
  BY FoldIsText
<1> HIDE DEF f
<1>18. Regroup(Fold(y)) # <<>> /\ Regroup(Fold(y)) \in SubSeqs(Regroup(f))
  BY <1>15, <1>16, <1>17, RegroupPiece
<1>19. Inked(t) # {}
  BY <1>6 DEF IsSpan
<1>20. Verify(q, t).valid
  BY <1>14, <1>18, <1>19 DEF Verify, Appears, Haystack, Normalize, f
<1> QED
  BY <1>20 DEF q

\* What a judgment that is no abstention must be: cited in the description.
IsCited(j, d) ==
    /\ Len(d) >= EvidenceMin
    /\ Ink(Fold(j.quote)) # <<>> /\ Ink(Fold(j.quote)) \in SubSeqs(Ink(Fold(d)))

Findings == {Abstention} \cup {Accepted(q) : q \in Text}

Judging ==
    /\ description \in Descriptions
    /\ judging \in Nat
    /\ judgments \in Seq(Findings)
    /\ judging > 0 => ~Thin
    /\ \A j \in DOMAIN judgments :
          ~judgments[j].abstained => IsCited(judgments[j], description)

LEMMA PublishIsCited ==
  ASSUME Judging, description' = description,
         NEW j \in Findings, ~j.abstained => IsCited(j, description), Publish(j)
  PROVE  Judging'
<1>1. judgments' = Append(judgments, j) /\ judging' = 0 /\ judgments \in Seq(Findings)
  BY DEF Publish, Judging
<1>2. /\ judgments' \in Seq(Findings)
      /\ DOMAIN judgments' = DOMAIN judgments \cup {Len(judgments) + 1}
      /\ \A m \in DOMAIN judgments : judgments'[m] = judgments[m]
      /\ judgments'[Len(judgments) + 1] = j
  BY <1>1
<1>3. ASSUME NEW m \in DOMAIN judgments', ~judgments'[m].abstained
      PROVE  IsCited(judgments'[m], description')
  BY <1>2, <1>3 DEF Judging
<1> QED
  BY <1>1, <1>2, <1>3 DEF Judging

LEMMA JudgingGoesOn ==
  ASSUME Judging, [Next]_vars
  PROVE  Judging'
<1>1. description \in Text /\ EvidenceMin \in Nat /\ Len(description) \in Nat
  BY DocketAssumption DEF Judging, Text
<1>2. Thin <=> ~(Len(description) >= EvidenceMin)
  BY <1>1 DEF Thin
<1>3. Abstention \in Findings /\ Abstention.abstained
  BY DEF Findings, Abstention
<1>4. ASSUME description' = description, judgments' = judgments, judging' \in {judging, 0}
      PROVE  Judging'
  BY <1>4 DEF Judging, Thin
<1>5. CASE Judge
  <2>1. description' = description
    BY <1>5 DEF Judge, Unjudged, worldVars
  <2>2. CASE Thin
    BY <1>3, <1>5, <2>1, <2>2, PublishIsCited DEF Judge
  <2>3. CASE ~Thin
    BY <1>5, <2>1, <2>3 DEF Judge, Judging, Thin
  <2> QED
    BY <2>2, <2>3
<1>6. CASE Declines
  BY <1>3, <1>6, PublishIsCited DEF Declines, Unjudged, worldVars
<1>7. ASSUME NEW q \in Replies, Reply(q)
      PROVE  Judging'
  <2>1. description' = description /\ judging > 0 /\ ~Thin
    BY <1>7 DEF Reply, Unjudged, worldVars, Judging
  <2>2. CASE Verify(q, description).valid
    <3> DEFINE p == Verify(q, description).quote
    <3>1. q \in Text
      BY DocketAssumption DEF Text
    <3>2. p \in Text /\ Ink(Fold(p)) # <<>>
           /\ Ink(Fold(p)) \in SubSeqs(Ink(Fold(description)))
      BY <1>1, <2>2, <3>1, VerifiedIsCited
    <3>3. Publish(Accepted(p))
      BY <1>7, <2>2 DEF Reply
    <3> HIDE DEF p
    <3>4. Accepted(p) \in Findings /\ IsCited(Accepted(p), description)
      BY <1>2, <2>1, <3>2 DEF Findings, Accepted, IsCited
    <3> QED
      BY <2>1, <3>3, <3>4, PublishIsCited
  <2>3. CASE ~Verify(q, description).valid /\ judging < MaxAttempts
    BY <1>7, <2>1, <2>3 DEF Reply, Judging, Thin
  <2>4. CASE ~Verify(q, description).valid /\ ~(judging < MaxAttempts)
    <3>1. Publish(Abstention)
      BY <1>7, <2>4 DEF Reply
    <3> QED
      BY <1>3, <2>1, <3>1, PublishIsCited
  <2> QED
    BY <2>2, <2>3, <2>4
<1>8. ASSUME NEW r \in Routes,
             (\E j \in DOMAIN judgments : Ask(r, j)) \/ Start(r) \/ Call(r) \/ CallFails(r)
      PROVE  Judging'
  BY <1>4, <1>8 DEF Ask, Start, Call, CallFails, deskVars, worldVars
<1>9. CASE SubstrateFlips
  BY <1>4, <1>9 DEF SubstrateFlips, deskVars, worldVars
<1>10. CASE Restart
  BY <1>4, <1>10 DEF Restart
<1>11. CASE \E i \in DOMAIN chain : Edit(i)
  BY <1>4, <1>11 DEF Edit, deskVars, worldVars
<1>12. CASE UNCHANGED vars
  BY <1>4, <1>12 DEF vars
<1> QED
  BY <1>5, <1>6, <1>7, <1>8, <1>9, <1>10, <1>11, <1>12 DEF Next

\* For any descriptions, replies, retries, restarts and failing calls: a finding
\* docket publishes is cited, ink for ink as NFKC folds both, in a description long
\* enough to judge, and no span of the description copied as it stands before its
\* first quotation mark, and cut off before no combining mark, is turned away
\* (quotes.py, verify_quote).
THEOREM QuotesStaySound == Spec => []QuotesAreSound
<1>1. Init => Judging
  BY DEF Init, Judging
<1>2. Judging /\ [Next]_vars => Judging'
  BY JudgingGoesOn
<1>3. ASSUME Judging
      PROVE  QuotesAreSound
  <2>1. PublishedIsCited
    BY <1>3, DocketAssumption DEF Judging, IsCited, PublishedIsCited, Thin
  <2>2. HonestSpanAccepted
    <3>1. description \in Descriptions /\ description \in Text
      BY <1>3, DocketAssumption DEF Judging, Text
    <3>2. ASSUME NEW i \in DOMAIN description, NEW k \in DOMAIN description,
                 Inked(SubSeq(description, i, k)) # {},
                 Unquoted(SubSeq(description, 1, k)), ~Combines(description[i]),
                 k = Len(description) \/ ~Combines(description[k + 1])
          PROVE  Verify(SubSeq(description, i, k), description).valid
      BY <3>1, <3>2, HonestSpan
    <3> QED
      BY <3>1, <3>2 DEF HonestSpanAccepted, SpansVerify
  <2> QED
    BY <2>1, <2>2 DEF QuotesAreSound
<1> QED
  BY <1>1, <1>2, <1>3, PTL DEF Spec

=============================================================================
