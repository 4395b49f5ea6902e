---------------------------- MODULE SignetProofs ----------------------------
(***************************************************************************)
(* Theorems about Signet, for any number of people, logins, requests at    *)
(* once, keys, failed writes and restarts.                                 *)
(*                                                                         *)
(* A session is minted several steps after its login was taken, so the     *)
(* invariant follows the request that took it: Once says that a login is   *)
(* either pending, or carried by one request, or over; Truthful says what  *)
(* a request knows of whom it carries at each stage; KeysAge relates the   *)
(* age of the cached key set to when the provider dropped a key.           *)
(***************************************************************************)
EXTENDS Signet, SequenceTheorems, WellFoundedInduction, TLAPS

Codes == [login : Logins, user : Users]
AliasesOf(u) == {Aliases[u][i] : i \in DOMAIN Aliases[u]}

Changes == {"role"} \X Roles \cup {"global_role"} \X GlobalRoles

Exchanging == [at : {"exchange"}, login : Logins, code : Codes]
Verifying == [at : {"verify"}, login : Logins, user : Users, nonce : Logins, key : Keys]
Resolving == [at : {"resolve"}, login : Logins, user : Users, key : Keys]
Copying == [at : {"copy"}, login : Logins \cup {None}, user : Users \cup {None},
            subject : Subjects, set : Changes \cup {None}]
Saving == [at : {"save"}, login : Logins \cup {None}, user : Users \cup {None},
           subject : Subjects, set : Changes \cup {None}, copy : Table]

Requests == {Idle} \cup Exchanging \cup Verifying \cup Resolving \cup Copying \cup Saving

Shape ==
    /\ TypeOK
    /\ now \in 0..MaxNow /\ failures \in Nat /\ restarts \in Nat
    /\ thread \in [Threads -> Requests]

Carries(t, l) == thread[t].at # "idle" /\ thread[t].login = l

\* A login is pending, or carried by one request, or over.
Once ==
    \A l \in Logins :
        /\ issued[l] \in 0..1
        /\ l \notin begun => pending[l] = None /\ issued[l] = 0
        /\ pending[l] # None => issued[l] = 0
        /\ \A t \in Threads : Carries(t, l) =>
              /\ l \in begun /\ issued[l] = 0 /\ pending[l] = None
              /\ \A u \in Threads : Carries(u, l) => u = t

\* What a request knows of the person it carries.
Honest(x) ==
    /\ x.at = "exchange" => x.code \in codes
    /\ x.at = "verify" => [login |-> x.nonce, user |-> x.user] \in codes
    /\ x.at = "resolve" => [login |-> x.login, user |-> x.user] \in codes
    /\ x.at \in {"copy", "save"} /\ x.set = None =>
          /\ x.login \in Logins /\ x.user \in Users
          /\ [login |-> x.login, user |-> x.user] \in codes
          /\ x.subject \in AliasesOf(x.user)
    /\ x.at = "save" /\ x.set # None => x.copy[x.subject] # None

Truthful == SessionNamesItsUser /\ \A t \in Threads : Honest(thread[t])

KeysAge ==
    /\ \A k \in Keys : k >= published => retired[k] = None
    /\ \A k \in jwks.keys : retired[k] = None \/ jwks.at <= retired[k]

Inv == Shape /\ Once /\ Truthful /\ KeysAge

-----------------------------------------------------------------------------
(* Helpers.                                                                *)

LEMMA AliasesAreSubjects ==
    ASSUME NEW u \in Users PROVE AliasesOf(u) \subseteq Subjects
<1>1. Aliases[u] \in Seq(Subjects)
  BY SignetConstants
<1> QED BY <1>1 DEF AliasesOf

LEMMA Numbers ==
    Keys \subseteq Nat /\ 1 \in Keys /\ MaxNow \in Nat /\ MaxFailures \in Nat /\ TTL \in Nat
BY SignetConstants, Zenon

LEMMA LeastExists ==
    ASSUME NEW S, S \subseteq Nat, S # {}
    PROVE  \E n \in S : \A m \in S : n <= m
<1>1. \E n \in S : \A m \in S : ~(<<m, n>> \in OpToRel(<, Nat))
  BY NatLessThanWellFounded, WFMin, Zenon
<1>2. ASSUME NEW m \in Nat, NEW n \in Nat, m < n
      PROVE  <<m, n>> \in OpToRel(<, Nat)
  <2>1. <<m, n>> \in {ss \in Nat \X Nat : ss[1] < ss[2]}
    BY <1>2
  <2> QED BY <2>1, Zenon DEF OpToRel
<1>3. PICK n \in S : \A m \in S : ~(<<m, n>> \in OpToRel(<, Nat))
  BY <1>1
<1>4. \A m \in S : ~(m < n)
  BY <1>2, <1>3, Zenon
<1> QED BY <1>4

\* The first known alias is an alias, and so is the first of all.
LEMMA SubjectIsAnAlias ==
    ASSUME NEW t, NEW u \in Users PROVE SubjectFor(t, u) \in AliasesOf(u)
<1> DEFINE known == {i \in DOMAIN Aliases[u] : t[Aliases[u][i]] # None}
<1>1. Aliases[u] \in Seq(Subjects) /\ Aliases[u] # <<>>
  BY SignetConstants
<1>2. DOMAIN Aliases[u] \subseteq Nat /\ 1 \in DOMAIN Aliases[u]
  <2>1. DOMAIN Aliases[u] = 1..Len(Aliases[u]) /\ Len(Aliases[u]) \in Nat
    BY <1>1
  <2>2. Len(Aliases[u]) # 0
    BY <1>1, EmptySeq
  <2> QED BY <2>1, <2>2
<1>3. CASE known = {}
  BY <1>2, <1>3 DEF SubjectFor, AliasesOf
<1>4. CASE known # {}
  <2>1. \E i \in known : \A j \in known : i <= j
    BY <1>2, <1>4, LeastExists
  <2> DEFINE first == CHOOSE i \in known : \A j \in known : i <= j
  <2>2. first \in known
    BY <2>1
  <2>3. SubjectFor(t, u) = Aliases[u][first]
    BY <1>4 DEF SubjectFor
  <2>4. first \in DOMAIN Aliases[u]
    BY <2>2
  <2> QED BY <2>3, <2>4 DEF AliasesOf
<1> QED BY <1>3, <1>4

\* Which record a request is follows from where it is.
LEMMA KindsOfRequest ==
    ASSUME NEW x \in Requests
    PROVE  /\ x.at = "idle" => x = Idle
           /\ x.at = "exchange" => x \in Exchanging
           /\ x.at = "verify" => x \in Verifying
           /\ x.at = "resolve" => x \in Resolving
           /\ x.at = "copy" => x \in Copying
           /\ x.at = "save" => x \in Saving
BY DEF Requests, Idle, Exchanging, Verifying, Resolving, Copying, Saving

LEMMA RowsChangeInTable ==
    ASSUME NEW t \in Table, NEW s \in Subjects PROVE Ensured(t, s) \in Table
BY DEF Table, Ensured, NewRow, Row, Roles, GlobalRoles

\* One field of one row.
LEMMA FieldChangesInTable ==
    ASSUME NEW t \in Table, NEW s \in Subjects, t[s] # None, NEW c \in Changes
    PROVE  [t EXCEPT ![s] = [@ EXCEPT ![c[1]] = c[2]]] \in Table
<1> DEFINE r == [t[s] EXCEPT ![c[1]] = c[2]]
<1>1. t[s] \in Row
  BY DEF Table
<1>2. CASE c \in {"role"} \X Roles
  <2>1. c[1] = "role" /\ c[2] \in Roles
    BY <1>2
  <2>2. r = [t[s] EXCEPT !["role"] = c[2]]
    BY <2>1
  <2> QED BY <1>1, <2>1, <2>2 DEF Row, Table
<1>3. CASE c \in {"global_role"} \X GlobalRoles
  <2>1. c[1] = "global_role" /\ c[2] \in GlobalRoles
    BY <1>3
  <2>2. r = [t[s] EXCEPT !["global_role"] = c[2]]
    BY <2>1
  <2> QED BY <1>1, <2>1, <2>2 DEF Row, Table
<1> QED BY <1>2, <1>3 DEF Changes

\* An administrator's change is told from None, which marks a sign-in.
LEMMA ChangeIsNotNone == \A c \in Changes : c # None
BY SignetConstants DEF Changes, Roles, GlobalRoles

-----------------------------------------------------------------------------
(* The steps that serve no request.                                        *)

LEMMA Initially == Init => Inv
<1> SUFFICES ASSUME Init PROVE Inv
  OBVIOUS
<1>1. Shape
  <2>1. Defaults \in Table
    BY SignetConstants DEF Table, Row, Roles, GlobalRoles
  <2>2. thread \in [Threads -> Requests]
    BY DEF Init, Requests
  <2>3. /\ now = 0 /\ MaxNow \in Nat /\ 0 \in 0..MaxNow /\ failures = 0
        /\ restarts = 0
        /\ 0 \in 0..now /\ {} \subseteq Keys /\ 1 \in Keys
    BY Numbers DEF Init
  <2>4. TypeOK
    BY <2>1, <2>3 DEF Init, TypeOK
  <2> QED BY <2>2, <2>3, <2>4 DEF Shape
<1>2. Once
  <2>1. \A t \in Threads : thread[t].at = "idle"
    BY DEF Init, Idle
  <2>2. \A l \in Logins : pending[l] = None /\ issued[l] = 0
    BY DEF Init
  <2> QED BY <2>1, <2>2 DEF Once, Carries
<1>3. Truthful
  BY DEF Init, Truthful, SessionNamesItsUser, Honest, Idle
<1>4. KeysAge
  BY DEF Init, KeysAge
<1> QED BY <1>1, <1>2, <1>3, <1>4 DEF Inv

LEMMA BeginKeeps ==
    ASSUME Inv, NEW l \in Logins, Begin(l) PROVE Inv'
<1> USE DEF Inv, Begin
<1>1. Shape'
  BY DEF Shape, TypeOK, store
<1>2. Once'
  BY DEF Once, Carries, Shape, TypeOK
<1>3. Truthful'
  BY DEF Truthful, SessionNamesItsUser, Honest
<1>4. KeysAge'
  BY DEF KeysAge
<1> QED BY <1>1, <1>2, <1>3, <1>4

LEMMA AuthenticateKeeps ==
    ASSUME Inv, NEW l \in Logins, NEW u \in Users, Authenticate(l, u) PROVE Inv'
<1> USE DEF Inv, Authenticate
<1>1. Shape'
  BY DEF Shape, TypeOK, store
<1>2. Once'
  BY DEF Once, Carries
<1>3. Truthful'
  BY DEF Truthful, SessionNamesItsUser, Honest
<1>4. KeysAge'
  BY DEF KeysAge
<1> QED BY <1>1, <1>2, <1>3, <1>4

LEMMA RotateKeeps == ASSUME Inv, Rotate PROVE Inv'
<1> USE DEF Inv, Rotate
<1>1. Shape'
  BY DEF Shape, TypeOK, store
<1>2. Once'
  BY DEF Once, Carries
<1>3. Truthful'
  BY DEF Truthful, SessionNamesItsUser, Honest
<1>4. KeysAge'
  <2>1. /\ published \in Nat /\ Keys \subseteq Nat /\ now \in Nat /\ jwks.at \in Nat
        /\ jwks.at <= now /\ jwks.keys \subseteq Keys
    BY Numbers DEF Shape, TypeOK
  <2>2. \A k \in Keys : retired'[k] = IF k = published THEN now ELSE retired[k]
    BY DEF Shape, TypeOK
  <2>3. \A k \in Keys : k >= published' => retired'[k] = None
    <3>1. \A k \in Keys : k >= published + 1 => k >= published /\ k # published
      BY <2>1
    <3> QED BY <2>2, <3>1 DEF KeysAge
  <2>4. \A k \in jwks.keys : retired'[k] = None \/ jwks.at <= retired'[k]
    BY <2>1, <2>2 DEF KeysAge
  <2> QED BY <2>3, <2>4 DEF KeysAge
<1> QED BY <1>1, <1>2, <1>3, <1>4

LEMMA TickKeeps == ASSUME Inv, Tick PROVE Inv'
<1> USE DEF Inv, Tick
<1>1. Shape'
  <2>1. now' \in 0..MaxNow /\ \A n \in 0..now : n \in 0..now'
    BY Numbers DEF Shape
  <2> QED BY <2>1 DEF Shape, TypeOK, store, provider
<1>2. Once'
  BY DEF Once, Carries, provider
<1>3. Truthful'
  BY DEF Truthful, SessionNamesItsUser, Honest, provider
<1>4. KeysAge'
  BY DEF KeysAge, provider
<1> QED BY <1>1, <1>2, <1>3, <1>4

LEMMA RestartKeeps == ASSUME Inv, Restart PROVE Inv'
<1> USE DEF Inv, Restart
<1>1. Shape'
  <2>1. 0 \in 0..now /\ {} \subseteq Keys
    BY Numbers DEF Shape
  <2>2. thread' \in [Threads -> Requests]
    BY DEF Requests
  <2>3. pending' \in [Logins -> 0..MaxNow \cup {None}]
    OBVIOUS
  <2> QED BY <2>1, <2>2, <2>3 DEF Shape, TypeOK, provider, Loaded
<1>2. Once'
  BY DEF Once, Carries, Idle, provider
<1>3. Truthful'
  BY DEF Truthful, SessionNamesItsUser, Honest, Idle, provider
<1>4. KeysAge'
  BY DEF KeysAge, provider
<1> QED BY <1>1, <1>2, <1>3, <1>4

LEMMA StutterKeeps == ASSUME Inv, UNCHANGED vars PROVE Inv'
BY DEF Inv, vars, Shape, TypeOK, Once, Carries, Truthful, SessionNamesItsUser,
       Honest, KeysAge

-----------------------------------------------------------------------------
(* The steps of a request.  Only thread[t] moves.                          *)

LEMMA CallbackKeeps ==
    ASSUME Inv, NEW t \in Threads, NEW l \in Logins, NEW c \in codes, Callback(t, l, c)
    PROVE  Inv'
<1> DEFINE y == [at |-> "exchange", login |-> l, code |-> c]
<1> USE DEF Inv
<1>1. /\ thread' = [thread EXCEPT ![t] = y] /\ thread[t] = Idle
      /\ pending' = [pending EXCEPT ![l] = None] /\ pending[l] # None
      /\ UNCHANGED <<store, provider, jwks, sessions, issued, now, restarts>>
  BY DEF Callback, Taken, Alive
<1>2. y \in Exchanging
  <2>1. c \in Codes
    BY DEF Shape, TypeOK, Codes
  <2> QED BY <2>1 DEF Exchanging
<1>3. Shape'
  <2>1. thread' \in [Threads -> Requests]
    BY <1>1, <1>2 DEF Shape, Requests
  <2> QED BY <1>1, <2>1 DEF Shape, TypeOK, store, provider
<1>4. Once'
  <2>1. \A u \in Threads, m \in Logins :
           Carries(u, m)' <=> (u = t /\ m = l) \/ (u # t /\ Carries(u, m))
    BY <1>1 DEF Carries, Shape
  <2>2. l \in begun /\ issued[l] = 0 /\ \A u \in Threads : ~Carries(u, l)
    BY <1>1 DEF Once
  <2> QED BY <1>1, <2>1, <2>2 DEF Once, Shape, TypeOK, provider
<1>5. Truthful'
  <2>1. Honest(y)'
    BY <1>1 DEF Honest, provider
  <2> QED BY <1>1, <2>1 DEF Truthful, SessionNamesItsUser, Honest, Shape, provider
<1>6. KeysAge'
  BY <1>1 DEF KeysAge, provider
<1> QED BY <1>3, <1>4, <1>5, <1>6

\* A request that moves to a later stage, y, with the login it has, or ends.
LEMMA StageKeeps ==
    ASSUME Inv, NEW t \in Threads, NEW y \in Requests,
           thread' = [thread EXCEPT ![t] = y], Honest(y),
           thread[t].at # "idle", y.at # "idle" => y.login = thread[t].login,
           UNCHANGED <<store, pending, provider, sessions, issued, now, restarts>>,
           jwks' = jwks \/ jwks' = [keys |-> {published}, at |-> now]
    PROVE  Inv'
<1> USE DEF Inv
<1>1. Shape'
  <2>1. thread' \in [Threads -> Requests]
    BY DEF Shape
  <2>2. jwks'.keys \subseteq Keys /\ jwks'.at \in 0..now
    <3>1. published \in Keys /\ now \in 0..now
      BY Numbers DEF Shape, TypeOK
    <3> QED BY <3>1 DEF Shape, TypeOK
  <2> QED BY <2>1, <2>2 DEF Shape, TypeOK, store, provider
<1>2. Once'
  <2>1. \A u \in Threads, m \in Logins : Carries(u, m)' => Carries(u, m)
    BY DEF Carries, Shape
  <2> QED BY <2>1 DEF Once, provider
<1>3. Truthful'
  BY DEF Truthful, SessionNamesItsUser, Honest, Shape, provider
<1>4. KeysAge'
  <2>1. published \in Keys /\ published >= published
    BY Numbers DEF Shape, TypeOK
  <2>2. retired[published] = None
    BY <2>1 DEF KeysAge
  <2> QED BY <2>2 DEF KeysAge, provider
<1> QED BY <1>1, <1>2, <1>3, <1>4

LEMMA IdleIsARequest == Idle \in Requests /\ Honest(Idle) /\ Idle.at = "idle"
BY DEF Requests, Idle, Honest

LEMMA ExchangeKeeps == ASSUME Inv, NEW t \in Threads, Exchange(t) PROVE Inv'
<1>1. /\ thread[t].at = "exchange"
      /\ UNCHANGED <<store, pending, provider, jwks, sessions, issued, now, restarts>>
  BY DEF Exchange
<1>2. thread[t] \in Exchanging /\ thread[t].code \in codes
  BY <1>1, KindsOfRequest DEF Inv, Shape, Truthful, Honest
<1>3. CASE Refused(t)
  BY <1>1, <1>3, IdleIsARequest, StageKeeps DEF Refused
<1>4. CASE ~Refused(t)
  <2> DEFINE y == [at |-> "verify", login |-> thread[t].login,
                   user |-> thread[t].code.user, nonce |-> thread[t].code.login,
                   key |-> published]
  <2>1. thread' = [thread EXCEPT ![t] = y]
    BY <1>4 DEF Exchange
  <2>2. y \in Requests
    BY <1>2 DEF Exchanging, Codes, Verifying, Requests, Inv, Shape, TypeOK
  <2>3. [login |-> y.nonce, user |-> y.user] = thread[t].code
    BY <1>2 DEF Exchanging, Codes
  <2>4. Honest(y)
    BY <1>2, <2>3 DEF Honest
  <2>5. thread[t].at # "idle" /\ y.login = thread[t].login
    BY <1>1
  <2> QED BY <1>1, <2>1, <2>2, <2>4, <2>5, StageKeeps
<1> QED BY <1>3, <1>4

LEMMA VerifyKeeps == ASSUME Inv, NEW t \in Threads, Verify(t) PROVE Inv'
<1>1. /\ thread[t].at = "verify"
      /\ UNCHANGED <<store, pending, provider, sessions, issued, now, restarts>>
      /\ jwks' = jwks \/ jwks' = [keys |-> {published}, at |-> now]
  BY DEF Verify
<1>2. /\ thread[t] \in Verifying
      /\ [login |-> thread[t].nonce, user |-> thread[t].user] \in codes
  BY <1>1, KindsOfRequest DEF Inv, Shape, Truthful, Honest
<1>3. CASE Refused(t)
  BY <1>1, <1>3, IdleIsARequest, StageKeeps DEF Refused
<1>4. CASE ~Refused(t)
  <2> DEFINE y == [at |-> "resolve", login |-> thread[t].login,
                   user |-> thread[t].user, key |-> thread[t].key]
  <2>1. thread' = [thread EXCEPT ![t] = y] /\ thread[t].nonce = thread[t].login
    BY <1>4 DEF Verify, NonceMatches
  <2>2. y \in Requests
    BY <1>2 DEF Verifying, Resolving, Requests
  <2>3. Honest(y)
    BY <1>2, <2>1 DEF Honest
  <2>4. thread[t].at # "idle" /\ y.login = thread[t].login
    BY <1>1
  <2> QED BY <1>1, <2>1, <2>2, <2>3, <2>4, StageKeeps
<1> QED BY <1>3, <1>4

LEMMA ResolveKeeps == ASSUME Inv, NEW t \in Threads, Resolve(t) PROVE Inv'
<1> DEFINE y == [at |-> "copy", login |-> thread[t].login, user |-> thread[t].user,
                 subject |-> SubjectFor(mem, thread[t].user), set |-> None]
<1>1. /\ thread[t].at = "resolve" /\ thread' = [thread EXCEPT ![t] = y]
      /\ UNCHANGED <<store, pending, provider, jwks, sessions, issued, now, restarts>>
  BY DEF Resolve
<1>2. /\ thread[t] \in Resolving
      /\ [login |-> thread[t].login, user |-> thread[t].user] \in codes
  BY <1>1, KindsOfRequest DEF Inv, Shape, Truthful, Honest
<1>3. thread[t].user \in Users /\ thread[t].login \in Logins
  BY <1>2 DEF Resolving
<1>4. y.subject \in AliasesOf(thread[t].user)
  BY <1>3, SubjectIsAnAlias
<1>5. y.subject \in Subjects
  BY <1>3, <1>4, AliasesAreSubjects
<1>6. y \in Requests
  BY <1>3, <1>5 DEF Requests, Copying
<1>7. Honest(y)
  BY <1>2, <1>3, <1>4 DEF Honest
<1>8. thread[t].at # "idle" /\ y.login = thread[t].login
  BY <1>1
<1> QED BY <1>1, <1>6, <1>7, <1>8, StageKeeps

LEMMA CopyKeeps == ASSUME Inv, NEW t \in Threads, Copy(t) PROVE Inv'
<1>1. /\ thread[t].at = "copy"
      /\ UNCHANGED <<store, pending, provider, jwks, sessions, issued, now, restarts>>
  BY DEF Copy
<1>2. thread[t] \in Copying /\ Honest(thread[t])
  BY <1>1, KindsOfRequest DEF Inv, Shape, Truthful
<1>3. CASE Refused(t)
  BY <1>1, <1>3, IdleIsARequest, StageKeeps DEF Refused
<1>4. CASE ~Refused(t)
  <2> DEFINE y == [at |-> "save", login |-> thread[t].login, user |-> thread[t].user,
                   subject |-> thread[t].subject, set |-> thread[t].set, copy |-> mem]
  <2>1. /\ thread' = [thread EXCEPT ![t] = y]
        /\ thread[t].set = None \/ mem[thread[t].subject] # None
    BY <1>4 DEF Copy, SigningIn
  <2>2. y \in Requests
    BY <1>2 DEF Copying, Saving, Requests, Inv, Shape, TypeOK
  <2>3. Honest(y)
    BY <1>1, <1>2, <2>1 DEF Honest
  <2>4. thread[t].at # "idle" /\ y.login = thread[t].login
    BY <1>1
  <2> QED BY <1>1, <2>1, <2>2, <2>3, <2>4, StageKeeps
<1> QED BY <1>3, <1>4

\* An administrator's request carries no login.
LEMMA AskKeeps ==
    ASSUME Inv, NEW t \in Threads, NEW s, NEW subject \in Subjects,
           NEW field \in {"role", "global_role"}, Ask(t, s, subject, field)
    PROVE  Inv'
<1> USE DEF Inv
<1>1. PICK value \in IF field = "role" THEN Roles ELSE GlobalRoles :
         thread' = [thread EXCEPT ![t] =
                      [at |-> "copy", login |-> None, user |-> None,
                       subject |-> subject, set |-> <<field, value>>]]
  BY DEF Ask
<1> DEFINE y == [at |-> "copy", login |-> None, user |-> None,
                 subject |-> subject, set |-> <<field, value>>]
<1>2. <<field, value>> \in Changes
  BY <1>1 DEF Changes
<1>3. <<field, value>> # None
  BY <1>2, ChangeIsNotNone
<1>4. y \in Copying
  BY <1>2 DEF Copying
<1>5. /\ UNCHANGED <<mem, disk, failures, pending, provider, jwks, sessions, issued, now, restarts>>
      /\ thread[t] = Idle
  BY DEF Ask
<1>6. Shape'
  <2>1. thread' \in [Threads -> Requests]
    BY <1>1, <1>4 DEF Shape, Requests
  <2> QED BY <1>5, <2>1 DEF Shape, TypeOK, provider
<1>7. Once'
  <2>1. \A u \in Threads, m \in Logins : Carries(u, m)' => Carries(u, m)
    BY <1>1, SignetConstants DEF Carries, Shape
  <2> QED BY <1>5, <2>1 DEF Once, provider
<1>8. Truthful'
  <2>1. Honest(y)'
    BY <1>3 DEF Honest
  <2> QED BY <1>1, <1>5, <2>1 DEF Truthful, SessionNamesItsUser, Honest, Shape, provider
<1>9. KeysAge'
  BY <1>5 DEF KeysAge, provider
<1> QED BY <1>6, <1>7, <1>8, <1>9

\* What a request writes back is a table.
LEMMA ChangedIsATable ==
    ASSUME NEW x \in Saving, Honest(x) PROVE Changed(x) \in Table
<1>1. x.copy \in Table /\ x.subject \in Subjects /\ x.set \in Changes \cup {None}
      /\ x.at = "save"
  BY DEF Saving
<1>2. CASE x.set = None
  BY <1>1, <1>2, RowsChangeInTable DEF Changed, SigningIn
<1>3. CASE x.set # None
  <2>1. x.set \in Changes /\ x.copy[x.subject] # None
    BY <1>1, <1>3 DEF Honest
  <2> HIDE DEF Honest
  <2> DEFINE c == x.set
             s == x.subject
             v == x.copy
  <2>2. Changed(x) = [v EXCEPT ![s] = [@ EXCEPT ![c[1]] = c[2]]]
    BY <1>3 DEF Changed, SigningIn
  <2> HIDE DEF c, s, v
  <2>3. v \in Table /\ s \in Subjects /\ v[s] # None /\ c \in Changes
    BY <1>1, <2>1 DEF c, s, v
  <2>4. [v EXCEPT ![s] = [@ EXCEPT ![c[1]] = c[2]]] \in Table
    BY <2>3, FieldChangesInTable
  <2> QED BY <2>2, <2>4
<1> QED BY <1>2, <1>3

LEMMA SaveKeeps == ASSUME Inv, NEW t \in Threads, Save(t) PROVE Inv'
<1> DEFINE x == thread[t]
<1>1. PICK written \in BOOLEAN :
         /\ mem' = Changed(x)
         /\ disk' = IF written THEN mem' ELSE disk
         /\ failures' = IF written THEN failures ELSE failures + 1
         /\ IF written /\ SigningIn(x)
            THEN /\ sessions' = sessions \cup
                        {[subject |-> x.subject, login |-> x.login, user |-> x.user]}
                 /\ issued' = [issued EXCEPT ![x.login] = @ + 1]
            ELSE UNCHANGED <<sessions, issued>>
  BY DEF Save
<1>2. /\ x.at = "save" /\ thread' = [thread EXCEPT ![t] = Idle]
      /\ UNCHANGED <<changes, pending, provider, jwks, now, restarts>>
  BY DEF Save, Refused
<1>3. x \in Saving /\ Honest(x)
  BY <1>2, KindsOfRequest DEF Inv, Shape, Truthful
<1>4. /\ x.subject \in Subjects
      /\ x.set = None => /\ x.login \in Logins /\ x.user \in Users
                         /\ [login |-> x.login, user |-> x.user] \in codes
                         /\ x.subject \in AliasesOf(x.user)
  BY <1>2, <1>3 DEF Saving, Honest
<1>5. mem' \in Table
  BY <1>1, <1>3, ChangedIsATable
<1>6. \A u \in Threads : thread'[u] = IF u = t THEN Idle ELSE thread[u]
  BY <1>2 DEF Inv, Shape
<1> HIDE DEF x
<1>7. Shape'
  <2>1. thread' \in [Threads -> Requests]
    BY <1>2, IdleIsARequest DEF Inv, Shape
  <2>2. disk' \in Table
    BY <1>1, <1>5 DEF Inv, Shape, TypeOK
  <2>3. failures' \in Nat /\ (mem' # disk' => failures' > 0)
    BY <1>1 DEF Inv, Shape
  <2>4. sessions' \subseteq [subject : Subjects, login : Logins, user : Users]
    BY <1>1, <1>4 DEF Inv, Shape, TypeOK, SigningIn
  <2>5. issued' \in [Logins -> Nat]
    BY <1>1 DEF Inv, Shape, TypeOK
  <2> QED BY <1>2, <1>5, <2>1, <2>2, <2>3, <2>4, <2>5 DEF Inv, Shape, TypeOK, provider
<1>8. Once'
  <2>1. \A u \in Threads, m \in Logins : Carries(u, m)' => Carries(u, m) /\ u # t
    BY <1>6 DEF Carries, Idle
  <2>2. CASE written /\ SigningIn(x)
    <3> DEFINE l == x.login
    <3>1. l \in Logins /\ Carries(t, l)
      BY <1>2, <1>4, <2>2 DEF SigningIn, Carries, x
    <3>2. /\ l \in begun /\ issued[l] = 0 /\ pending[l] = None
          /\ \A u \in Threads : Carries(u, l) => u = t
      BY <3>1 DEF Inv, Once
    <3>3. \A m \in Logins : issued'[m] = IF m = l THEN 1 ELSE issued[m]
      BY <1>1, <2>2, <3>1, <3>2 DEF Inv, Shape, TypeOK
    <3> HIDE DEF l
    <3> QED BY <1>2, <2>1, <3>1, <3>2, <3>3 DEF Inv, Once, provider
  <2>3. CASE ~(written /\ SigningIn(x))
    <3>1. issued' = issued
      BY <1>1, <2>3
    <3> QED BY <1>2, <2>1, <3>1 DEF Inv, Once, provider
  <2> QED BY <2>2, <2>3
<1>9. Truthful'
  <2>1. codes' = codes
    BY <1>2 DEF provider
  <2>2. \A u \in Threads : Honest(thread[u])' 
    <3>1. ASSUME NEW u \in Threads PROVE Honest(thread[u])'
      <4>1. CASE u = t
        BY <1>6, <4>1 DEF Honest, Idle
      <4>2. CASE u # t
        BY <1>6, <2>1, <4>2 DEF Inv, Truthful, Honest
      <4> QED BY <4>1, <4>2
    <3> QED BY <3>1
  <2>3. \A s \in sessions' :
           /\ [login |-> s.login, user |-> s.user] \in codes
           /\ s.subject \in {Aliases[s.user][i] : i \in DOMAIN Aliases[s.user]}
    <3>1. \A s \in sessions :
             /\ [login |-> s.login, user |-> s.user] \in codes
             /\ s.subject \in {Aliases[s.user][i] : i \in DOMAIN Aliases[s.user]}
      BY DEF Inv, Truthful, SessionNamesItsUser
    <3>2. CASE written /\ SigningIn(x)
      <4> DEFINE n == [subject |-> x.subject, login |-> x.login, user |-> x.user]
      <4>1. sessions' = sessions \cup {n}
        BY <1>1, <3>2
      <4>2. n.login = x.login /\ n.user = x.user /\ n.subject = x.subject
        OBVIOUS
      <4>3. /\ [login |-> n.login, user |-> n.user] \in codes
            /\ n.subject \in {Aliases[n.user][i] : i \in DOMAIN Aliases[n.user]}
        BY <1>4, <3>2, <4>2 DEF SigningIn, AliasesOf
      <4> HIDE DEF n
      <4> QED BY <3>1, <4>1, <4>3
    <3>3. CASE ~(written /\ SigningIn(x))
      BY <1>1, <3>1, <3>3
    <3> QED BY <3>2, <3>3
  <2> QED BY <2>1, <2>2, <2>3 DEF Truthful, SessionNamesItsUser
<1>10. KeysAge'
  BY <1>2 DEF Inv, KeysAge, provider
<1> QED BY <1>7, <1>8, <1>9, <1>10 DEF Inv

-----------------------------------------------------------------------------
(* The theorems.                                                           *)

LEMMA StepKeeps == Inv /\ [Next]_vars => Inv'
<1> SUFFICES ASSUME Inv, [Next]_vars PROVE Inv'
  OBVIOUS
<1>1. ASSUME NEW l \in Logins, Begin(l) PROVE Inv'
  BY <1>1, BeginKeeps
<1>2. ASSUME NEW l \in Logins, NEW u \in Users, Authenticate(l, u) PROVE Inv'
  BY <1>2, AuthenticateKeeps
<1>3. ASSUME NEW t \in Threads, NEW l \in Logins, NEW c \in codes, Callback(t, l, c)
      PROVE Inv'
  BY <1>3, CallbackKeeps
<1>4. ASSUME NEW t \in Threads, Exchange(t) \/ Verify(t) \/ Resolve(t) \/ Copy(t) \/ Save(t)
      PROVE Inv'
  BY <1>4, ExchangeKeeps, VerifyKeeps, ResolveKeeps, CopyKeeps, SaveKeeps
<1>5. ASSUME NEW t \in Threads, NEW s \in sessions, NEW subject \in Subjects,
             NEW field \in {"role", "global_role"}, Ask(t, s, subject, field)
      PROVE Inv'
  BY <1>5, AskKeeps
<1>6. CASE Rotate \/ Tick \/ Restart
  BY <1>6, RotateKeeps, TickKeeps, RestartKeeps
<1>7. CASE UNCHANGED vars
  BY <1>7, StutterKeeps
<1> QED BY <1>1, <1>2, <1>3, <1>4, <1>5, <1>6, <1>7 DEF Next

LEMMA Always == Spec => []Inv
BY Initially, StepKeeps, PTL DEF Spec

\* A login completes at most once, and its session names whose token was
\* verified, whatever callbacks arrive in whatever order, however often helm is
\* restarted and whatever writes fail (PendingLogins.consume, verify_id_token).
THEOREM LoginsCompleteOnce == Spec => []LoginIsSound
<1>1. Inv => LoginIsSound
  <2>1. Once => OncePerLogin
    BY DEF Once, OncePerLogin
  <2> QED BY <2>1 DEF Inv, Shape, Truthful, LoginIsSound
<1> QED BY <1>1, Always, PTL

\* Only the verification of a token moves a request past it.
LEMMA OnlyVerifyAccepts ==
    ASSUME Inv, [Next]_vars, NEW t \in Threads,
           thread[t].at = "verify", thread'[t].at = "resolve"
    PROVE  Verify(t)
<1>1. ASSUME NEW u \in Threads, NEW y, thread' = [thread EXCEPT ![u] = y],
             y.at # "resolve"
      PROVE  FALSE
  BY <1>1 DEF Inv, Shape
<1>2. thread' = thread => FALSE
  OBVIOUS
<1>3. ASSUME NEW u \in Threads, Refused(u) PROVE FALSE
  BY <1>1, <1>3, IdleIsARequest DEF Refused
<1>4. ASSUME NEW u \in Threads, NEW l \in Logins, NEW c \in codes, Callback(u, l, c)
      PROVE FALSE
  <2>1. thread' = [thread EXCEPT ![u] = [at |-> "exchange", login |-> l, code |-> c]]
    BY <1>4 DEF Callback
  <2> QED BY <1>1, <2>1
<1>5. ASSUME NEW u \in Threads, Exchange(u) PROVE FALSE
  <2> DEFINE y == [at |-> "verify", login |-> thread[u].login,
                   user |-> thread[u].code.user, nonce |-> thread[u].code.login,
                   key |-> published]
  <2>1. thread' = [thread EXCEPT ![u] = y] \/ Refused(u)
    BY <1>5 DEF Exchange
  <2>2. y.at # "resolve"
    OBVIOUS
  <2> HIDE DEF y
  <2> QED BY <1>1, <1>3, <2>1, <2>2
<1>6. ASSUME NEW u \in Threads, Resolve(u) PROVE FALSE
  <2> DEFINE y == [at |-> "copy", login |-> thread[u].login, user |-> thread[u].user,
                   subject |-> SubjectFor(mem, thread[u].user), set |-> None]
  <2>1. thread' = [thread EXCEPT ![u] = y]
    BY <1>6 DEF Resolve
  <2>2. y.at # "resolve"
    OBVIOUS
  <2> HIDE DEF y
  <2> QED BY <1>1, <2>1, <2>2
<1>7. ASSUME NEW u \in Threads, Copy(u) PROVE FALSE
  <2> DEFINE y == [at |-> "save", login |-> thread[u].login, user |-> thread[u].user,
                   subject |-> thread[u].subject, set |-> thread[u].set, copy |-> mem]
  <2>1. thread' = [thread EXCEPT ![u] = y] \/ Refused(u)
    BY <1>7 DEF Copy
  <2>2. y.at # "resolve"
    OBVIOUS
  <2> HIDE DEF y
  <2> QED BY <1>1, <1>3, <2>1, <2>2
<1>8. ASSUME NEW u \in Threads, Save(u) PROVE FALSE
  BY <1>3, <1>8 DEF Save
<1>9. ASSUME NEW u \in Threads, NEW s \in sessions, NEW subject \in Subjects,
             NEW field \in {"role", "global_role"}, Ask(u, s, subject, field)
      PROVE FALSE
  <2>1. PICK value : thread' = [thread EXCEPT ![u] =
                      [at |-> "copy", login |-> None, user |-> None,
                       subject |-> subject, set |-> <<field, value>>]]
    BY <1>9 DEF Ask
  <2> DEFINE y == [at |-> "copy", login |-> None, user |-> None,
                   subject |-> subject, set |-> <<field, value>>]
  <2>2. y.at # "resolve"
    OBVIOUS
  <2>3. thread' = [thread EXCEPT ![u] = y]
    BY <2>1
  <2> HIDE DEF y
  <2> QED BY <1>1, <2>2, <2>3
<1>10. ASSUME NEW u \in Threads, Verify(u) PROVE u = t
  <2>1. PICK y : thread' = [thread EXCEPT ![u] = y]
    BY <1>10 DEF Verify, Refused
  <2> QED BY <2>1 DEF Inv, Shape
<1>11. ASSUME \/ \E l \in Logins : Begin(l) \/ \E u \in Users : Authenticate(l, u)
              \/ Rotate \/ Tick \/ UNCHANGED vars
       PROVE FALSE
  BY <1>2, <1>11 DEF Begin, Authenticate, Rotate, Tick, vars
<1>12. ~Restart
  BY DEF Restart, Idle
<1> QED BY <1>4, <1>5, <1>6, <1>7, <1>8, <1>9, <1>10, <1>11, <1>12 DEF Next

\* A token is accepted only on a key the provider had not dropped, or had dropped
\* for less than one metadata TTL: the cached set is older than the drop of any of
\* its keys, and is not used when it is a TTL old (OidcClient.jwks, _key_for).
THEOREM KeysAreFresh == Spec => AcceptedKeyFresh
<1>1. ASSUME Inv, [Next]_vars
      PROVE  [\A t \in Threads :
                (thread[t].at = "verify" /\ thread'[t].at = "resolve")
                   => LET gone == retired[thread'[t].key]
                      IN  gone = None \/ now - gone < TTL]_vars
  <2> SUFFICES ASSUME NEW t \in Threads,
                      thread[t].at = "verify", thread'[t].at = "resolve"
               PROVE  retired[thread'[t].key] = None \/ now - retired[thread'[t].key] < TTL
    OBVIOUS
  <2>1. Verify(t)
    BY <1>1, OnlyVerifyAccepts
  <2> DEFINE k == thread[t].key
             fetched == [keys |-> {published}, at |-> now]
  <2>2. ~Refused(t)
    BY <1>1 DEF Refused, Idle, Inv, Shape
  <2>3. /\ k \in jwks'.keys /\ (jwks' = fetched \/ Cached(k))
        /\ thread' = [thread EXCEPT ![t] = [at |-> "resolve", login |-> thread[t].login,
                                           user |-> thread[t].user, key |-> k]]
        /\ jwks' = jwks \/ ~Cached(k)
    BY <2>1, <2>2 DEF Verify
  <2>4. thread'[t].key = k
    BY <1>1, <2>3 DEF Inv, Shape
  <2>5. CASE jwks' = fetched
    <3>1. k = published /\ published \in Keys /\ published >= published
      BY <1>1, <2>3, <2>5, Numbers DEF Inv, Shape, TypeOK
    <3> QED BY <1>1, <2>4, <3>1 DEF Inv, KeysAge
  <2>6. CASE Cached(k)
    <3>1. k \in jwks.keys /\ now - jwks.at < TTL
      BY <2>6 DEF Cached
    <3>2. CASE retired[k] = None
      BY <2>4, <3>2
    <3>3. CASE retired[k] # None
      <4>1. /\ retired[k] \in Nat /\ jwks.at \in Nat /\ now \in Nat
            /\ jwks.at <= retired[k]
        BY <1>1, <3>1, <3>3, Numbers DEF Inv, Shape, TypeOK, KeysAge
      <4> QED BY <2>4, <3>1, <4>1, Numbers
    <3> QED BY <3>2, <3>3
  <2> QED BY <2>3, <2>5, <2>6
<1> QED BY <1>1, Always, PTL DEF Spec, AcceptedKeyFresh

\* A row moves by an administrator's request, by a write of a copy that is no
\* longer the table, or by a restart; a sign-in alone adds a viewer at most
\* (ensure_subject, set_role, set_global_role).
THEOREM SignInMovesNobody == Spec => RowsMoveByAdmin
<1>1. ASSUME Inv, [Next]_vars
      PROVE  [\A s \in Subjects : (mem'[s] # mem[s] /\ restarts' = restarts) =>
                \E t \in Threads :
                   /\ thread[t].at = "save" /\ thread'[t] = Idle
                   /\ \/ thread[t].copy # mem
                      \/ s = thread[t].subject /\ ~SigningIn(thread[t])
                      \/ mem[s] = None /\ mem'[s] = NewRow]_vars
  <2> SUFFICES ASSUME NEW s \in Subjects, mem'[s] # mem[s], restarts' = restarts
               PROVE  \E t \in Threads :
                         /\ thread[t].at = "save" /\ thread'[t] = Idle
                         /\ \/ thread[t].copy # mem
                            \/ s = thread[t].subject /\ ~SigningIn(thread[t])
                            \/ mem[s] = None /\ mem'[s] = NewRow
    OBVIOUS
  <2>1. \E t \in Threads : Save(t)
    <3>1. ~Restart
      BY <1>1 DEF Restart, Inv, Shape
    <3> QED BY <1>1, <3>1 DEF Next, vars, store, Begin, Authenticate, Callback, Exchange,
                Verify, Resolve, Copy, Ask, Rotate, Tick
  <2>2. PICK t \in Threads : Save(t)
    BY <2>1
  <2> DEFINE x == thread[t]
  <2>3. x.at = "save" /\ mem' = Changed(x) /\ thread'[t] = Idle
    BY <1>1, <2>2 DEF Save, Refused, Inv, Shape
  <2>4. x \in Saving /\ mem \in Table
    BY <1>1, <2>3, KindsOfRequest DEF Inv, Shape, TypeOK
  <2>5. CASE x.copy # mem
    BY <2>3, <2>5
  <2>6. CASE x.copy = mem /\ SigningIn(x)
    <3>1. mem' = Ensured(mem, x.subject)
      BY <2>3, <2>6 DEF Changed
    <3>2. mem[s] = None /\ mem'[s] = NewRow
      BY <2>4, <3>1 DEF Ensured, Table, Saving
    <3> QED BY <2>3, <3>2
  <2>7. CASE x.copy = mem /\ ~SigningIn(x)
    <3>1. mem' = [mem EXCEPT ![x.subject] = [@ EXCEPT ![x.set[1]] = x.set[2]]]
      BY <2>3, <2>7 DEF Changed
    <3>2. s = x.subject
      BY <2>4, <3>1 DEF Table, Saving
    <3> QED BY <2>3, <2>7, <3>2
  <2> QED BY <2>5, <2>6, <2>7
<1> QED BY <1>1, Always, PTL DEF Spec, RowsMoveByAdmin
=============================================================================
