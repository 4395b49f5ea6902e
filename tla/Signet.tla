------------------------------- MODULE Signet -------------------------------
(***************************************************************************)
(* helm's identity service: the OIDC round trip (authorization code, PKCE, *)
(* nonce, signing keys that rotate), the session it ends in, and the role  *)
(* table in roles.json that every request reads live.  Routes run in a     *)
(* thread pool.  The pending logins are taken under a lock; the role table *)
(* is read, changed and written back in separate calls.                    *)
(***************************************************************************)
EXTENDS Integers, Sequences, FiniteSets

CONSTANTS
    Users,        \* people at the provider
    Subjects,     \* keys of the role table
    Aliases,      \* user -> the subjects its claims name, in candidate order
    Defaults,     \* DEFAULT_ROLES
    Logins,       \* state/nonce pairs helm may issue (a bound)
    Threads,      \* requests served at once
    Keys,         \* signing keys, numbered in the order they are published
    TTL,          \* LOGIN_TTL_SECONDS and metadata_ttl, in ticks
    MaxNow,       \* bound on the clock
    MaxFailures,  \* bound on the writes of roles.json that fail
    MaxChanges,   \* bound on the admins' requests
    MaxRestarts,  \* bound on restarts of helm
    None

ASSUME SignetConstants ==
    /\ Aliases \in [Users -> Seq(Subjects) \ {<<>>}]
    /\ Keys \subseteq Nat /\ 1 \in Keys
    /\ TTL \in Nat /\ MaxNow \in Nat /\ MaxFailures \in Nat /\ MaxChanges \in Nat
    /\ MaxRestarts \in Nat
    /\ Defaults \in [Subjects -> [role : {"admin", "viewer"},
                                 global_role : {"federation-steward", ""}] \cup {None}]
    /\ None \notin Logins
    /\ None \notin {"role", "global_role"} \X {"admin", "viewer", "federation-steward", ""}

VARIABLES
    mem, disk,    \* JsonStore: the table in memory and in roles.json
    pending,      \* PendingLogins: login -> when it began, or None
    begun,        \* redirects helm has issued
    codes,        \* authorization codes the provider handed out
    published,    \* the key the provider signs with
    retired,      \* key -> when the provider dropped it, or None
    jwks,         \* helm's cached key set and when it was fetched
    thread,       \* what each request is doing
    sessions,     \* session cookies issued
    issued,       \* login -> sessions it ended in
    now, failures, changes, restarts

store == <<mem, disk, failures, changes>>
provider == <<begun, codes, published, retired>>
vars == <<mem, disk, pending, begun, codes, published, retired, jwks,
          thread, sessions, issued, now, failures, changes, restarts>>

Roles == {"admin", "viewer"}
GlobalRoles == {"federation-steward", ""}

Row == [role : Roles, global_role : GlobalRoles]
Table == [Subjects -> Row \cup {None}]
Idle == [at |-> "idle"]

NewRow == [role |-> "viewer", global_role |-> ""]

\* Mutant: a sign-in writes a fresh row over the one it finds
EnsuredFresh(t, s) == [t EXCEPT ![s] = NewRow]

\* ensure_subject: an unknown subject is a viewer and votes in nothing; a known
\* one keeps its row (last_seen and display are left out)
Ensured(t, s) == IF t[s] = None THEN [t EXCEPT ![s] = NewRow] ELSE t

\* subject_for_claims: the first alias the table knows, else the first
SubjectFor(t, u) ==
    LET known == {i \in DOMAIN Aliases[u] : t[Aliases[u][i]] # None}
    IN  IF known = {} THEN Aliases[u][1]
        ELSE Aliases[u][CHOOSE i \in known : \A j \in known : i <= j]

-----------------------------------------------------------------------------
(* The login.                                                              *)

Alive(l) == pending[l] # None /\ now - pending[l] <= TTL

\* begin: the redirect carries state, nonce and challenge
Begin(l) ==
    /\ l \notin begun
    /\ begun' = begun \cup {l}
    /\ pending' = [pending EXCEPT ![l] = now]
    /\ UNCHANGED <<store, codes, published, retired, jwks, thread, sessions, issued, now, restarts>>

\* external: somebody signs in at the provider, which binds the code to the
\* nonce and the challenge of the redirect it came with
Authenticate(l, u) ==
    /\ l \in begun /\ \A c \in codes : c.login # l
    /\ codes' = codes \cup {[login |-> l, user |-> u]}
    /\ UNCHANGED <<store, begun, pending, published, retired, jwks, thread,
                   sessions, issued, now, restarts>>

\* Mutant: the pending login is looked up and left where it is
TakenKept(l) == pending

\* consume: once, under the lock
Taken(l) == [pending EXCEPT ![l] = None]

\* auth_callback: the state of one login with the code of this or another one
Callback(t, l, c) ==
    /\ thread[t] = Idle /\ Alive(l)
    /\ pending' = Taken(l)
    /\ thread' = [thread EXCEPT ![t] = [at |-> "exchange", login |-> l, code |-> c]]
    /\ UNCHANGED <<store, provider, jwks, sessions, issued, now, restarts>>

\* the login is over; nothing brings its state back
Refused(t) == thread' = [thread EXCEPT ![t] = Idle]

\* _exchange: the provider may hold a foreign code against its challenge; if it
\* does not, the token's nonce is the foreign one.  complete() has discovered
\* the metadata first, so the provider answers or the callback is a 503.
Exchange(t) ==
    /\ thread[t].at = "exchange"
    /\ \/ thread' = [thread EXCEPT ![t] =
                       [at |-> "verify", login |-> thread[t].login,
                        user |-> thread[t].code.user,
                        nonce |-> thread[t].code.login, key |-> published]]
       \/ Refused(t)
    /\ UNCHANGED <<store, pending, provider, jwks, sessions, issued, now, restarts>>

\* Mutant: the nonce of the token is not compared
NonceAny(t) == TRUE

NonceMatches(t) == thread[t].nonce = thread[t].login

\* Mutant: cached keys do not age
CachedForever(k) == k \in jwks.keys

Cached(k) == k \in jwks.keys /\ now - jwks.at < TTL

\* verify_id_token with _key_for: the cached key set, fetched once more when it
\* is old or does not know the key; the fetch may find the provider unreachable
Verify(t) ==
    LET k == thread[t].key
        fetched == [keys |-> {published}, at |-> now]
    IN  /\ thread[t].at = "verify"
        /\ \/ jwks' = jwks /\ Cached(k)
           \/ jwks' = fetched /\ ~Cached(k)
           \/ jwks' = jwks /\ ~Cached(k)
        /\ IF k \in jwks'.keys /\ (jwks' = fetched \/ Cached(k)) /\ NonceMatches(t)
           THEN thread' = [thread EXCEPT ![t] =
                             [at |-> "resolve", login |-> thread[t].login,
                              user |-> thread[t].user, key |-> k]]
           ELSE Refused(t)
        /\ UNCHANGED <<store, pending, provider, sessions, issued, now, restarts>>

\* issue_for_claims: the subject, by one read of the table
Resolve(t) ==
    /\ thread[t].at = "resolve"
    /\ thread' = [thread EXCEPT ![t] =
                    [at |-> "copy", login |-> thread[t].login, user |-> thread[t].user,
                     subject |-> SubjectFor(mem, thread[t].user), set |-> None]]
    /\ UNCHANGED <<store, pending, provider, jwks, sessions, issued, now, restarts>>

-----------------------------------------------------------------------------
(* The role table.  read() hands out a copy, write() puts one back.        *)

\* admin_set_role, admin_set_global_role: the session's role is read live, the
\* subject must have a row; the field is not the one it has
Ask(t, s, subject, field) ==
    /\ thread[t] = Idle
    /\ mem[s.subject] # None /\ mem[s.subject].role = "admin"
    /\ mem[subject] # None
    /\ \E value \in (IF field = "role" THEN Roles ELSE GlobalRoles)
                       \ {mem[subject][field]} :
          thread' = [thread EXCEPT ![t] =
                       [at |-> "copy", login |-> None, user |-> None,
                        subject |-> subject, set |-> <<field, value>>]]
    /\ changes < MaxChanges /\ changes' = changes + 1
    /\ UNCHANGED <<mem, disk, failures, pending, provider, jwks, sessions, issued, now, restarts>>

SigningIn(x) == x.set = None

\* read(), in ensure_subject, set_role and set_global_role; a row that another
\* request's write has lost meanwhile is a KeyError, a 404
Copy(t) ==
    /\ thread[t].at = "copy"
    /\ IF ~SigningIn(thread[t]) /\ mem[thread[t].subject] = None
       THEN Refused(t)
       ELSE thread' = [thread EXCEPT ![t] =
              [at |-> "save", login |-> thread[t].login, user |-> thread[t].user,
               subject |-> thread[t].subject, set |-> thread[t].set, copy |-> mem]]
    /\ UNCHANGED <<store, pending, provider, jwks, sessions, issued, now, restarts>>

\* one field of one row of the copy, or the row of whoever signs in
Changed(x) ==
    IF SigningIn(x) THEN Ensured(x.copy, x.subject)
    ELSE [x.copy EXCEPT ![x.subject] = [@ EXCEPT ![x.set[1]] = x.set[2]]]

\* write(): memory first, then the temporary file and the rename, all under the
\* lock; a disk error is a 500 and leaves memory ahead of the file.
\* a sign-in that is written mints its cookie
Save(t) ==
    /\ thread[t].at = "save"
    /\ LET x == thread[t]
       IN  \E written \in BOOLEAN :
             /\ written \/ failures < MaxFailures
             /\ mem' = Changed(x)
             /\ disk' = IF written THEN mem' ELSE disk
             /\ failures' = IF written THEN failures ELSE failures + 1
             /\ IF written /\ SigningIn(x)
                THEN /\ sessions' = sessions \cup
                            {[subject |-> x.subject, login |-> x.login, user |-> x.user]}
                     /\ issued' = [issued EXCEPT ![x.login] = @ + 1]
                ELSE UNCHANGED <<sessions, issued>>
    /\ Refused(t)
    /\ UNCHANGED <<changes, pending, provider, jwks, now, restarts>>

-----------------------------------------------------------------------------
(* Around it.                                                              *)

\* external: the provider signs with the next key and drops the old one
Rotate ==
    /\ published + 1 \in Keys
    /\ published' = published + 1
    /\ retired' = [retired EXCEPT ![published] = now]
    /\ UNCHANGED <<store, pending, begun, codes, jwks, thread, sessions, issued, now, restarts>>

Tick ==
    /\ now < MaxNow
    /\ now' = now + 1
    /\ UNCHANGED <<store, pending, provider, jwks, thread, sessions, issued, restarts>>

\* Mutant: a store that has not been read yet hands out the defaults
LoadedDefaults == Defaults

\* JsonStore.read on first use
Loaded == disk

\* everything but roles.json and the cookies, which are signed, is in memory
Restart ==
    /\ restarts < MaxRestarts
    /\ restarts' = restarts + 1
    /\ mem' = Loaded
    /\ pending' = [l \in Logins |-> None]
    /\ jwks' = [keys |-> {}, at |-> 0]
    /\ thread' = [t \in Threads |-> Idle]
    /\ UNCHANGED <<disk, failures, changes, provider, sessions, issued, now>>

Init ==
    /\ mem = Defaults /\ disk = Defaults /\ failures = 0 /\ changes = 0
    /\ pending = [l \in Logins |-> None]
    /\ begun = {} /\ codes = {} /\ published = 1 /\ retired = [k \in Keys |-> None]
    /\ jwks = [keys |-> {}, at |-> 0]
    /\ thread = [t \in Threads |-> Idle]
    /\ sessions = {} /\ issued = [l \in Logins |-> 0]
    /\ now = 0 /\ restarts = 0

Next ==
    \/ \E l \in Logins : Begin(l) \/ \E u \in Users : Authenticate(l, u)
    \/ \E t \in Threads :
          \/ \E l \in Logins, c \in codes : Callback(t, l, c)
          \/ Exchange(t) \/ Verify(t) \/ Resolve(t) \/ Copy(t) \/ Save(t)
          \/ \E s \in sessions, subject \in Subjects, field \in {"role", "global_role"} :
                Ask(t, s, subject, field)
    \/ Rotate \/ Tick \/ Restart

Spec == Init /\ [][Next]_vars

-----------------------------------------------------------------------------
(* Properties.                                                             *)

\* The state has the shape the module gives it; memory and file only differ
\* after a write failed.
TypeOK ==
    /\ mem \in Table /\ disk \in Table
    /\ pending \in [Logins -> 0..MaxNow \cup {None}]
    /\ begun \subseteq Logins /\ codes \subseteq [login : begun, user : Users]
    /\ published \in Keys /\ retired \in [Keys -> 0..MaxNow \cup {None}]
    /\ jwks.keys \subseteq Keys /\ jwks.at \in 0..now
    /\ sessions \subseteq [subject : Subjects, login : Logins, user : Users]
    /\ issued \in [Logins -> Nat]
    /\ mem # disk => failures > 0

\* One trip to the provider ends in one session at most, however often and
\* however concurrently its callback is replayed (PendingLogins.consume).
OncePerLogin == \A l \in Logins : issued[l] <= 1

\* A session belongs to whoever signed in on the redirect it was minted for,
\* also when a callback carries the code of another login (nonce, challenge).
SessionNamesItsUser ==
    \A s \in sessions :
        /\ [login |-> s.login, user |-> s.user] \in codes
        /\ s.subject \in {Aliases[s.user][i] : i \in DOMAIN Aliases[s.user]}

\* A token is accepted on a key the provider published at most one metadata
\* TTL ago (jwks, _key_for).
AcceptedKeyFresh ==
    [][\A t \in Threads :
          (thread[t].at = "verify" /\ thread'[t].at = "resolve")
             => LET gone == retired[thread'[t].key]
                IN  gone = None \/ now - gone < TTL]_vars

\* A row somebody holds changes when an admin's request is written, when the
\* write carries a copy that is no longer the table, or when a restart reads an
\* older file: a sign-in on its own never moves a role or a franchise, and
\* nobody signs in to more than a viewer (ensure_subject, set_role).
RowsMoveByAdmin ==
    [][\A s \in Subjects : (mem'[s] # mem[s] /\ restarts' = restarts) =>
          \E t \in Threads :
             /\ thread[t].at = "save" /\ thread'[t] = Idle
             /\ \/ thread[t].copy # mem
                \/ s = thread[t].subject /\ ~SigningIn(thread[t])
                \/ mem[s] = None /\ mem'[s] = NewRow]_vars

\* "Signing in must never disturb a federation assignment, in either
\* direction" (signet.py, ensure_subject): false when an admin's change is
\* written between the sign-in's read and its write.
SignInKeepsFranchise ==
    [][\A t \in Threads :
          (thread[t].at = "save" /\ SigningIn(thread[t]) /\ thread'[t] = Idle
             /\ restarts' = restarts)
             => \A s \in Subjects : mem[s] # None => mem'[s] # None /\ mem'[s].global_role = mem[s].global_role]_vars

\* The variables have their types, a login completes once, and its session
\* names whose token was verified (PendingLogins.consume, verify_id_token).
LoginIsSound == TypeOK /\ OncePerLogin /\ SessionNamesItsUser

=============================================================================
