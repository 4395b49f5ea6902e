----------------------------- MODULE HotReload -----------------------------
(***************************************************************************)
(* siren's POST /hot-reload over throughline's POST /config/reload: the    *)
(* drop of a document, the pre-flight, what throughline answers or fails   *)
(* to answer, and the second drop once signals were emitted.  throughline  *)
(* is Config, with its other callers, its crashes and the releases of what *)
(* it held; its steps and siren's interleave.                              *)
(***************************************************************************)
EXTENDS Config

CONSTANTS
    Drops,        \* threads of siren's pool that serve POST /hot-reload
    DropFiles,    \* the documents siren is asked to drop
    Substrates,   \* what app.state.substrate may be when a drop begins
    MaxDrops,     \* bound: requests for a drop
    MaxLost       \* bound: calls and answers lost between the two

ASSUME HotReloadAssumption ==
    /\ DropFiles \subseteq Files
    /\ Substrates \subseteq {"mock", "real"}
    /\ MaxDrops \in Nat
    /\ MaxLost \in Nat

VARIABLES
    registered,  \* HotReload.registered_classes: the document, as <<f>>, or <<>>
    state,       \* HotReload.last["state"]
    drop,        \* drop -> where it is, its document, its pass, its hold
    drops, lost,
    loaded       \* the documents throughline put in force for a drop of siren's

siren == <<registered, state, drop, drops, lost>>
all   == <<vars, siren, loaded>>

NoDrop == [at |-> "idle", file |-> <<>>, by |-> "mock", pass |-> 1, hold |-> 0, answer |-> "none"]

To(h, at) == drop' = [drop EXCEPT ![h].at = at]

Answer(h, a) == drop' = [drop EXCEPT ![h].at = "answered", ![h].answer = a]

-----------------------------------------------------------------------------
(* siren                                                                   *)

\* siren's own copy of the policy; the allowlist is throughline's alone.
Preflight(f) == \A i \in DOMAIN f.rules : f.rules[i].class \in Classes

Begin(h, f, by) ==
    /\ drop[h].at = "idle"
    /\ drops < MaxDrops
    /\ drops' = drops + 1
    /\ drop' = [drop EXCEPT ![h] = [NoDrop EXCEPT !.at = "drop", !.file = <<f>>, !.by = by]]
    /\ UNCHANGED <<vars, registered, state, lost, loaded>>

\* The mock rules on nothing: the pre-flight is the only verdict.
DropMocked(h) ==
    /\ drop[h].at = "drop"
    /\ drop[h].by = "mock"
    /\ Answer(h, IF Preflight(drop[h].file[1]) THEN "accepted" ELSE "refused")
    /\ UNCHANGED <<vars, registered, state, drops, lost, loaded>>

\* Mutant: only "refused" is read from the answer.
RegistersUnread(answer) == answer \in {"accepted", "held"}

Registers(answer) == answer = "accepted"

\* HotReload.drop reads the answer and says what happened.
Record(h) ==
    LET d == drop[h] IN
    /\ d.at = "answered"
    /\ registered' = IF Registers(d.answer) THEN d.file ELSE registered
    /\ state' = IF Registers(d.answer) THEN "registered" ELSE d.answer
    /\ IF Registers(d.answer) /\ d.pass = 1
       THEN To(h, "emit")
       ELSE drop' = [drop EXCEPT ![h] = NoDrop]
    /\ UNCHANGED <<vars, drops, lost, loaded>>

\* feed_emit, then the same document once more for the count of signals.
Emit(h) ==
    /\ drop[h].at = "emit"
    /\ drop' = [drop EXCEPT ![h].at = "drop", ![h].pass = 2]
    /\ UNCHANGED <<vars, registered, state, drops, lost, loaded>>

-----------------------------------------------------------------------------
(* The call, and throughline's answer to it                                *)

Asking(h) == drop[h].at = "drop" /\ drop[h].by = "real"

Called(h) ==
    /\ Asking(h)
    /\ \/ Refuse(drop[h].file[1]) /\ Answer(h, "refused") /\ UNCHANGED loaded
       \/ /\ Reload(drop[h].file[1])
          /\ Answer(h, IF faults' = faults THEN "accepted" ELSE "error")
          /\ loaded' = loaded \cup {drop[h].file[1]}
       \/ /\ Hold(drop[h].file[1])
          /\ drop' = [drop EXCEPT ![h].at = "waiting", ![h].hold = Len(holds')]
          /\ UNCHANGED loaded
    /\ UNCHANGED <<registered, state, drops, lost>>

\* Past the cap the gate refuses the hold: an error without a verdict.
CalledAtCap(h) ==
    LET f == drop[h].file[1] IN
    /\ Asking(h)
    /\ up
    /\ f.allowed /\ Accepted(f)
    /\ Downgrades(f) # {}
    /\ Cardinality(PendingMatching(f)) >= MaxPending
    /\ Answer(h, "error")
    /\ UNCHANGED <<vars, registered, state, drops, lost, loaded>>

\* gate.submit came back and the candidate is staged: 202, held.
HeldAnswer(h) ==
    /\ drop[h].at = "waiting"
    /\ Stage(drop[h].hold)
    /\ Answer(h, "held")
    /\ UNCHANGED <<registered, state, drops, lost, loaded>>

\* The process died meanwhile, or siren stopped waiting.
NoAnswer(h) ==
    /\ drop[h].at = "waiting"
    /\ \/ drop[h].hold \notin held /\ UNCHANGED lost
       \/ lost < MaxLost /\ lost' = lost + 1
    /\ Answer(h, "error")
    /\ UNCHANGED <<vars, registered, state, drops, loaded>>

\* throughline is down, or the request does not reach it.
Unreachable(h) ==
    /\ Asking(h)
    /\ \/ ~up /\ UNCHANGED lost
       \/ lost < MaxLost /\ lost' = lost + 1
    /\ Answer(h, "error")
    /\ UNCHANGED <<vars, registered, state, drops, loaded>>

\* throughline did it and the answer is lost.
Unheard(h) ==
    /\ Asking(h)
    /\ lost < MaxLost
    /\ lost' = lost + 1
    /\ \/ Refuse(drop[h].file[1]) /\ UNCHANGED loaded
       \/ Hold(drop[h].file[1]) /\ UNCHANGED loaded
       \/ Reload(drop[h].file[1]) /\ loaded' = loaded \cup {drop[h].file[1]}
    /\ Answer(h, "error")
    /\ UNCHANGED <<registered, state, drops>>

-----------------------------------------------------------------------------

HotInit ==
    /\ Init
    /\ registered = <<>>
    /\ state = "idle"
    /\ drop = [h \in Drops |-> NoDrop]
    /\ drops = 0
    /\ lost = 0
    /\ loaded = {}

\* A step of throughline that no drop of siren asked for.
Elsewhere ==
    /\ Next
    /\ \A h \in Drops : drop[h].at = "waiting" /\ drop[h].hold \in held
                         => drop[h].hold \in held' \/ ~up'
    /\ UNCHANGED <<siren, loaded>>

HotNext ==
    \/ \E h \in Drops, f \in DropFiles, by \in Substrates : Begin(h, f, by)
    \/ \E h \in Drops : DropMocked(h) \/ Record(h) \/ Emit(h)
    \/ \E h \in Drops : \/ Called(h) \/ CalledAtCap(h) \/ HeldAnswer(h)
                        \/ NoAnswer(h) \/ Unreachable(h) \/ Unheard(h)
    \/ Elsewhere

HotSpec == HotInit /\ [][HotNext]_all

-----------------------------------------------------------------------------
(* Properties                                                              *)

\* siren shows a document as registered only after the substrate it asked has
\* put it in force: not while a human still has to release it, not after an
\* answer that never came (reload.py, "No step is reported green on intent").
GreenIsInForce ==
    [][\A h \in Drops :
         registered' # registered /\ drop[h].at = "answered" /\ drop'[h] # drop[h]
             => drop[h].by = "mock" \/ drop[h].file[1] \in loaded]_all

=============================================================================
