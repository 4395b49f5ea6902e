--------------------------------- MODULE Walk ---------------------------------
(***************************************************************************)
(* throughline's cause walk (walk.py): from an effect's entries in the     *)
(* chain to the judgment and the signal it names, each hop's digest        *)
(* recomputed.  A line keeps what the walk reads of an entry; altered is   *)
(* TRUE of a line whose body no longer has the digest it carries.          *)
(***************************************************************************)
EXTENDS Integers, FiniteSets, FiniteSetsExt, Sequences

NoId == <<"none", 0>>

EffectLines == {"effect.proposed", "effect.executing", "effect.executed",
                "effect.blocked", "effect.refused"}

Line(type, id, judgment, signal) ==
    [type |-> type, id |-> id, judgment |-> judgment, signal |-> signal,
     altered |-> FALSE]

Of(chain, types, id) == {i \in DOMAIN chain : chain[i].type \in types /\ chain[i].id = id}

\* The first of some positions, as a set of one or none.
Earliest(S) == IF S = {} THEN {} ELSE {Min(S)}

\* Mutant: the hash in the file is taken for the one of the body.
VerifiedAsWritten(chain, i) == TRUE

Verified(chain, i) == ~chain[i].altered

\* walk_effect, of an effect with an entry: the proposal if there is one, the
\* judgment it names, and the signal it or the judgment names.
WalkEffect(chain, e) ==
    LET entries  == Of(chain, EffectLines, e)
        proposed == Of(chain, {"effect.proposed"}, e)
        origin   == Min(IF proposed # {} THEN proposed ELSE entries)
        j        == chain[origin].judgment
        judgment == IF j = NoId THEN {} ELSE Earliest(Of(chain, {"judgment.recorded"}, j))
        s        == IF chain[origin].signal # NoId \/ judgment = {}
                    THEN chain[origin].signal
                    ELSE chain[Min(judgment)].signal
        signal   == IF s = NoId THEN {} ELSE Earliest(Of(chain, {"signal.ingested"}, s))
        hops     == {origin} \cup judgment \cup signal
    IN  [origin |-> origin, judgment |-> judgment, signal |-> signal,
         complete |-> signal # {} /\ (j = NoId \/ judgment # {}),
         verified |-> \A i \in hops : Verified(chain, i)]
===============================================================================
