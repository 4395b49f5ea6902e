------------------------------- MODULE MCDocket -------------------------------
(***************************************************************************)
(* Docket for TLC: every short description judged by every short reply,    *)
(* and the judgments of one description routed by two requests; and, while *)
(* docket judges nothing, the registries of docket, throughline and a      *)
(* component that is not built, read by helm.                              *)
(***************************************************************************)
EXTENDS Docket, Datasets, TLC

CONSTANTS r1, r2

Kinds == {"9", " ", "quot", "a"}

\* What folds: a superscript digit, a ligature, a wide quotation mark, an accent
\* that stands alone.  A letter and the combining accent after it are one.
Folding ==
    [sup |-> <<"9">>, lig |-> <<"a", "a">>, wide |-> <<"quot">>,
     accent |-> <<" ", "acute">>, nbsp |-> <<" ">>]

MCChars ==
    Kinds \cup White \cup Marks \cup {"A", "acute", "aacute"} \cup DOMAIN Folding
MCFolds == [c \in MCChars |-> IF c \in DOMAIN Folding THEN Folding[c] ELSE <<c>>]
MCComposes == [p \in {<<"a", "acute">>} |-> "aacute"]

Texts(n) == BoundedSeq(Kinds, n)

\* Bound: descriptions of up to four characters, one of them the routed one.
Routed == <<"9", " ", "9", "a">>

MCDescriptions ==
    {d \in Texts(4) \cup {<<"9", "tab", "a">>, <<"A", "9">>, <<"open", "9", " ", "9", "close">>} :
        d = Strip(d)}
    \cup {<<"9", "9", "sup">>, <<"9", "nbsp", "9">>, <<"a", "acute", "9">>,
          <<"lig", "accent", "9">>, <<"wide", "9", " ", "9">>}

MCReplies ==
    Texts(3) \cup {<<"open", "a", "close">>, <<"9", " ", "9", "a">>, <<"sup">>,
                   <<"aacute">>, <<"wide", "9", "wide">>}

\* Bound: the permit that docket does not judge, beside whose desk the
\* registries move.
Idle == <<"a">>

\* Bound: a description that is not the routed one is judged once and not
\* routed; the routed one is judged before anybody routes, on one quote.
DeskNext ==
    /\ Next /\ UNCHANGED registryVars
    /\ description # Idle
    /\ route' # route => /\ description = Routed /\ judging = 0
                         /\ \A j \in DOMAIN judgments : judgments[j].quote \in {<<>>, <<"a">>}
    /\ up' # up => \E r \in Routes : route[r].at # "new"
    /\ restarts' # restarts => judgments # <<>>
    /\ judgments' # judgments \/ judging' # judging =>
          \A r \in Routes : route[r].at = "new"
    /\ judging' > judging => description = Routed \/ judgments = <<>>

\* Bound: the mock substrate only where something is routed.
MCInit == Init /\ RegistryInit /\ (mock => description = Routed)

Entry(id, mode, availability) ==
    [id |-> id, named |-> TRUE, licence |-> TRUE, provenance |-> TRUE, mode |-> mode,
     kind |-> "synthetic", availability |-> availability, as_of |-> TRUE,
     offline_cache |-> TRUE, counted |-> TRUE]

Listed(es) == [form |-> "list", entries |-> es, versioned |-> TRUE]
Missing == [form |-> "missing", entries |-> <<>>, versioned |-> FALSE]

permits == Entry("permits", "cached", "available")
scenes  == Entry("scenes", "declared-unavailable", "unavailable")

MCDocuments == {Listed(<<permits>>), Listed(<<permits, permits>>), Listed(<<>>),
                Listed(<<scenes, [permits EXCEPT !.as_of = FALSE]>>), Missing}

MCComponents == <<"throughline", "docket", "blindspot">>
MCDeclared == [c \in {"blindspot"} |-> <<scenes>>]
First == Listed(<<permits>>)

\* Bound: files are written before helm reads; a reload may read them later.
RegistriesNext ==
    /\ description = Idle /\ ~mock
    /\ RegistryNext /\ UNCHANGED vars
    /\ writes' # writes => \A q \in Lookups : reading[q].what = "nothing"

MCNext == DeskNext \/ RegistriesNext

Symmetry == Permutations({r1, r2})

MCSpec == MCInit /\ [][MCNext]_<<vars, registryVars>>
===============================================================================
