-------------------------------- MODULE Docket --------------------------------
(***************************************************************************)
(* docket: a permit is judged by a model, a judgment without a verbatim    *)
(* quote becomes an abstention, and a judgment somebody routes becomes a   *)
(* signal, a judgment and a reversible effect on throughline's chain, in   *)
(* three calls.  Judging and routing requests overlap; calls fail or lose  *)
(* their answer; docket restarts with empty memory; the chain's file can   *)
(* be edited.  Composes Quotes (the check) and Walk (the way back).        *)
(*                                                                         *)
(* The model's reply is any reply.  The cache of hosted replies only gives *)
(* an earlier one again, so it adds no behaviour and is left out.          *)
(***************************************************************************)
EXTENDS Quotes, Walk

CONSTANTS
    Descriptions,   \* what the permit's description may be, stripped
    Replies,        \* quotes a model may return
    EvidenceMin,    \* EVIDENCE_MIN_CHARS
    Routes,         \* route requests docket is sent
    MaxJudgments,   \* bound
    MaxFaults,      \* bound: calls that fail or lose their answer
    MaxEdits,       \* bound: lines of the file somebody edits
    MaxRestarts     \* bound

\* Mutant: a rejected quote is asked for again twice.
AttemptsThree == 3

MaxAttempts == 2

ASSUME DocketAssumption ==
    /\ Descriptions \subseteq Seq(Chars) /\ Replies \subseteq Seq(Chars)
    /\ EvidenceMin \in Nat \ {0}
    /\ MaxJudgments \in Nat /\ MaxFaults \in Nat
    /\ MaxEdits \in Nat /\ MaxRestarts \in Nat

VARIABLES
    description,  \* of the one permit of the corpus
    mock,         \* MOCK_THROUGHLINE
    judging,      \* the judge request: attempts made, 0 when there is none
    judgments,    \* all judgments made; an id is a position
    kept,         \* those in _JUDGMENTS
    client,       \* _substrate_client: "none", "mock" or "real"
    up,           \* throughline answers /docs
    route,        \* request -> where it is, and the judgment it routes
    told,         \* request -> what it was answered: a status and a substrate
    chain,        \* throughline's ledger
    faults, edits, restarts

vars == <<description, mock, judging, judgments, kept, client, up, route, told,
          chain, faults, edits, restarts>>
deskVars  == <<judging, judgments>>
worldVars == <<description, mock, restarts>>

Permit == <<"sig", 0>>    \* sig-permit-<permitnum>, the signal of every judgment

-----------------------------------------------------------------------------
(* Judging                                                                 *)

Thin == Len(description) < EvidenceMin

Abstention == [abstained |-> TRUE, quote |-> <<>>]
Accepted(q) == [abstained |-> FALSE, quote |-> q]

Publish(j) ==
    /\ judgments' = Append(judgments, j)
    /\ kept' = kept \cup {Len(judgments) + 1}
    /\ judging' = 0

Unjudged == UNCHANGED <<client, up, route, told, chain, faults, edits, worldVars>>

\* A thin description is abstained on before any model is asked.
Judge ==
    /\ judging = 0 /\ Len(judgments) < MaxJudgments
    /\ IF Thin THEN Publish(Abstention)
       ELSE judging' = 1 /\ UNCHANGED <<judgments, kept>>
    /\ Unjudged

\* The model cannot be reached, or returns neither a finding nor a quote.
Declines ==
    /\ judging > 0
    /\ Publish(Abstention)
    /\ Unjudged

\* A quote that fails the check is asked for once more.
Reply(q) ==
    /\ judging > 0
    /\ LET check == Verify(q, description) IN
       IF check.valid THEN Publish(Accepted(check.quote))
       ELSE IF judging < MaxAttempts
       THEN judging' = judging + 1 /\ UNCHANGED <<judgments, kept>>
       ELSE Publish(Abstention)
    /\ Unjudged

-----------------------------------------------------------------------------
(* Routing                                                                 *)

Goto(r, at) == route' = [route EXCEPT ![r].at = at]

Tell(r, status, substrate) ==
    /\ told' = [told EXCEPT ![r] = [status |-> status, substrate |-> substrate]]
    /\ Goto(r, "done")

\* Mutant: a substrate that does not answer is replaced by the mock.
BuiltAnyhow == IF mock \/ ~up THEN "mock" ELSE "real"

\* build_client: the mock only by request, and the real one only if it answers.
Built == IF mock THEN "mock" ELSE IF up THEN "real" ELSE "none"

\* Mutant: an abstention is routed like a judgment.
RefusedNever(j) == FALSE

RouteRefused(j) == judgments[j].abstained \/ judgments[j].quote = <<>>

\* POST /judgments/{id}/route up to the first call: 404, 503, 409, the mock's
\* own three calls, which cannot fail, or the substrate's.
Ask(r, j) ==
    /\ route[r].at = "new" /\ j \in DOMAIN judgments
    /\ route' = [route EXCEPT ![r] = [at |-> "asked", judgment |-> j]]
    /\ UNCHANGED <<deskVars, kept, client, up, told, chain, faults, edits, worldVars>>

Start(r) ==
    LET j == route[r].judgment
        substrate == IF client = "none" THEN Built ELSE client
    IN  /\ route[r].at = "asked"
        /\ IF j \notin kept
           THEN Tell(r, 404, "none") /\ UNCHANGED client
           ELSE /\ client' = substrate
                /\ IF substrate = "none" THEN Tell(r, 503, "none")
                   ELSE IF RouteRefused(j) THEN Tell(r, 409, "none")
                   ELSE IF substrate = "mock" THEN Tell(r, 202, "mock")
                   ELSE Goto(r, "signal") /\ UNCHANGED told
        /\ UNCHANGED <<deskVars, kept, up, chain, faults, edits, worldVars>>

\* Mutant: the effect is posted before the judgment it rests on.
CallsEffectFirst(at) == CASE at = "signal" -> "effect" [] at = "effect" -> "judgment"
                          [] at = "judgment" -> "answer"

\* route_judgment posts a signal, a judgment and an effect, in this order.
NextCall(at) == CASE at = "signal" -> "judgment" [] at = "judgment" -> "effect"
                  [] at = "effect" -> "answer"

\* What a call appends: the effect is untyped and claims to be reversible, so
\* the gate runs it at once.
Appends(r, at) ==
    LET j == <<"jdg", route[r].judgment>>
    IN  CASE at = "signal"   -> <<Line("signal.ingested", Permit, NoId, NoId)>>
          [] at = "judgment" -> <<Line("judgment.recorded", j, NoId, Permit)>>
          [] at = "effect"   -> [i \in 1..3 |->
                 Line(<<"effect.proposed", "effect.executing", "effect.executed">>[i],
                      <<"eff", r>>, j, Permit)]

\* A call that is answered; the last one leaves the effect in _EFFECTS.
Call(r) ==
    LET at == route[r].at IN
    /\ at \in {"signal", "judgment", "effect"} /\ up
    /\ chain' = chain \o Appends(r, at)
    /\ IF NextCall(at) = "answer" THEN Tell(r, 202, "real")
       ELSE Goto(r, NextCall(at)) /\ UNCHANGED told
    /\ UNCHANGED <<deskVars, kept, client, up, faults, edits, worldVars>>

\* A call that fails, whatever part of its lines was written by then: nothing
\* catches it, and the request ends in a 500.
CallFails(r) ==
    LET at == route[r].at IN
    /\ at \in {"signal", "judgment", "effect"}
    /\ faults < MaxFaults /\ faults' = faults + 1
    /\ \E n \in 0..Len(Appends(r, at)) :
          /\ up \/ n = 0
          /\ chain' = chain \o SubSeq(Appends(r, at), 1, n)
    /\ Tell(r, 500, "none")
    /\ UNCHANGED <<deskVars, kept, client, up, edits, worldVars>>

-----------------------------------------------------------------------------
(* Around it                                                               *)

SubstrateFlips ==
    /\ faults < MaxFaults /\ faults' = faults + 1
    /\ up' = ~up
    /\ UNCHANGED <<deskVars, kept, client, route, told, chain, edits, worldVars>>

\* Somebody edits a line of the file: another id, or another cause.
Edit(i) ==
    /\ edits < MaxEdits /\ edits' = edits + 1
    /\ \E field \in {"id", "judgment", "signal"}, other \in {chain[k].id : k \in DOMAIN chain} \cup {NoId} :
          /\ chain[i][field] # other
          /\ chain' = [chain EXCEPT ![i] = [@ EXCEPT ![field] = other, !.altered = TRUE]]
    /\ UNCHANGED <<deskVars, kept, client, up, route, told, faults, worldVars>>

\* docket restarts: judgments, effects and the client are in memory only.
Restart ==
    /\ restarts < MaxRestarts /\ restarts' = restarts + 1
    /\ judging' = 0 /\ kept' = {} /\ client' = "none"
    /\ route' = [r \in Routes |-> IF route[r].at = "new" THEN route[r]
                                  ELSE [route[r] EXCEPT !.at = "done"]]
    /\ UNCHANGED <<description, mock, judgments, up, told, chain, faults, edits>>

Init ==
    /\ description \in Descriptions /\ mock \in BOOLEAN
    /\ judging = 0 /\ judgments = <<>> /\ kept = {}
    /\ client = "none" /\ up = TRUE
    /\ route = [r \in Routes |-> [at |-> "new", judgment |-> 0]]
    /\ told = [r \in Routes |-> [status |-> 0, substrate |-> "none"]]
    /\ chain = <<>> /\ faults = 0 /\ edits = 0 /\ restarts = 0

Next ==
    \/ Judge \/ Declines \/ \E q \in Replies : Reply(q)
    \/ \E r \in Routes : \/ \E j \in DOMAIN judgments : Ask(r, j)
                         \/ Start(r) \/ Call(r) \/ CallFails(r)
    \/ SubstrateFlips \/ Restart
    \/ \E i \in DOMAIN chain : Edit(i)

Spec == Init /\ [][Next]_vars

-----------------------------------------------------------------------------
(* Properties                                                              *)

\* The variables have their types; a model is asked at most twice.
TypeOK ==
    /\ judging \in 0..2
    /\ kept \subseteq DOMAIN judgments
    /\ client \in {"none", "mock", "real"}
    /\ \A r \in Routes :
          /\ route[r].at \in {"new", "asked", "signal", "judgment", "effect", "done"}
          /\ told[r].status \in {0, 202, 404, 409, 500, 503}

\* What docket publishes as a finding rests on enough evidence, and its quote,
\* folded and white space aside, stands in the folded description in one piece
\* and in its case: regrouping digits on both sides never makes a match of other
\* words (judge.py: "an uncited judgment never leaves this service").  That
\* folding itself does is PublishedStands.
PublishedIsCited ==
    \A j \in DOMAIN judgments : ~judgments[j].abstained =>
        /\ ~Thin /\ Ink(Fold(judgments[j].quote)) # <<>>
        /\ Ink(Fold(judgments[j].quote)) \in SubSeqs(Ink(Fold(description)))

\* Violated by the code: the characters of a published quote stand in the
\* description (quotes.py: whitespace collapsing and NFKC folding "change
\* presentation, never which characters were claimed to be in the source").
PublishedStands ==
    \A j \in DOMAIN judgments : ~judgments[j].abstained =>
        Ink(judgments[j].quote) \in SubSeqs(Ink(description))

\* No quotation mark is in a text, as written or as folded.
Unquoted(text) ==
    \A n \in DOMAIN text : \A m \in DOMAIN Folds[text[n]] : Folds[text[n]][m] \notin Marks

\* Of each description: every span before its first quotation mark verifies that
\* neither begins with a combining mark nor is cut off before one.
SpansVerify ==
    [d \in Descriptions |->
        \A i, k \in DOMAIN d :
            LET span == SubSeq(d, i, k) IN
            /\ Inked(span) # {} /\ Unquoted(SubSeq(d, 1, k))
            /\ ~Combines(d[i]) /\ (k = Len(d) \/ ~Combines(d[k + 1]))
            => Verify(span, d).valid]

\* A span copied from the description as it stands is accepted, however its
\* digits are grouped and whatever it is folded to, if no quotation mark stands
\* before its end (quotes.py: "a purely byte-exact match would reject honest
\* quotes over typesetting").
HonestSpanAccepted == SpansVerify[description]

\* Whatever judgment reaches the chain is one docket accepted, with a quote
\* (routing.py: "An abstention produces NO effect").
OnlyAcceptedLeaves ==
    \A i \in DOMAIN chain :
        (chain[i].type = "judgment.recorded" /\ ~chain[i].altered) =>
            ~judgments[chain[i].id[2]].abstained

\* Every effect of the chain as it was written walks back to its judgment and
\* the permit's signal, whatever calls failed and however requests overlapped
\* (routing.py: "so the route can be walked back to the sentence it came from").
EffectIsTraceable ==
    edits = 0 =>
        \A i \in DOMAIN chain : chain[i].type \in EffectLines =>
            LET w == WalkEffect(chain, chain[i].id)
            IN  w.complete /\ w.judgment # {}

\* In an edited file a walk whose hops all verify and that is complete still
\* names the judgment this effect was proposed for (walk.py: "a tick that
\* cannot go red would be decoration").
VerifiedWalkIsTrue ==
    \A r \in Routes :
        Of(chain, EffectLines, <<"eff", r>>) # {} =>
            LET w == WalkEffect(chain, <<"eff", r>>)
            IN  (w.complete /\ w.verified /\ w.judgment # {}) =>
                   /\ chain[Min(w.judgment)].id = <<"jdg", route[r].judgment>>
                   /\ chain[Min(w.signal)].id = Permit

\* A route answered 202 executed on the substrate it names, and the mock
\* answers only where somebody asked for it (clients/throughline.py: "Real
\* substrate when it answers; otherwise refuse, never fabricate").
AnswerIsOnTheChain ==
    \A r \in Routes : told[r].status = 202 =>
        \/ mock /\ told[r].substrate = "mock"
        \/ /\ told[r].substrate = "real"
           /\ edits > 0 \/ Of(chain, {"effect.executed"}, <<"eff", r>>) # {}

\* The variables have their types, and what routes left behind, whatever failed,
\* is accepted judgments, effects that walk back to them, and the answers given
\* (routing.py, route_judgment).
RoutesAreSound == TypeOK /\ OnlyAcceptedLeaves /\ EffectIsTraceable /\ AnswerIsOnTheChain

\* The check of quotes errs on neither side: nothing uncited is published and
\* no honest span is turned away (quotes.py, verify_quote).
QuotesAreSound == PublishedIsCited /\ HonestSpanAccepted

===============================================================================
