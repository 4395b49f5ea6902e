-------------------------------- MODULE Quotes --------------------------------
(***************************************************************************)
(* docket's verbatim check (quotes.py): does a quote a model returned      *)
(* appear in the permit description?  A text is a sequence of characters   *)
(* of the few kinds the rules tell apart: a digit, a space, other white    *)
(* space, letters of both cases, the quotation marks, and the characters   *)
(* that Unicode's NFKC folds into others: Folds says into which, Composes  *)
(* which two then become one.  Not modelled is that NFKC also sorts        *)
(* several combining marks that follow one letter.                         *)
(***************************************************************************)
EXTENDS Integers, SequencesExt

CONSTANTS
    Chars,       \* the kinds of characters texts are made of
    Folds,       \* a character -> what it is made of, as NFKC writes it
    Composes     \* <<a character, a combining mark>> -> the one they become

Digits   == {"9"}
White    == {" ", "tab", "nbsp"}
Straight == {"quot", "apos"}
Closing  == [c \in Straight \cup {"open"} |-> IF c = "open" THEN "close" ELSE c]
Openers  == DOMAIN Closing
Marks    == Openers \cup {"close"}

\* What NFKC leaves as it is, and never takes for a letter.
ASSUME QuotesAssumption ==
    /\ White \cup Marks \subseteq Chars
    /\ Folds \in [Chars -> Seq(Chars)]
    /\ \A c \in Chars :
          /\ Folds[c] # <<>>
          /\ c \in White <=> \A n \in DOMAIN Folds[c] : Folds[c][n] \in White
          /\ c \in Marks => Folds[c] = <<c>>
    /\ \A p \in DOMAIN Composes :
          /\ p \in Chars \X Chars /\ Composes[p] \in Chars
          /\ {p[1], p[2], Composes[p]} \cap (White \cup Marks) = {}

Lower(c) == IF c = "A" THEN "a" ELSE c

\* The characters of a text at some of its positions, in order.
Pick(text, positions) ==
    LET picked[i \in 0..Len(text)] ==
            IF i = 0 THEN <<>>
            ELSE IF i \in positions THEN Append(picked[i - 1], text[i]) ELSE picked[i - 1]
    IN  picked[Len(text)]

Inked(text) == {i \in DOMAIN text : text[i] \notin White}

Strip(text) ==
    LET ink == Inked(text) IN
    Pick(text, {i \in DOMAIN text : \E j, k \in ink : j <= i /\ i <= k})

\* A run of white space becomes one space.
Collapse(text) ==
    LET s == Strip(text)
        kept == {i \in DOMAIN s : s[i] \notin White \/ s[i - 1] \notin White}
        p == Pick(s, kept)
    IN  [i \in DOMAIN p |-> IF p[i] \in White THEN " " ELSE p[i]]

\* The mark that would close the quotation each position lies in, if any: a
\* mark never closed quotes the rest of the text.
ClosesAt(text) ==
    LET closer[i \in 1..Len(text) + 1] ==
            IF i = 1 THEN ""
            ELSE LET c == closer[i - 1] IN
                 IF c = "" THEN (IF text[i - 1] \in Openers THEN Closing[text[i - 1]] ELSE "")
                 ELSE IF text[i - 1] = c THEN "" ELSE c
    IN  closer

\* Spaces with a digit on both sides, outside every quotation.
DigitGroupSpaces(text) ==
    LET closer == ClosesAt(text) IN
    {i \in DOMAIN text :
        /\ text[i] = " " /\ closer[i] = ""
        /\ \E j, k \in DOMAIN text :
              /\ j < i /\ i < k /\ text[j] \in Digits /\ text[k] \in Digits
              /\ \A l \in (j + 1)..(k - 1) : text[l] = " "}

Regroup(text) == Collapse(Pick(text, DOMAIN text \ DigitGroupSpaces(text)))

\* A text with one more character, as folded: a letter takes the mark after it.
Joined(text, piece) ==
    IF text # <<>> /\ <<Last(text), piece[1]>> \in DOMAIN Composes
    THEN Front(text) \o <<Composes[<<Last(text), piece[1]>>]>> \o Tail(piece)
    ELSE text \o piece

\* Unicode's NFKC.
Fold(text) ==
    LET folded[i \in 0..Len(text)] ==
            IF i = 0 THEN <<>> ELSE Joined(folded[i - 1], Folds[text[i]])
    IN  folded[Len(text)]

Normalize(text) == Regroup(Fold(text))

\* One layer of marks the model put around its span.
StripWrapping(quote) ==
    LET q == Strip(quote) IN
    IF /\ Len(q) >= 2 /\ q[1] \in Marks
       /\ q[Len(q)] = (IF q[1] \in Openers THEN Closing[q[1]] ELSE q[1])
    THEN Strip(SubSeq(q, 2, Len(q) - 1)) ELSE q

\* Mutant: only the quote's digits are regrouped.
HaystackAsWritten(source) == Collapse(Fold(source))

Haystack(source) == Normalize(source)

\* Mutant: the case the model retyped does not matter.
AppearsInAnyCase(needle, haystack) ==
    LET low(text) == [i \in DOMAIN text |-> Lower(text[i])]
    IN  low(needle) \in SubSeqs(low(haystack))

Appears(needle, haystack) == needle \in SubSeqs(haystack)

\* verify_quote: the quote as it would be published, and whether it may be.
Verify(quote, source) ==
    LET bare == StripWrapping(quote)
        needle == Normalize(bare)
    IN  [quote |-> bare,
         valid |-> /\ Inked(source) # {} /\ needle # <<>>
                   /\ Appears(needle, Haystack(source))]

\* A character that a letter before it would take.
Combines(c) == \E d \in Chars : <<d, Folds[c][1]>> \in DOMAIN Composes

\* A text without its white space.
Ink(text) == Pick(text, Inked(text))
===============================================================================
