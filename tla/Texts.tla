--------------------------------- MODULE Texts ---------------------------------
(***************************************************************************)
(* All texts there are, typed one character at a time, against what the    *)
(* doc comment of id.Parse says it accepts.                                *)
(***************************************************************************)
EXTENDS PersonId

CONSTANTS Alphabet,     \* the characters typed
          MaxLen        \* bound: the length of a text

VARIABLE text

TextsInit == text = << >>

Type(c) == Len(text) < MaxLen /\ text' = Append(text, c)

TextsNext == \E c \in Alphabet : Type(c)

TextsSpec == TextsInit /\ [][TextsNext]_text

-------------------------------------------------------------------------------
(* Properties of package id. *)

\* The ways to begin an id: "either the canonical form (\"X-000123\", case-insensitive,
\* dash optional) or a bare integer string".
Beginning == {<< >>, <<"X">>, <<"x">>, <<"X", "-">>, <<"x", "-">>}

Numeral == {DigitsOf[n] : n \in 1..MaxId}

\* A way to read a text: the end of its beginning, any zeros up to a second place, and
\* a numeral after that.
IsReading(body, d) ==
    /\ d[1] <= d[2]
    /\ SubSeq(body, 1, d[1]) \in Beginning
    /\ \A i \in (d[1] + 1)..d[2] : body[i] = "0"
    /\ SubSeq(body, d[2] + 1, Len(body)) \in Numeral

\* The ids a text can be read as.
Meanings(s) ==
    LET body == TrimSpace(s)
        len == Len(body)
        readings == {d \in (0..len) \X (0..len) : IsReading(body, d)}
    IN {Magnitude(SubSeq(body, d[2] + 1, len)) : d \in readings}

\* Every text that can be read so is accepted as the number it says, never as another or
\* in two ways, and without a plus in it no other text is ("zero, negative, and
\* non-numeric inputs are rejected").  And the canonical form is "the stable public handle
\* for a person": however an id was written, its handle leads back to it, and no other id
\* has that handle.
ReadsAsDocumented(s) ==
    LET id == Parse(s) IN
    /\ Meanings(s) \subseteq {id}
    /\ (\A i \in DOMAIN s : s[i] # "+") => Meanings(s) = {id} \ {NoId}
    /\ id # NoId => \A n \in 1..MaxId : Format(n) = Format(id) => n = id
    /\ id # NoId => Parse(Format(id)) = id

\* So it is with every text.
DocumentedTextsAreRead == ReadsAsDocumented(text)

\* id.Parse "accepts either the canonical form [...] or a bare integer string".  Does not
\* hold: strconv.ParseInt takes a sign, and so do "+5", "X+5" and "X-+5" for 5.
OnlyDocumentedIsAccepted == Parse(text) # NoId => Meanings(text) # {}

===============================================================================
