------------------------------- MODULE PersonId -------------------------------
(***************************************************************************)
(* Package id: a person's key as the text "X-000123", and back; and        *)
(* strconv.ParseInt, which the other ids in paths and forms go through.    *)
(* A text is a sequence of characters.                                     *)
(***************************************************************************)
EXTENDS Integers, SequencesExt

CONSTANTS Width,    \* digits an id is padded to (6)
          MaxId     \* the largest int64

ASSUME PersonIdAssumption == Width \in Nat /\ MaxId \in Nat

DigitChar == <<"0", "1", "2", "3", "4", "5", "6", "7", "8", "9">>
DigitValue == [c \in {DigitChar[i] : i \in 1..10} |->
                  (CHOOSE i \in 1..10 : DigitChar[i] = c) - 1]

\* No id: an error was returned.
NoId == 0

Positive(n) == IF n > 0 THEN n ELSE NoId

Space == " "

TrimSpace(s) ==
    LET ink == {i \in DOMAIN s : s[i] # Space}
    IN IF ink = {} THEN << >> ELSE SubSeq(s, Min(ink), Max(ink))

Signed(s) == s # << >> /\ s[1] \in {"+", "-"}
Unsigned(s) == IF Signed(s) THEN Tail(s) ELSE s

IsNumber(s) == /\ Unsigned(s) # << >>
               /\ \A i \in DOMAIN Unsigned(s) : Unsigned(s)[i] \in DOMAIN DigitValue

\* What the digits up to each position come to.
Values(digits) ==
    LET upTo[k \in 0..Len(digits)] ==
          IF k = 0 THEN 0 ELSE 10 * upTo[k - 1] + DigitValue[digits[k]]
    IN upTo

Magnitude(s) == Values(Unsigned(s))[Len(Unsigned(s))]

\* strconv.ParseInt(s, 10, 64).  What is not a number and what is out of range are
\* both an error.
ParseInt(s) ==
    IF ~IsNumber(s) \/ Magnitude(s) > MaxId THEN NoId
    ELSE IF Signed(s) /\ s[1] = "-" THEN -Magnitude(s) ELSE Magnitude(s)

\* parseSystemID, parseStewardID, parseAssociationID and their web twins.
ParseNumber(s) == Positive(ParseInt(TrimSpace(s)))

TrimPrefix(s, c) == IF s # << >> /\ s[1] = c THEN Tail(s) ELSE s

\* Mutant: the dash is dropped whether or not there is an X before it.
Parse_DashAnyway(s) ==
    LET body == TrimSpace(s)
        rest == IF body # << >> /\ body[1] \in {"X", "x"} THEN Tail(body) ELSE body
    IN Positive(ParseInt(TrimPrefix(rest, "-")))

Parse(s) ==
    LET body == TrimSpace(s)
        rest == IF body # << >> /\ body[1] \in {"X", "x"}
                THEN TrimPrefix(Tail(body), "-") ELSE body
    IN Positive(ParseInt(rest))

DigitsOf[n \in 0..MaxId] ==
    IF n < 10 THEN <<DigitChar[n + 1]>> ELSE Append(DigitsOf[n \div 10], DigitChar[(n % 10) + 1])

Zeros(k) == [i \in 1..k |-> "0"]

Format(n) == <<"X", "-">> \o Zeros(Width - Len(DigitsOf[n])) \o DigitsOf[n]

===============================================================================
