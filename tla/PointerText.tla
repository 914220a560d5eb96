----------------------------- MODULE PointerText -----------------------------
(***************************************************************************)
(* The text form of a JSON Pointer: validating, tokenising and decoding    *)
(* it, and writing tokens back with to_string().  A string is a sequence   *)
(* of one-character strings.                                               *)
(***************************************************************************)
EXTENDS Integers, Sequences, SequencesExt

CONSTANT
  LongLongMax      \* the largest qlonglong, scaled down

ASSUME LongLongMaxAssumption == LongLongMax \in Nat

Token(kind, index, key) == [kind |-> kind, index |-> index, key |-> key]

NotANumber == [ok |-> FALSE, value |-> 0]

DigitChar(d) == <<"0", "1", "2", "3", "4", "5", "6", "7", "8", "9">>[d + 1]
Digits == {DigitChar(d) : d \in 0..9}
DigitValue(c) == CHOOSE d \in 0..9 : DigitChar(d) = c

-----------------------------------------------------------------------------
(* Qt's number conversions *)

\* QString::number(n)
NaturalText(n) ==
  LET text[k \in 0..n] ==
        IF k < 10 THEN <<DigitChar(k)>> ELSE text[k \div 10] \o <<DigitChar(k % 10)>>
  IN text[n]
NumberText(n) == IF n < 0 THEN <<"-">> \o NaturalText(-n) ELSE NaturalText(n)

\* QString::trimmed()
Trimmed(s) ==
  LET solid == {j \in 1..Len(s) : s[j] # " "}
  IN IF solid = {} THEN <<>> ELSE SubSeq(s, Min(solid), Max(solid))

Magnitude(digits) ==
  LET value[k \in 0..Len(digits)] ==
        IF k = 0 THEN 0 ELSE 10 * value[k - 1] + DigitValue(digits[k])
  IN value[Len(digits)]

\* QString::toLongLong(&ok): surrounding blanks and a sign are accepted.
ToLongLong(s) ==
  LET t == Trimmed(s)
      signed == t # <<>> /\ Head(t) \in {"+", "-"}
      digits == IF signed THEN Tail(t) ELSE t
  IN IF digits = <<>> \/ ~(ToSet(digits) \subseteq Digits) THEN NotANumber
     ELSE IF Magnitude(digits) > LongLongMax THEN NotANumber
     ELSE [ok |-> TRUE, value |-> IF t[1] = "-" THEN -Magnitude(digits) ELSE Magnitude(digits)]

-----------------------------------------------------------------------------
(* Parsing *)

\* validatePointerSyntax: an escape's second character is skipped.
ValidPointerSyntax(s) ==
  LET valid[j \in 2..Len(s) + 2] ==
        IF j > Len(s) THEN TRUE
        ELSE IF s[j] # "~" THEN valid[j + 1]
        ELSE j < Len(s) /\ s[j + 1] \in {"0", "1"} /\ valid[j + 2]
  IN s = <<>> \/ (s[1] = "/" /\ valid[2])

\* Mutant: "~0" is replaced first, then "~1".
DecodeInTwoPasses(raw) ==
  LET pass(s, digit, char) ==
        LET out[rd \in 1..Len(s) + 1] ==
              IF rd > Len(s) THEN <<>>
              ELSE IF s[rd] = "~" /\ rd < Len(s) /\ s[rd + 1] = digit
                   THEN <<char>> \o out[rd + 2]
                   ELSE <<s[rd]>> \o out[rd + 1]
        IN out[1]
  IN pass(pass(raw, "0", "~"), "1", "/")

DecodeToken(raw) ==
  LET out[rd \in 1..Len(raw) + 1] ==
        IF rd > Len(raw) THEN <<>>
        ELSE IF raw[rd] = "~" /\ rd < Len(raw) /\ raw[rd + 1] \in {"0", "1"}
             THEN <<IF raw[rd + 1] = "0" THEN "~" ELSE "/">> \o out[rd + 2]
             ELSE <<raw[rd]>> \o out[rd + 1]
  IN out[1]

\* parseArrayIndex: no leading zeros, then whatever toLongLong takes.
ParseArrayIndex(s) ==
  CASE s = <<>> -> NotANumber
    [] s = <<"0">> -> [ok |-> TRUE, value |-> 0]
    [] Len(s) > 1 /\ s[1] = "0" -> NotANumber
    [] OTHER -> IF ToLongLong(s).value < 0 THEN NotANumber ELSE ToLongLong(s)

\* How parsePointer and appended classify a decoded token.
Classified(key) ==
  IF ParseArrayIndex(key).ok THEN Token("Index", ParseArrayIndex(key).value, key)
  ELSE Token("Key", 0, key)

\* The loop of parsePointer over the '/'-separated tokens from position begin.
Tokens(s) ==
  LET from[begin \in 2..Len(s) + 1] ==
        LET slashes == {j \in begin..Len(s) : s[j] = "/"}
        IN IF slashes = {} THEN <<Classified(DecodeToken(SubSeq(s, begin, Len(s))))>>
           ELSE <<Classified(DecodeToken(SubSeq(s, begin, Min(slashes) - 1)))>>
                  \o from[Min(slashes) + 1]
  IN from[2]

ParsePointer(s) ==
  CASE s = <<>> -> <<>>
    [] Len(s) = 1 -> <<Token("Key", 0, <<>>)>>
    [] OTHER -> Tokens(s)

-----------------------------------------------------------------------------
(* Writing *)

EscapedChar(char) ==
  IF char = "~" THEN <<"~", "0">> ELSE IF char = "/" THEN <<"~", "1">> ELSE <<char>>
Escape(key) == FlattenSeq([j \in 1..Len(key) |-> EscapedChar(key[j])])

\* JSONPointer::to_string: an Index token is re-encoded from its number.
TokenText(token) ==
  <<"/">> \o IF token.kind = "Key" THEN Escape(token.key) ELSE NumberText(token.index)
PointerText(tks) == FlattenSeq([j \in 1..Len(tks) |-> TokenText(tks[j])])

\* A token as it is read back from its text: an index loses its spelling.
Canonical(token) ==
  IF token.kind = "Key" THEN token ELSE Token("Index", token.index, NumberText(token.index))
CanonicalTokens(tks) == [j \in 1..Len(tks) |-> Canonical(tks[j])]

=============================================================================
