----------------------------- MODULE QuotedNames ------------------------------
(***************************************************************************)
(* Names between quotes: whether one is valid, and the name it stands for. *)
(* These are two walks over the same text, each with its own arithmetic,   *)
(* and the parser has found the closing quote before, in a third.  Between *)
(* quotes a lexeme is a UTF-16 code unit, as a QChar is.                   *)
(***************************************************************************)
EXTENDS Integers, Sequences, TLC

CONSTANT
  CodeUnits   \* the number of each code unit

Backslash == "\\"

\* The value of a hexadecimal digit, or -1.  Arabic-Indic digits stand for all
\* that QChar::isDigit takes and toUInt does not.
HexValue(c) ==
  LET n == CodeUnits[c]
  IN CASE n \in 48..57     -> n - 48
       [] n \in 65..70     -> n - 55
       [] n \in 97..102    -> n - 87
       [] n \in 1632..1641 -> n - 1632
       [] OTHER            -> -1

\* The code of the escape \uXXXX that begins at position p of s.
HasHexDigits(s, p) == p + 5 <= Len(s) /\ \A k \in 2..5 : HexValue(s[p + k]) >= 0
HexCode(s, p) ==
  HexValue(s[p + 2]) * 4096 + HexValue(s[p + 3]) * 256 + HexValue(s[p + 4]) * 16 + HexValue(s[p + 5])

IsHigh(code) == code \in 55296..56319
IsLow(code) == code \in 56320..57343

UnitOf(code) ==
  IF \E c \in DOMAIN CodeUnits : CodeUnits[c] = code
  THEN CHOOSE c \in DOMAIN CodeUnits : CodeUnits[c] = code
  ELSE ToString(code)

\* Escapes of one character, with the code unit each stands for.
\* Mutant: those of JSON, which has none for an apostrophe.
JsonEscapes ==
  "\"" :> 34 @@ Backslash :> 92 @@ "/" :> 47 @@ "b" :> 8 @@ "f" :> 12 @@ "n" :> 10 @@ "r" :> 13 @@ "t" :> 9

ShortEscapes ==
  "\"" :> 34 @@ "'" :> 39 @@ Backslash :> 92 @@ "/" :> 47 @@ "b" :> 8 @@ "f" :> 12 @@ "n" :> 10
  @@ "r" :> 13 @@ "t" :> 9

\* isValidQuotedKey.  low is expectLowSurrogate.
IsValidQuotedKey(s, quote) ==
  LET valid[p \in Nat, low \in BOOLEAN] ==
        IF p > Len(s) THEN ~low
        ELSE IF CodeUnits[s[p]] < 32 \/ s[p] = quote THEN FALSE
        ELSE IF s[p] # Backslash THEN ~low /\ valid[p + 1, low]
        ELSE IF p = Len(s) THEN FALSE
        ELSE IF s[p + 1] # "u"
             THEN s[p + 1] \in {Backslash, "/", "b", "f", "n", "r", "t", quote} /\ valid[p + 2, low]
        ELSE HasHexDigits(s, p) /\
             LET code == HexCode(s, p)
             IN IF low THEN IsLow(code) /\ valid[p + 6, FALSE]
                ELSE IF IsHigh(code)
                     THEN p + 11 <= Len(s) /\ s[p + 6] = Backslash /\ s[p + 7] = "u" /\ valid[p + 6, TRUE]
                ELSE ~IsLow(code) /\ valid[p + 6, FALSE]
  IN valid[1, FALSE]

\* unescapeQuotedKey
UnescapeQuotedKey(s) ==
  LET Converts(p) == HasHexDigits(s, p) /\ \A k \in 2..5 : CodeUnits[s[p + k]] < 128
      from[p \in Nat] ==
        IF p > Len(s) THEN <<>>
        ELSE IF s[p] = Backslash /\ p < Len(s) /\ s[p + 1] \in DOMAIN ShortEscapes
             THEN <<UnitOf(ShortEscapes[s[p + 1]])>> \o from[p + 2]
        ELSE IF s[p] = Backslash /\ p < Len(s) /\ s[p + 1] = "u" /\ Converts(p)
             THEN <<UnitOf(HexCode(s, p))>> \o from[p + 6]
        ELSE <<s[p]>> \o from[p + 1]
  IN from[1]

=============================================================================
