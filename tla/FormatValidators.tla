--------------------------- MODULE FormatValidators ---------------------------
(***************************************************************************)
(* validateFormat: the validators behind the format keyword.  A text is a  *)
(* sequence of one-character strings.  A validator's two kinds of failure  *)
(* (FormatInvalid, FormatSemanticInvalid) count the same for its caller,   *)
(* so each is a predicate here.  Left out is the format regex, which a     *)
(* library decides alone, and a build with a library for the idn- formats. *)
(***************************************************************************)
EXTENDS Integers, Sequences, SequencesExt

CONSTANTS
  MaxEmail, MaxLocalPart, MaxHostname, MaxLabel,   \* 254, 64, 253 and 63 in the code
  Ipv4Texts, Ipv6Texts,   \* external: the texts that QHostAddress takes for an address
  UrlTexts, SchemeTexts   \* external: those that QUrl takes in strict mode, and with a scheme

ASSUME FormatAssumption == {MaxEmail, MaxLocalPart, MaxHostname, MaxLabel} \subseteq Nat

Digit == {"0", "1", "2", "3", "4", "5", "6", "7", "8", "9"}
Hex == Digit \cup {"a", "b", "c", "d", "e", "f", "A", "B", "C", "D", "E", "F"}
Alphanumeric ==
  Hex \cup {"g", "h", "i", "j", "k", "l", "m", "n", "o", "p", "q", "r", "s", "t", "u", "v", "w",
            "x", "y", "z", "G", "H", "I", "J", "K", "L", "M", "N", "O", "P", "Q", "R", "S", "T",
            "U", "V", "W", "X", "Y", "Z"}
NonAsciiDigit == "U+09E8"   \* a digit for QChar::isDigit, not for [0-9]
AnyDigit == Digit \cup {NonAsciiDigit}

Number(s) == FoldLeft(LAMBDA sum, c : 10 * sum + (CHOOSE d \in 0..9 : ToString(d) = c), 0, s)
\* The two-digit number at a position.
Two(s, p) == Number(SubSeq(s, p, p + 1))

\* The text has one character out of each set.
Matches(s, shape) == Len(s) = Len(shape) /\ \A k \in 1..Len(s) : s[k] \in shape[k]
All(s, C) == ToSet(s) \subseteq C

Pieces(s, separator) ==
  FoldLeft(LAMBDA parts, c : IF c = separator THEN Append(parts, <<>>)
                             ELSE [parts EXCEPT ![Len(parts)] = Append(@, c)],
           <<<<>>>>, s)

\* The loops over digits: the first position from p on that holds none.
DigitsEnd(s, p) == Min({q \in p..Len(s) + 1 : q = Len(s) + 1 \/ s[q] \notin AnyDigit})

-----------------------------------------------------------------------------
(* Dates and times *)

DateShape == <<Digit, Digit, Digit, Digit, {"-"}, Digit, Digit, {"-"}, Digit, Digit>>
ClockShape == <<Digit, Digit, {":"}, Digit, Digit, {":"}, Digit, Digit>>
OffsetShape == <<{"+", "-"}, Digit, Digit, {":"}, Digit, Digit>>

\* timePattern: [0-9]{2}:[0-9]{2}:[0-9]{2}(\.[0-9]+)?([Zz]|[\+\-][0-9]{2}:[0-9]{2})?
TimePattern(s) ==
  /\ Len(s) >= 8 /\ Matches(SubSeq(s, 1, 8), ClockShape)
  /\ LET zone(z) == z \in {<<>>, <<"Z">>, <<"z">>} \/ Matches(z, OffsetShape)
     IN \/ zone(SubSeq(s, 9, Len(s)))
        \/ \E p \in 11..Len(s) + 1 : /\ s[9] = "." /\ All(SubSeq(s, 10, p - 1), Digit)
                                     /\ zone(SubSeq(s, p, Len(s)))

\* QDate::fromString(.., Qt::ISODate) of a text of that shape is valid: the
\* calendar is the Gregorian one, and has no year 0.
ValidDate(year, month, day) ==
  LET leap == year % 4 = 0 /\ (year % 100 = 0 => year % 400 = 0)
      last == IF month = 2 THEN (IF leap THEN 29 ELSE 28) ELSE IF month \in {4, 6, 9, 11} THEN 30 ELSE 31
  IN year > 0 /\ month \in 1..12 /\ day \in 1..last

IsDate(s) ==
  Matches(s, DateShape) /\ ValidDate(Number(SubSeq(s, 1, 4)), Two(s, 6), Two(s, 9))

\* Mutant: the leap second is looked for in local time.
LocalMinutes(hour, minute, offset) == hour * 60 + minute

UtcMinutes(hour, minute, offset) == (hour * 60 + minute - offset + 24 * 60) % (24 * 60)

IsTime(s) ==
  /\ TimePattern(s)
  /\ Two(s, 1) <= 23 /\ Two(s, 4) <= 59 /\ Two(s, 7) <= 60
  /\ LET zone == IF Len(s) >= 9 /\ s[9] = "." THEN DigitsEnd(s, 10) ELSE 9
         signed == s[zone] \in {"+", "-"}
         offset == IF ~signed THEN 0
                   ELSE (Two(s, zone + 1) * 60 + Two(s, zone + 4)) * (IF s[zone] = "+" THEN 1 ELSE -1)
     IN /\ zone <= Len(s)
        /\ s[zone] \in {"Z", "z", "+", "-"}
        /\ signed => zone + 5 <= Len(s) /\ Two(s, zone + 1) <= 23 /\ Two(s, zone + 4) <= 59
        /\ Two(s, 7) = 60 => UtcMinutes(Two(s, 1), Two(s, 4), offset) = 23 * 60 + 59

\* The time zone is part of dateTimePattern, and of what isTime demands.
IsDateTime(s) ==
  /\ Len(s) > 11
  /\ s[11] \in {"T", "t"}
  /\ IsDate(SubSeq(s, 1, 10))
  /\ IsTime(SubSeq(s, 12, Len(s)))

\* parseComponents: numbers with units in their order, each at most once; ends
\* before the first number that has none of the units left behind it.
ParseComponents(s, begin, units, fractions) ==
  LET from[p \in 1..Len(s) + 1, u \in 1..Len(units) + 1, found \in BOOLEAN] ==
        LET whole == DigitsEnd(s, p)
            unit == IF fractions /\ whole <= Len(s) /\ s[whole] = "."
                    THEN DigitsEnd(s, whole + 1) ELSE whole
            left == {j \in u..Len(units) : unit <= Len(s) /\ s[unit] = units[j]}
        IN IF whole = p \/ left = {} THEN [pos |-> p, found |-> found]
           ELSE from[unit + 1, Min(left) + 1, TRUE]
  IN from[begin, 1, FALSE]

IsDuration(s) ==
  /\ Len(s) > 1 /\ s[1] = "P"
  /\ NonAsciiDigit \notin ToSet(s)
  /\ IF "W" \in ToSet(s) THEN Len(s) > 2 /\ DigitsEnd(s, 2) = Len(s) /\ s[Len(s)] = "W"
     ELSE LET date == ParseComponents(s, 2, <<"Y", "M", "D">>, FALSE)
              timed == date.pos <= Len(s) /\ s[date.pos] = "T"
              time == ParseComponents(s, date.pos + 1, <<"H", "M", "S">>, TRUE)
          IN IF timed THEN date.pos < Len(s) /\ (date.found \/ time.found) /\ time.pos = Len(s) + 1
             ELSE date.found /\ date.pos = Len(s) + 1

-----------------------------------------------------------------------------
(* Hosts and mailboxes *)

\* hostnamePattern, label by label
LabelPattern(label) ==
  /\ label # <<>>
  /\ {Head(label), Last(label)} \subseteq Alphanumeric
  /\ All(label, Alphanumeric \cup {"-"})

IsHostname(s) ==
  /\ s # <<>> /\ Len(s) <= MaxHostname
  /\ \A label \in ToSet(Pieces(s, ".")) :
       /\ LabelPattern(label)
       /\ Len(label) <= MaxLabel
       /\ ~(Len(label) >= 4 /\ label[3] = "-" /\ label[4] = "-")

\* ipv4Pattern: QHostAddress alone would take fewer numbers, too.
IsIpv4(s) ==
  LET parts == Pieces(s, ".")
  IN /\ Len(parts) = 4 /\ \A part \in ToSet(parts) : Len(part) \in 1..3 /\ All(part, Digit)
     /\ s \in Ipv4Texts

IsIpv6(s) ==
  /\ s # <<>> /\ s[1] # " " /\ Last(s) # " "
  /\ "%" \notin ToSet(s)
  /\ s \in Ipv6Texts

\* "backquote" stands for that character.
Atext ==
  {"!", "#", "$", "%", "&", "'", "*", "+", "/", "=", "?", "^", "_", "backquote", "{", "|", "}", "~", "-"}

LocalPart(local) ==
  /\ local # <<>> /\ Len(local) <= MaxLocalPart
  /\ IF local[1] = "\"" /\ Last(local) = "\"" THEN Len(local) >= 2
     ELSE /\ local[1] # "." /\ Last(local) # "."
          /\ All(local, Alphanumeric \cup {NonAsciiDigit, "."} \cup Atext)
          /\ \A k \in 1..Len(local) - 1 : ~(local[k] = "." /\ local[k + 1] = ".")

DomainPart(domain) ==
  IF domain[1] = "[" /\ Last(domain) = "]"
  THEN LET inner == SubSeq(domain, 2, Len(domain) - 1)
           tag == <<"I", "P", "v", "6", ":">>
       IN IF IsPrefix(tag, inner) THEN SubSeq(inner, 6, Len(inner)) \in Ipv6Texts ELSE inner \in Ipv4Texts
  ELSE IsHostname(domain)

\* isEmail: the last "@" separates the two parts.
IsEmail(s) ==
  /\ s # <<>> /\ Len(s) <= MaxEmail
  /\ LET ats == {k \in 1..Len(s) : s[k] = "@"}
         at == Max(ats)
     IN /\ ats # {} /\ at > 1 /\ at < Len(s)
        /\ LocalPart(SubSeq(s, 1, at - 1))
        /\ DomainPart(SubSeq(s, at + 1, Len(s)))

-----------------------------------------------------------------------------
(* Texts of other formats *)

\* jsonPointerPattern, token by token
IsJsonPointer(s) ==
  LET tokens == Pieces(s, "/")
  IN /\ tokens[1] = <<>>
     /\ \A token \in ToSet(tokens) : \A k \in 1..Len(token) :
          token[k] = "~" => k < Len(token) /\ token[k + 1] \in {"0", "1"}

\* relativeJsonPointerPattern: a number, then "#" or a pointer
IsRelativeJsonPointer(s) ==
  LET start == Min({q \in 1..Len(s) + 1 : q = Len(s) + 1 \/ s[q] \notin Digit})
      rest == SubSeq(s, start, Len(s))
  IN /\ start > 1
     /\ rest = <<"#">> \/ IsJsonPointer(rest)
     /\ ~(Len(s) >= 2 /\ s[1] = "0" /\ s[2] \in AnyDigit)

Delimiters == {" ", "<", ">", "\"", "{", "}", "|", "\\", "^", "backquote"}
ControlCharacter == "U+0001"
NonAscii == {NonAsciiDigit}

\* containsInvalidUriChars
ContainsInvalidUriChars(s) == ToSet(s) \cap (Delimiters \cup NonAscii) # {}

IsUriReference(s) == ~ContainsInvalidUriChars(s) /\ s \in UrlTexts
IsUri(s) == IsUriReference(s) /\ s \in SchemeTexts

IsIriReference(s) == ToSet(s) \cap (Delimiters \cup {ControlCharacter}) = {} /\ s \in UrlTexts
IsIri(s) == IsIriReference(s) /\ s \in SchemeTexts

\* uriTemplatePattern: every brace belongs to a pair with something, and no
\* other brace, in it.
IsUriTemplate(s) ==
  LET braces == {k \in 1..Len(s) : s[k] \in {"{", "}"}}
      Pair(k, q) == s[k] = "{" /\ s[q] = "}" /\ q > k + 1 /\ braces \cap (k + 1)..(q - 1) = {}
  IN \A k \in braces : \E q \in braces : Pair(k, q) \/ Pair(q, k)

\* uuidPattern
IsUuid(s) ==
  /\ Len(s) = 36
  /\ \A k \in 1..36 : s[k] \in (IF k \in {9, 14, 19, 24} THEN {"-"} ELSE Hex)

-----------------------------------------------------------------------------

\* validateFormat, in a build without IDN support: an unknown format holds.
ValidateFormat(format, s) ==
  CASE format = "date-time" -> IsDateTime(s)
    [] format = "date" -> IsDate(s)
    [] format = "time" -> IsTime(s)
    [] format \in {"email", "idn-email"} -> IsEmail(s)
    [] format \in {"hostname", "idn-hostname"} -> IsHostname(s)
    [] format = "ipv4" -> IsIpv4(s)
    [] format = "ipv6" -> IsIpv6(s)
    [] format = "uri" -> IsUri(s)
    [] format = "uri-reference" -> IsUriReference(s)
    [] format = "iri" -> IsIri(s)
    [] format = "iri-reference" -> IsIriReference(s)
    [] format = "uri-template" -> IsUriTemplate(s)
    [] format = "uuid" -> IsUuid(s)
    [] format = "json-pointer" -> IsJsonPointer(s)
    [] format = "relative-json-pointer" -> IsRelativeJsonPointer(s)
    [] format = "duration" -> IsDuration(s)
    [] OTHER -> TRUE

=============================================================================
