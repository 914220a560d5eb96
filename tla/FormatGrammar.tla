---------------------------- MODULE FormatGrammar ----------------------------
(***************************************************************************)
(* What the formats mean, said apart from the validators: grammars as sets *)
(* of positions that a derivation can have reached, and arithmetic.        *)
(***************************************************************************)
EXTENDS FormatValidators

\* The pointers that JSONPointer::create accepts.
Pointer == INSTANCE PointerText WITH LongLongMax <- 0

\* The positions behind one character out of C, behind a number, from P on.
Behind(s, P, C) == {p + 1 : p \in {q \in P : q <= Len(s) /\ s[q] \in C}}
BehindNumber(s, P) ==
  {q \in 2..Len(s) + 1 : \E p \in P : p < q /\ All(SubSeq(s, p, q - 1), Digit)}

\* Nothing, or a number with the unit; a fraction may have no digits.
Component(s, P, unit, fractions) ==
  LET whole == BehindNumber(s, P)
      dot == IF fractions THEN Behind(s, whole, {"."}) ELSE {}
  IN P \cup Behind(s, whole \cup dot \cup BehindNumber(s, dot), {unit})

\* "P[nY][nM][nD][T[nH][nM][nS]] or P[n]W" (FormatValidators.cpp), and not
\* without a component behind P or T.
DurationMeant(s) ==
  LET begin == Behind(s, {1}, {"P"})
      dates == Component(s, Component(s, Component(s, begin, "Y", FALSE), "M", FALSE), "D", FALSE)
      t == Behind(s, dates, {"T"})
      times == Component(s, Component(s, Component(s, t, "H", TRUE), "M", TRUE), "S", TRUE)
      weeks == Behind(s, BehindNumber(s, begin), {"W"})
  IN Len(s) + 1 \in (dates \ begin) \cup (times \ t) \cup weeks

\* RFC 3339, 5.6 and 5.7: the offset is what the clock shows ahead of UTC, and a
\* leap second ends a day in UTC.
TimeMeant(s) ==
  LET Clock(h, m, sec) == h \in 0..23 /\ m \in 0..59 /\ sec \in 0..60
      Minutes(z) == IF Len(z) = 1 THEN 0
                    ELSE (IF z[1] = "-" THEN -1 ELSE 1) * (60 * Two(z, 2) + Two(z, 5))
      EndsDay(z) == \E days \in -1..1 :
                      60 * Two(s, 1) + Two(s, 4) = Minutes(z) + 24 * 60 * days + 24 * 60 - 1
  IN /\ Len(s) > 8 /\ Matches(SubSeq(s, 1, 8), ClockShape)
     /\ Clock(Two(s, 1), Two(s, 4), Two(s, 7))
     /\ \E p \in 9..Len(s) :
          LET fraction == SubSeq(s, 9, p - 1)
              z == SubSeq(s, p, Len(s))
          IN /\ fraction # <<>> => /\ fraction[1] = "." /\ Len(fraction) > 1
                                   /\ All(Tail(fraction), Digit)
             /\ \/ z \in {<<"Z">>, <<"z">>}
                \/ Matches(z, OffsetShape) /\ Clock(Two(z, 2), Two(z, 5), 0)
             /\ Two(s, 7) = 60 => EndsDay(z)

\* The months of the Gregorian calendar; a year 0 is not counted.
DateMeant(s) ==
  /\ Matches(s, DateShape)
  /\ LET year == Number(SubSeq(s, 1, 4))
         leap == year % 400 = 0 \/ (year % 4 = 0 /\ year % 100 # 0)
         lengths == <<31, IF leap THEN 29 ELSE 28, 31, 30, 31, 30, 31, 31, 30, 31, 30, 31>>
     IN year # 0 /\ \E month \in 1..12 : Two(s, 6) = month /\ Two(s, 9) \in 1..lengths[month]

\* RFC 3339, 5.6: a full-date, "T", a full-time
DateTimeMeant(s) ==
  \E p \in DOMAIN s : /\ s[p] \in {"T", "t"}
                      /\ DateMeant(SubSeq(s, 1, p - 1)) /\ TimeMeant(SubSeq(s, p + 1, Len(s)))

\* RFC 1123, 2.1, and RFC 5891, 4.2.3.1
HostnameMeant(s) ==
  LET LetterOrDigit(k) == k \in DOMAIN s /\ s[k] \in Alphanumeric
      Begins(k) == k = 1 \/ s[k - 1] = "."
  IN /\ Len(s) <= MaxHostname
     /\ LetterOrDigit(1) /\ LetterOrDigit(Len(s))
     /\ \A k \in DOMAIN s : \/ LetterOrDigit(k) \/ s[k] = "-"
                            \/ s[k] = "." /\ LetterOrDigit(k - 1) /\ LetterOrDigit(k + 1)
     /\ \A k \in 1..Len(s) - MaxLabel : "." \in {s[q] : q \in k..k + MaxLabel}
     /\ ~\E k \in 1..Len(s) - 3 : /\ Begins(k) /\ s[k + 2] = "-" /\ s[k + 3] = "-"
                                  /\ {s[k], s[k + 1]} \cap {"."} = {}

\* RFC 5321, 4.1.2: Local-part "@" ( Domain / address-literal ).  What stands
\* between quotes is not looked into.
MailboxMeant(s) ==
  /\ Len(s) <= MaxEmail
  /\ \E p \in DOMAIN s :
       LET local == SubSeq(s, 1, p - 1)
           domain == SubSeq(s, p + 1, Len(s))
           Atom(piece) == piece # <<>> /\ All(piece, Alphanumeric \cup {NonAsciiDigit} \cup Atext)
       IN /\ s[p] = "@" /\ Len(local) <= MaxLocalPart
          /\ \/ \A piece \in ToSet(Pieces(local, ".")) : Atom(piece)
             \/ \E quoted \in {SubSeq(local, 2, Len(local) - 1)} :
                  local = <<"\"">> \o quoted \o <<"\"">>
          /\ \/ HostnameMeant(domain)
             \/ \E literal \in Ipv4Texts \cup {<<"I", "P", "v", "6", ":">> \o t : t \in Ipv6Texts} :
                  domain = <<"[">> \o literal \o <<"]">>

\* A number without leading zeros, and then "#" or a pointer.
RelativeMeant(s) ==
  \E k \in DOMAIN s :
    LET rest == SubSeq(s, k + 1, Len(s))
    IN /\ All(SubSeq(s, 1, k), Digit) /\ (s[1] = "0" => k = 1)
       /\ rest = <<"#">> \/ Pointer!ValidPointerSyntax(rest)

\* RFC 6570, 2: literals and expressions, read from left to right.
TemplateMeant(s) ==
  LET Step(state, c) ==
        CASE state = "literal" /\ c = "{" -> "opened"
          [] state = "literal" /\ c # "}" -> "literal"
          [] state \in {"opened", "expression"} /\ c \notin {"{", "}"} -> "expression"
          [] state = "expression" /\ c = "}" -> "literal"
          [] OTHER -> "wrong"
  IN FoldLeft(Step, "literal", s) = "literal"

\* What QHostAddress takes, but four numbers, and no zone behind the address.
Ipv4Meant(s) == s \in Ipv4Texts /\ Len(SelectSeq(s, LAMBDA c : c = ".")) = 3
Ipv6Meant(s) == s \in Ipv6Texts /\ ~\E k \in DOMAIN s : s[k] = "%"

\* RFC 4122, 3
UuidMeant(s) ==
  LET groups == Pieces(s, "-")
  IN [k \in DOMAIN groups |-> Len(groups[k])] = <<8, 4, 4, 4, 12>> /\ All(s, Hex \cup {"-"})

\* RFC 3986, 2, and RFC 3987, 2.2: the characters of a URI, of which an IRI has
\* some more; QUrl sees to the rest.
UriCharacters ==
  Alphanumeric \cup {"-", ".", "_", "~", ":", "/", "?", "#", "[", "]", "@", "!", "$", "&", "'",
                    "(", ")", "*", "+", ",", ";", "=", "%"}
ReferenceMeant(s, more) == s \in UrlTexts /\ All(s, UriCharacters \cup more)

FormatMeant(format, s) ==
  CASE format = "date-time" -> DateTimeMeant(s)
    [] format = "date" -> DateMeant(s)
    [] format = "time" -> TimeMeant(s)
    [] format = "duration" -> DurationMeant(s)
    [] format = "email" -> MailboxMeant(s)
    [] format = "uri" -> ReferenceMeant(s, {}) /\ s \in SchemeTexts
    [] format = "uri-reference" -> ReferenceMeant(s, {})
    [] format = "iri" -> ReferenceMeant(s, NonAscii) /\ s \in SchemeTexts
    [] format = "iri-reference" -> ReferenceMeant(s, NonAscii)
    [] format = "ipv4" -> Ipv4Meant(s)
    [] format = "ipv6" -> Ipv6Meant(s)
    [] format = "uuid" -> UuidMeant(s)
    [] format = "hostname" -> HostnameMeant(s)
    [] format = "uri-template" -> TemplateMeant(s)
    [] format = "json-pointer" -> Pointer!ValidPointerSyntax(s)
    [] format = "relative-json-pointer" -> RelativeMeant(s)
    [] OTHER -> TRUE

=============================================================================
