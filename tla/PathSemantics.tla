---------------------------- MODULE PathSemantics ----------------------------
(***************************************************************************)
(* The calls of PathEvaluation against what RFC 9535 says of their texts.  *)
(***************************************************************************)
EXTENDS PathEvaluation, QuerySemantics

CONSTANT
  Queries   \* the queries; no text in Texts is that of any other query

\* Each text of a query, with the query.
Written == {<<QueryText(query, short), query>> : query \in Queries, short \in BOOLEAN}
TextsWritten == {pair[1] : pair \in Written}

-----------------------------------------------------------------------------
(* 2.3.1.1: what stands between quotes is a sequence of spellings of         *)
(* characters.  A character is one code unit or two, a surrogate pair.       *)

IsSurrogate(code) == IsHigh(code) \/ IsLow(code)

\* The code units of \b, \t, \n, \f and \r.
ControlEscapes == "b" :> 8 @@ "t" :> 9 @@ "n" :> 10 @@ "f" :> 12 @@ "r" :> 13

\* The character that piece is a spelling of, if it is one.
CharacterOf(piece, quote) ==
  LET Code(n) == CodeUnits[piece[n]]
      IsEscapeAt(n) == piece[n] = Backslash /\ piece[n + 1] = "u"
      IsHexAt(n) == \A k \in n + 2..n + 5 : Code(k) \in 48..57 \cup 65..70 \cup 97..102
      Escaped(n) == HexCode(piece, n)
  IN CASE Len(piece) = 1 ->
            IF Code(1) >= 32 /\ piece[1] \notin {quote, Backslash} /\ ~IsSurrogate(Code(1)) THEN {piece} ELSE {}
       [] Len(piece) = 2 ->
            IF piece[1] # Backslash
            THEN IF IsHigh(Code(1)) /\ IsLow(Code(2)) THEN {piece} ELSE {}
            ELSE IF piece[2] \in DOMAIN ControlEscapes THEN {<<UnitOf(ControlEscapes[piece[2]])>>}
            ELSE IF piece[2] \in {quote, Backslash, "/"} THEN {<<piece[2]>>}
            ELSE {}
       [] Len(piece) = 6 ->
            IF IsEscapeAt(1) /\ IsHexAt(1) /\ ~IsSurrogate(Escaped(1)) THEN {<<UnitOf(Escaped(1))>>} ELSE {}
       [] Len(piece) = 12 ->
            IF /\ IsEscapeAt(1) /\ IsHexAt(1) /\ IsHigh(Escaped(1))
               /\ IsEscapeAt(7) /\ IsHexAt(7) /\ IsLow(Escaped(7))
            THEN {<<UnitOf(Escaped(1)), UnitOf(Escaped(7))>>} ELSE {}
       [] OTHER -> {}

\* The name that content stands for between quotes, if it stands for one.
NameMeant(content, quote) ==
  LET \* the names of the first n units, given those of the first 0, 1, .., n - 1
      UpTo(names, n) ==
        UNION {{name \o c : name \in names[n - k + 1], c \in CharacterOf(SubSeq(content, n - k + 1, n), quote)} :
                 k \in {1, 2, 6, 12} \cap 1..n}
  IN Last(FoldLeft(LAMBDA names, n : Append(names, UpTo(names, n)), <<{<<>>}>>,
                   [n \in 1..Len(content) |-> n]))

\* The selectors of names spelled with one of the contents between quotes.
SpelledWith(contents) ==
  UNION {{Spelled(name, <<quote>> \o content \o <<quote>>) : name \in NameMeant(content, quote)} :
           content \in contents, quote \in Quotes}

-----------------------------------------------------------------------------
(* Properties *)

IsQuery(x) == x \in TextsWritten
Meaning(x) == (CHOOSE pair \in Written : pair[1] = x)[2]

\* The list of nodes of a finished call, and the list it should be.
Meant(t) == RfcNodes(Meaning(text[t]), doc[t])
IsMeant(t, nodes) ==
  IF OrderMatters(Meaning(text[t])) THEN nodes = Meant(t) ELSE SameNodes(nodes, Meant(t))

Finished(t, call) == phase[t] = "done" /\ api[t] = call /\ func[t] = "None"

\* create accepts the texts of queries and no others, and evaluate returns the
\* nodes RFC 9535 selects, each as often as it is selected, in document order
\* where the RFC fixes one (JSONPath.hpp: "Returns every matched node").
NodesAsMeant ==
  \A t \in Threads :
    /\ status[t] = "compiled" => IsQuery(text[t])
    /\ status[t] \in ParseErrors => ~IsQuery(text[t])
    /\ Finished(t, "evaluate") => IsMeant(t, result[t].elements)

\* The tokens of a query name the members that the query names, in the same
\* order, however they are spelled: the bracket, its union and the name itself are
\* scanned and unescaped one after the other, and must agree on what is escaped
\* (unescapeQuotedKey, isValidQuotedKey, splitTopLevelMultiple, parseEmbeddedBracket).
NamesAsSpelled ==
  LET IsName(x) == x.kind = "Key"
  IN \A t \in Threads :
       status[t] = "compiled" /\ IsQuery(text[t]) =>
         LET query == Meaning(text[t])
             selectors == FlattenSeq([k \in DOMAIN query |-> query[k].selectors])
             meant == SelectSeq(selectors, IsName)
             found == SelectSeq(Tail(tokens[t]), IsName)
         IN [n \in DOMAIN found |-> found[n].key] = [n \in DOMAIN meant |-> meant[n].key]

\* Keys and indices only, with a union among them: squash, which looks at the
\* kinds of token, does not tell such a query from a definite one.
LooksDefinite(query) ==
  /\ \E k \in 1..Len(query) : ~IsSingular(query[k])
  /\ \A k \in 1..Len(query) :
       ~query[k].descends /\ \A n \in 1..Len(query[k].selectors) : query[k].selectors[n].kind \in {"Key", "Index"}

\* evaluateSingle returns the value of a singular query, an empty array if there
\* is none, and for any other query the array of all nodes, even if it is one
\* (JSONPath.hpp, evaluateSingle).  Nothing is said of a union of keys and indices
\* that selects one node: JSONPath.hpp announces an array for a union of keys, and
\* the code returns the node itself (see the README).
SquashAsDocumented ==
  \A t \in Threads :
    LET query == Meaning(text[t])
        meant == Meant(t)
    IN Finished(t, "evaluateSingle") /\ ~(LooksDefinite(query) /\ Len(meant) = 1) =>
         IF \A k \in 1..Len(query) : IsSingular(query[k])
         THEN result[t] = IF meant = <<>> THEN EmptyArray ELSE meant[1]
         ELSE IsArray(result[t]) /\ IsMeant(t, result[t].elements)

=============================================================================
