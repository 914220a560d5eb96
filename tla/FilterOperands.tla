---------------------------- MODULE FilterOperands ----------------------------
(***************************************************************************)
(* What a filter compares: singular queries, literals and function calls,  *)
(* from their text to their value, and the comparisons themselves.  There  *)
(* are three families of comparison in the code, one for a literal on the  *)
(* right, one for two members and one for any two comparables; they do     *)
(* not agree in everything.                                                *)
(*                                                                         *)
(* A filter is a sequence of lexemes as in PathCompile, with a lexeme of   *)
(* its own for each operator.  std::optional is a set of at most one       *)
(* element; Undefined stands for the Nothing of RFC 9535.                  *)
(***************************************************************************)
EXTENDS PathTokens, PathScan

CONSTANTS
  LooseLiterals,  \* numbers that QString converts and JSON forbids, as 01
  UnitRank,       \* rank of a lexeme in strings by its UTF-16 code units
  ScalarRank,     \* and by its Unicode scalar value
  Wide,           \* lexemes outside the BMP: two code units each
  FuzzyScale      \* 10^12 in the code, the precision of qFuzzyCompare

ASSUME FuzzyAssumption == FuzzyScale \in Nat \ {0}

ComparisonOps == {"==", "!=", "<", ">", "<=", ">="}

\* Names in the sense of the lexer: also the words that mean something else
\* elsewhere.
FunctionNames == {"length", "count", "match", "search", "value"}
Words == Letters \cup FunctionNames \cup {"null", "true", "false"}

IsNumber(c) == c \in DOMAIN Literals
NumberOf(c) == IF IsNumber(c) THEN Literals[c] ELSE LooseLiterals[c]

\* An optional sign and digits, which toInt converts if it is in the range of int.
IsInteger(c) == IsNumber(c) \/ c \in DOMAIN LooseLiterals
FitsInt(c) == ClampIndex(NumberOf(c)) = NumberOf(c)

Holds(s, lexemes) == \E n \in 1..Len(s) : s[n] \in lexemes
StartsWith(s, lexeme) == s # <<>> /\ s[1] = lexeme
Mentions(s, part) == \E n \in 0..Len(s) - Len(part) : SubSeq(s, n + 1, n + Len(part)) = part
IsQuotedText(s) == s # <<>> /\ s[1] \in Quotes /\ Last(s) = s[1]
Unquote(s) == SubSeq(s, 2, Len(s) - 1)

\* Mutant: takes a first and a last parenthesis for a pair.
IsWrappedByEnds(s) == Len(s) >= 2 /\ s[1] = "(" /\ Last(s) = ")"

\* stripOuterParens: pairs of parentheses around the whole text.  Quotes do not
\* matter to it.
IsWrapped(s) ==
  /\ Len(s) >= 2 /\ s[1] = "(" /\ Last(s) = ")"
  /\ LET inner == Unquote(s)
         Depth(n) == Occurs(inner, 1..Len(inner), n, "(") - Occurs(inner, 1..Len(inner), n, ")")
     IN Depth(Len(inner)) = 0 /\ \A n \in 1..Len(inner) : Depth(n) >= 0

StripOuterParens(s) ==
  LET Layer(n) == SubSeq(s, n + 1, Len(s) - n)
      Whole(n) == \A k \in 0..n - 1 : IsWrapped(Layer(k))
  IN Layer(Max({n \in 0..Len(s) \div 2 : Whole(n)}))

\* splitTopLevel: the first of the delimiters outside quotes and brackets, if any.
SplitTopLevel(s, delimiters) ==
  LET P == Unquoted(s)
      cuts == {n \in P : s[n] \in delimiters /\ Balanced(s, P, n)}
  IN IF cuts = {} THEN {}
     ELSE LET n == Min(cuts)
          IN {[left |-> SubSeq(s, 1, n - 1), op |-> s[n], right |-> SubSeq(s, n + 1, Len(s))]}

\* splitTopLevelComparison
SplitComparison(s) == SplitTopLevel(s, ComparisonOps)

-----------------------------------------------------------------------------
(* SingularQuery: "@" and names and indices behind it *)

\* The name that begins at p ends before NameStop(s, p).
NameStop(s, p) ==
  Min({n \in p..Len(s) + 1 : n > Len(s) \/ ~(s[n] \in Words \/ (IsNumber(s[n]) /\ Literals[s[n]] >= 0))})

\* scanShorthand, scanQuotedName, scanIndex: the segment at p with the position
\* behind it.
ScanShorthand(s, p) ==
  IF p < Len(s) /\ s[p + 1] \in Words
  THEN {[name |-> SubSeq(s, p + 1, NameStop(s, p + 1) - 1), next |-> NameStop(s, p + 1)]}
  ELSE {}

ScanQuotedName(s, p) ==
  LET closing == {n \in p + 2..Len(s) : s[n] = s[p + 1]}
  IN IF closing = {} THEN {}
     ELSE LET close == Min(closing)
          IN IF close < Len(s) /\ s[close + 1] = "]"
             THEN {[name |-> SubSeq(s, p + 2, close - 1), next |-> close + 2]}
             ELSE {}

ScanIndex(s, p) ==
  IF p + 2 <= Len(s) /\ s[p + 2] = "]" /\ IsNumber(s[p + 1]) /\ IsSafe(Literals[s[p + 1]])
  THEN {[index |-> Literals[s[p + 1]], next |-> p + 3]}
  ELSE {}

ScanBracket(s, p) ==
  IF p >= Len(s) THEN {}
  ELSE IF s[p + 1] \in Quotes THEN ScanQuotedName(s, p)
  ELSE ScanIndex(s, p)

\* SingularQuery::parse
SingularQuery(s) ==
  LET from[p \in 1..Len(s) + 1] ==
        IF p > Len(s) THEN {<<>>}
        ELSE LET scanned == CASE s[p] = "." -> ScanShorthand(s, p)
                              [] s[p] = "[" -> ScanBracket(s, p)
                              [] OTHER      -> {}
             IN UNION {{<<seg>> \o rest : rest \in from[seg.next]} : seg \in scanned}
  IN IF StartsWith(s, "@") THEN from[2] ELSE {}

IsNameSegment(seg) == "name" \in DOMAIN seg

\* SingularQuery::resolve
ResolveSegment(v, seg) ==
  IF IsNameSegment(seg)
  THEN IF IsObject(v) /\ HasMember(v, seg.name) THEN v.members[seg.name] ELSE Undefined
  ELSE IF IsArray(v) /\ NormalizeIndex(seg.index, Size(v)) \in 0..Size(v) - 1
       THEN ElementAt(v, NormalizeIndex(seg.index, Size(v)))
       ELSE Undefined

Resolve(query, v) == FoldLeft(ResolveSegment, v, query)

-----------------------------------------------------------------------------
(* Literals *)

Nothing == Undefined

\* The words that are literals, and their values.
WordLiterals == "null" :> Null @@ "true" :> Bool(TRUE) @@ "false" :> Bool(FALSE)

\* The literal a text stands for, with content what stands between its quotes.
PlainLiteral(s) ==
  IF Len(s) # 1 THEN {}
  ELSE IF s[1] \in DOMAIN WordLiterals THEN {WordLiterals[s[1]]}
  ELSE IF IsNumber(s[1]) THEN {Num(Literals[s[1]])}
  ELSE {}

\* isValidQuotedKey: no quote like those around the text.  There are no escapes
\* and no control characters among the lexemes.
IsQuotedName(s) == Len(s) >= 2 /\ IsQuotedText(s) /\ ~Holds(Unquote(s), {s[1]})

\* Comparable::parse: a literal, or a singular query.
Comparable(s) ==
  IF StartsWith(s, "@")
  THEN {[kind |-> "query", query |-> query] : query \in SingularQuery(s)}
  ELSE LET values == IF IsQuotedName(s) THEN {Str(Unquote(s))} ELSE PlainLiteral(s)
       IN {[kind |-> "literal", value |-> v] : v \in values}

\* Comparable::evaluate
ComparableValue(operand, node) ==
  IF operand.kind = "query" THEN Resolve(operand.query, node) ELSE operand.value

\* parseRhsValue.  A text that is not quoted is no string, so a comparison by
\* ComparisonType::DeepEquality does not occur.
RhsValue(s) ==
  IF PlainLiteral(s) # {} THEN PlainLiteral(s)
  ELSE IF IsQuotedText(s) THEN {Str(IF Len(s) = 1 THEN s ELSE Unquote(s))}
  ELSE {}

\* parseJsonLiteral: never fails, a text that is nothing else is a string.
JsonLiteral(s) ==
  IF PlainLiteral(s) # {} THEN CHOOSE v \in PlainLiteral(s) : TRUE
  ELSE IF Len(s) = 1 /\ IsInteger(s[1]) THEN Num(NumberOf(s[1]))
  ELSE IF IsQuotedText(s) THEN Str(Unquote(s))
  ELSE Str(s)

-----------------------------------------------------------------------------
(* Comparisons *)

\* One operator, given how its operands compare.
Related(op, less, equal, greater) ==
  CASE op = "==" -> equal
    [] op = "!=" -> ~equal
    [] op = "<"  -> less
    [] op = ">"  -> greater
    [] op = "<=" -> less \/ equal
    [] op = ">=" -> greater \/ equal

\* s before t, by the ranks of the first lexemes in which they differ.
Precedes(s, t, rank) ==
  \E n \in 0..Len(s) :
    /\ n < Len(t) /\ SubSeq(s, 1, n) = SubSeq(t, 1, n)
    /\ n = Len(s) \/ rank[s[n + 1]] < rank[t[n + 1]]

Magnitude(n) == IF n < 0 THEN -n ELSE n

\* qFuzzyCompare
FuzzyEqual(m, n) == Magnitude(m - n) * FuzzyScale <= Min({Magnitude(m), Magnitude(n)})

\* compareValue<Numeric>, <Boolean>, <Null> and <String>, for v of that type
CompareNumeric(v, op, n) ==
  CASE op = "==" -> FuzzyEqual(v.num, n)
    [] op = "!=" -> ~FuzzyEqual(v.num, n)
    [] OTHER     -> Related(op, v.num < n, v.num = n, v.num > n)

CompareBoolean(op, left, right) == Related(op, ~left /\ right, left = right, left /\ ~right)

CompareNull(op) == Related(op, FALSE, TRUE, FALSE)

\* QString::operator<, by code units
CompareString(op, left, right) ==
  Related(op, Precedes(left, right, UnitRank), left = right, Precedes(right, left, UnitRank))

\* ComparisonContext::compare: v against a literal.  Values of different types,
\* Undefined among them, are never equal nor ordered.
CompareToLiteral(v, op, literal) ==
  CASE v.kind # literal.kind     -> op = "!="
    [] literal.kind = "double"   -> CompareNumeric(v, op, literal.num)
    [] literal.kind = "bool"     -> CompareBoolean(op, v.bool, literal.bool)
    [] literal.kind = "null"     -> CompareNull(op)
    [] literal.kind = "string"   -> CompareString(op, v.str, literal.str)

\* The comparison of two members (parseEmbeddedComparePropToProp and
\* parseEmbeddedComparePropToArrayIdx).
CompareMembers(left, op, right) ==
  IF op \in {"==", "!="} THEN Related(op, FALSE, left = right, FALSE)
  ELSE IF left.kind # right.kind THEN FALSE
  ELSE CASE left.kind = "double" -> Related(op, left.num < right.num, left = right, left.num > right.num)
         [] left.kind = "bool"   -> CompareBoolean(op, left.bool, right.bool)
         [] left.kind = "string" -> CompareString(op, left.str, right.str)
         [] OTHER                -> FALSE

\* lessValues: only numbers and strings are ordered.
Less(left, right) ==
  CASE left.kind # right.kind  -> FALSE
    [] left.kind = "double"    -> left.num < right.num
    [] left.kind = "string"    -> Precedes(left.str, right.str, ScalarRank)
    [] OTHER                   -> FALSE

\* compareComparables
CompareComparables(left, op, right) ==
  Related(op, Less(left, right), left = right, Less(right, left))

-----------------------------------------------------------------------------
(* Functions *)

\* expr.contains("(") && expr.contains(")"), at compile time, and the search for
\* the name of a function, when the filter is evaluated
HasParentheses(s) == Holds(s, {"("}) /\ Holds(s, {")"})
HasFunctionCall(s) == \E name \in FunctionNames : Mentions(s, <<name, "(">>)
NeedsRoot(s) == Mentions(s, <<"value", "(", "$">>)

\* parseFunctionSyntax: the name is before the first "(", the arguments end at
\* the last ")".
FunctionName(s) == SubSeq(s, 1, Min({n \in 1..Len(s) : s[n] = "("}) - 1)
Arguments(s) == SubSeq(s, Min({n \in 1..Len(s) : s[n] = "("}) + 1, Max({n \in 1..Len(s) : s[n] = ")"}) - 1)

\* QString::length, in code units
UnitLength(s) == Len(s) + Cardinality({n \in 1..Len(s) : s[n] \in Wide})

\* calculateLength
LengthOf(v) ==
  CASE v.kind = "string" -> Num(UnitLength(v.str))
    [] v.kind = "array"  -> Num(Size(v))
    [] v.kind = "object" -> Num(Cardinality(DOMAIN v.members))
    [] OTHER             -> Nothing

\* resolveRelative, Nothing when the text is no query; evaluateArgument falls back
\* to the context.
ResolveRelative(args, context) ==
  LET found == {Resolve(query, context) : query \in SingularQuery(args)}
  IN IF found = {} THEN Nothing ELSE CHOOSE v \in found : TRUE
ArgumentValue(args, context) ==
  IF SingularQuery(args) = {} THEN context ELSE ResolveRelative(args, context)

\* JSONPath::create and evaluate of "$" and names, indices, and at the end
\* perhaps a wildcard; what else a path may be is in PathCompile.
AbsoluteNodes(path, doc) ==
  LET wild == Len(path) > 2 /\ Last(path) = "*"
      singular == SingularQuery(<<"@">> \o SubSeq(path, 2, Len(path) - (IF wild THEN 2 ELSE 0)))
      found == {Resolve(query, doc) : query \in singular} \ {Nothing}
  IN IF found = {} THEN <<>>
     ELSE LET v == CHOOSE v \in found : TRUE IN IF wild THEN ChildValues(v) ELSE <<v>>

\* evaluateJsonPathValue: Nothing, unless there is one node
ValueOfPath(args, context) ==
  IF StartsWith(args, "$")
  THEN LET nodes == AbsoluteNodes(args, context) IN IF Len(nodes) = 1 THEN nodes[1] ELSE Nothing
  ELSE ResolveRelative(args, context)

\* evaluateFunction: an unknown function, or none, is Nothing.
EvaluateFunction(s, context) ==
  IF ~HasParentheses(s) THEN Nothing
  ELSE CASE FunctionName(s) = <<"length">> -> LengthOf(ArgumentValue(Arguments(s), context))
         [] FunctionName(s) = <<"value">>  -> ValueOfPath(Arguments(s), context)
         [] OTHER                          -> Nothing

\* evaluateExpressionSide
SideValue(s, isCall, node, root) ==
  IF isCall THEN EvaluateFunction(s, IF NeedsRoot(s) THEN root ELSE node)
  ELSE IF StartsWith(s, "@") THEN ResolveRelative(s, node)
  ELSE JsonLiteral(s)

=============================================================================
