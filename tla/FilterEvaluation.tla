--------------------------- MODULE FilterEvaluation ---------------------------
(***************************************************************************)
(* A bracket of filters, from its text to the children it keeps: the rules *)
(* for the bracket, the compilation of each filter, and the evaluation of  *)
(* the filters on one value, child by child.  In a path, PathCompile and   *)
(* PathEvaluation are around it.                                           *)
(***************************************************************************)
EXTENDS FilterCompile

CONSTANT
  Cases       \* triples of what stands between the brackets, a document, and the
              \* value in it whose children are filtered

VARIABLES
  content,    \* the text between the brackets
  root,       \* the document
  node,       \* the value in it
  status,     \* where the call is, or the error of create
  filters,    \* the tokens of the bracket
  filter,     \* 1-based position in filters
  child,      \* 1-based position among the children of node
  out         \* the children kept so far

fvars == <<content, root, node, status, filters, filter, child, out>>

FilterErrors == {"UnsupportedFilter", "InvalidIdentifier"}

-----------------------------------------------------------------------------
(* Predicates *)

\* The heuristic for a filter in a filter: some number above 1, if the text has a
\* ">" in it
PassesNested(text, v) ==
  IsArray(v) /\ Holds(text, {">", ">="})
    /\ \E n \in 1..Size(v) : v.elements[n].kind = "double" /\ v.elements[n].num > 1

PassesNotEmpty(kinds, v) == v.kind \in kinds /\ IsContainer(v) /\ Children(v) # {}

HasElement(v, index) == IsArray(v) /\ NormalizeIndex(index, Size(v)) \in 0..Size(v) - 1

\* A quoted selector is a name, any other an index, if it is a number at all.
SelectorExists(sel, v) ==
  IF IsQuotedText(sel) THEN IsObject(v) /\ HasMember(v, Unquote(sel))
  ELSE Len(sel) = 1 /\ IsInteger(sel[1]) /\ FitsInt(sel[1]) /\ HasElement(v, NumberOf(sel[1]))

\* QJsonObject::value, Undefined for a value that is no object
MemberOf(v, name) == IF IsObject(v) /\ HasMember(v, name) THEN v.members[name] ELSE Undefined

\* asArray(v).at(n), Undefined out of range
ElementOf(v, n) == IF IsArray(v) /\ n \in 0..Size(v) - 1 THEN ElementAt(v, n) ELSE Undefined

\* An element that is not there is compared as null: QJsonValue{} is null.
ElementOrNull(v, n) == IF IsArray(v) /\ n \in 0..Size(v) - 1 THEN ElementAt(v, n) ELSE Null

PassesElementToLiteral(p, v) ==
  FitsInt(p.index) /\ CompareToLiteral(ElementOrNull(v, NumberOf(p.index)), p.op, p.literal)

PassesMemberToMember(p, v) ==
  LET other == MemberOf(v, p.other)
  IN /\ IsObject(v)
     /\ CompareMembers(MemberOf(v, p.name), p.op,
                       IF p.index = <<>> THEN other
                       ELSE IF FitsInt(p.index[2]) THEN ElementOf(other, NumberOf(p.index[2])) ELSE Undefined)

\* The text is split again, and a side is a call only if it has a known function.
PassesCalls(s, v) ==
  \E split \in FunctionSplit(s) :
    CompareComparables(SideValue(split.left, HasFunctionCall(split.left), v, v), split.op,
                       SideValue(split.right, HasFunctionCall(split.right), v, v))

\* The predicate of createContextFilter
PassesRooted(predicate, v, document) ==
  predicate.test = "rooted calls" /\
  LET split == predicate.split
      Side(s) == SideValue(s, HasParentheses(s), v, document)
  IN CompareComparables(Side(split.left), split.op, Side(split.right))

RECURSIVE Passes(_, _)
Passes(p, v) ==
  CASE p.test = "none"               -> FALSE
    [] p.test = "||"                 -> Passes(p.left.regular, v) \/ Passes(p.right.regular, v)
    [] p.test = "&&"                 -> Passes(p.left.regular, v) /\ Passes(p.right.regular, v)
    [] p.test = "!"                  -> ~Passes(p.inner.regular, v)
    [] p.test = "nested"             -> PassesNested(p.text, v)
    [] p.test = "always"             -> TRUE
    [] p.test = "never"              -> FALSE
    [] p.test = "not empty"          -> PassesNotEmpty(p.kinds, v)
    [] p.test = "any selector"       -> \E n \in 1..Len(p.selectors) : SelectorExists(p.selectors[n], v)
    [] p.test = "member"             -> IsObject(v) /\ HasMember(v, p.name)
    [] p.test = "element"            -> HasElement(v, p.index)
    [] p.test = "query"              -> Resolve(p.query, v) # Nothing
    [] p.test = "member to literal"  -> CompareToLiteral(MemberOf(v, p.name), p.op, p.literal)
    [] p.test = "element to literal" -> PassesElementToLiteral(p, v)
    [] p.test = "self to literal"    -> CompareToLiteral(v, p.op, p.literal)
    [] p.test = "member to member"   -> PassesMemberToMember(p, v)
    [] p.test = "comparables"        -> CompareComparables(ComparableValue(p.left, v), p.op, ComparableValue(p.right, v))
    [] p.test = "calls"              -> PassesCalls(p.text, v)

-----------------------------------------------------------------------------
(* eval<Token::Kind::Filter> *)

\* FilterPatternDetector::detectPattern, on the key of the token
IsSimpleExistence(key) ==
  /\ Len(key) > 2 /\ key[1] = "@" /\ key[2] = "."
  /\ ~Holds(key, ComparisonOps \cup {"&&", "||", "!", "(", ")", "*", "["})
  /\ ~Holds(SubSeq(key, 3, Len(key)), {"."})

\* FilterPatternEvaluator<SimpleExistence>, or else one of the two predicates
Keeps(token, item, document) ==
  IF IsSimpleExistence(token.key) THEN IsObject(item) /\ HasMember(item, SubSeq(token.key, 3, Len(token.key)))
  ELSE IF NeedsRoot(token.key) THEN PassesRooted(token.context, item, document)
  ELSE Passes(token.regular, item)

-----------------------------------------------------------------------------
(* The call *)

\* handleUnionComma
Pieces == IF HasUnionComma(content) THEN SplitAt(content, UnionCuts(content)) ELSE <<content>>

\* handleFilterWithParens, handleFilterWithoutParens.  A piece that is no filter
\* is left to the rules of PathCompile; those of the instances are no selectors.
Compiles(piece) == StartsWith(piece, "?") /\ CompileFilter(Tail(piece)) # {}
ErrorOf(piece) == IF StartsWith(piece, "?") THEN "UnsupportedFilter" ELSE "InvalidIdentifier"
TokenOf(piece) == CHOOSE token \in CompileFilter(Tail(piece)) : TRUE

Init ==
  /\ \E case \in Cases : content = case[1] /\ root = case[2] /\ node = case[3]
  /\ status = "called"
  /\ filters = <<>>
  /\ filter = 1
  /\ child = 1
  /\ out = <<>>

Compile ==
  LET pieces == Pieces
      failed == {k \in 1..Len(pieces) : ~Compiles(pieces[k])}
  IN /\ status = "called"
     /\ IF failed = {}
        THEN /\ filters' = [k \in 1..Len(pieces) |-> TokenOf(pieces[k])]
             /\ status' = "evaluating"
        ELSE /\ status' = ErrorOf(pieces[Min(failed)])
             /\ UNCHANGED filters
     /\ UNCHANGED <<content, root, node, filter, child, out>>

Evaluating == status = "evaluating" /\ filter <= Len(filters)

TestChild ==
  LET item == ChildValues(node)[child]
  IN /\ Evaluating /\ child <= Len(ChildValues(node))
     /\ out' = IF Keeps(filters[filter], item, root) THEN Append(out, item) ELSE out
     /\ child' = child + 1
     /\ UNCHANGED <<content, root, node, status, filters, filter>>

\* processUnionTokens: the next filter of the bracket, on the same value
NextFilter ==
  /\ Evaluating /\ child > Len(ChildValues(node))
  /\ filter' = filter + 1
  /\ child' = 1
  /\ UNCHANGED <<content, root, node, status, filters, out>>

Finish ==
  /\ status = "evaluating" /\ filter > Len(filters)
  /\ status' = "done"
  /\ UNCHANGED <<content, root, node, filters, filter, child, out>>

Next == Compile \/ TestChild \/ NextFilter \/ Finish

Spec == Init /\ [][Next]_fvars

=============================================================================
