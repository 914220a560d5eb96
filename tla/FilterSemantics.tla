--------------------------- MODULE FilterSemantics ----------------------------
(***************************************************************************)
(* What RFC 9535 says a filter means (2.3.5), how it may be written, and   *)
(* what FilterEvaluation owes to it.                                       *)
(***************************************************************************)
EXTENDS FilterEvaluation, QuerySemantics

CONSTANT
  Filters   \* brackets as Bracket builds them; no text in Cases is that of any other

-----------------------------------------------------------------------------
(* Logical expressions.  A query is relative ("@") or absolute ("$").       *)

Or(l, r) == [form |-> "or", left |-> l, right |-> r]
And(l, r) == [form |-> "and", left |-> l, right |-> r]
Not(e) == [form |-> "not", inner |-> e]
Exists(query) == [form |-> "exists", query |-> query]
HasChild(e) == [form |-> "has child", inner |-> e]    \* @[?e]
Compare(l, op, r) == [form |-> "compare", left |-> l, op |-> op, right |-> r]

At(segments) == [form |-> "query", from |-> "@", segments |-> segments]
Root(segments) == [form |-> "query", from |-> "$", segments |-> segments]
Literal(lexeme, v) == [form |-> "literal", text |-> <<lexeme>>, value |-> v]
Quoted(s) == [form |-> "literal", text |-> <<"'">> \o s \o <<"'">>, value |-> Str(s)]
Length(operand) == [form |-> "length", argument |-> operand]
Value(query) == [form |-> "value", argument |-> query]

-----------------------------------------------------------------------------
(* Texts: names as .name or ['name'], and the whole filter in parentheses   *)
(* or not                                                                   *)

OperandQueryText(q, short) ==
  <<q.from>> \o Joined([k \in 1..Len(q.segments) |-> SegmentText(q.segments[k], short)])

RECURSIVE OperandText(_, _)
OperandText(x, short) ==
  CASE x.form = "query"   -> OperandQueryText(x, short)
    [] x.form = "literal" -> x.text
    [] OTHER              -> <<x.form, "(">> \o OperandText(x.argument, short) \o <<")">>

Parenthesised(s) == <<"(">> \o s \o <<")">>

\* || binds least, then &&; only a test of existence is negated without parentheses.
Binding(e) == CASE e.form = "or" -> 1 [] e.form = "and" -> 2 [] e.form = "compare" -> 3 [] OTHER -> 4

RECURSIVE ExprText(_, _)
ExprText(e, short) ==
  LET Part(inner, binding) ==
        IF Binding(inner) < binding \/ (binding = 4 /\ inner.form = "not") THEN Parenthesised(ExprText(inner, short))
        ELSE ExprText(inner, short)
  IN CASE e.form = "or"        -> Part(e.left, 1) \o <<"||">> \o Part(e.right, 1)
       [] e.form = "and"       -> Part(e.left, 2) \o <<"&&">> \o Part(e.right, 2)
       [] e.form = "not"       -> <<"!">> \o Part(e.inner, 4)
       [] e.form = "exists"    -> OperandQueryText(e.query, short)
       [] e.form = "has child" -> <<"@", "[", "?">> \o ExprText(e.inner, short) \o <<"]">>
       [] e.form = "compare"   -> OperandText(e.left, short) \o <<e.op>> \o OperandText(e.right, short)

FilterText(e, short, wrapped) ==
  <<"?">> \o (IF wrapped THEN Parenthesised(ExprText(e, short)) ELSE ExprText(e, short))

\* A bracket of filters, and how it is written.
Bracket(list, short, wrapped) == [list |-> list, short |-> short, wrapped |-> wrapped]
BracketText(f) ==
  Joined([k \in 1..Len(f.list) |->
            (IF k = 1 THEN <<>> ELSE <<",">>) \o FilterText(f.list[k], f.short, f.wrapped)])
Written == {<<BracketText(f), f.list>> : f \in Filters}

-----------------------------------------------------------------------------
(* Meaning *)

QueryNodes(q, v, document) == NodesFrom(q.segments, <<IF q.from = "@" THEN v ELSE document>>)

\* A string has as many characters as it has Unicode scalar values.
RfcLength(v) ==
  CASE v.kind = "string" -> Num(Len(v.str))
    [] v.kind = "array"  -> Num(Len(v.elements))
    [] v.kind = "object" -> Num(Cardinality(DOMAIN v.members))
    [] OTHER             -> Nothing

RECURSIVE OperandMeans(_, _, _)
OperandMeans(x, v, document) ==
  CASE x.form = "literal" -> x.value
    [] x.form = "length"  -> RfcLength(OperandMeans(x.argument, v, document))
    [] OTHER              ->   \* a singular query, or the argument of value()
         LET nodes == QueryNodes(IF x.form = "query" THEN x ELSE x.argument, v, document)
         IN IF Len(nodes) = 1 THEN nodes[1] ELSE Nothing

\* 2.3.5.2.2: strings and numbers are ordered, nothing else is.
IsLess(x, y) ==
  \/ x.kind = "double" /\ y.kind = "double" /\ x.num < y.num
  \/ x.kind = "string" /\ y.kind = "string" /\ Precedes(x.str, y.str, ScalarRank)

Satisfies(x, op, y) ==
  CASE op = "==" -> x = y
    [] op = "!=" -> x # y
    [] op = "<"  -> IsLess(x, y)
    [] op = ">"  -> IsLess(y, x)
    [] op = "<=" -> IsLess(x, y) \/ x = y
    [] op = ">=" -> IsLess(y, x) \/ x = y

RECURSIVE IsTrue(_, _, _)
IsTrue(e, v, document) ==
  CASE e.form = "or"        -> IsTrue(e.left, v, document) \/ IsTrue(e.right, v, document)
    [] e.form = "and"       -> IsTrue(e.left, v, document) /\ IsTrue(e.right, v, document)
    [] e.form = "not"       -> ~IsTrue(e.inner, v, document)
    [] e.form = "exists"    -> QueryNodes(e.query, v, document) # <<>>
    [] e.form = "has child" -> \E c \in Children(v) : IsTrue(e.inner, c, document)
    [] e.form = "compare"   -> Satisfies(OperandMeans(e.left, v, document), e.op, OperandMeans(e.right, v, document))

-----------------------------------------------------------------------------
(* Properties *)

Meaning == [s \in {pair[1] : pair \in Written} |-> (CHOOSE pair \in Written : pair[1] = s)[2]]
IsFilterText(s) == s \in DOMAIN Meaning

\* create accepts the texts of filters and no others.
FiltersOnly ==
  /\ status \in {"evaluating", "done"} => IsFilterText(content)
  /\ status \in FilterErrors => ~IsFilterText(content)

\* At any moment the children kept are those for which the filters tried so far
\* are true, filter by filter and in the order of the children, whichever parser
\* took the text and whichever predicate the token holds.
KeptAsMeant ==
  status \in {"evaluating", "done"} =>
    LET meant == Meaning[content]
        children == ChildValues(node)
        KeptBy(k, items) == SelectSeq(items, LAMBDA v : IsTrue(meant[k], v, root))
        before == Joined([k \in 1..filter - 1 |-> KeptBy(k, children)])
    IN out = IF filter > Len(meant) THEN before
             ELSE before \o KeptBy(filter, SubSeq(children, 1, child - 1))

=============================================================================
