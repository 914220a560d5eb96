---------------------------- MODULE FilterCompile -----------------------------
(***************************************************************************)
(* How the text of a filter becomes a token with a predicate in it.  The   *)
(* parsers are tried one after the other, and one that fails leaves the    *)
(* text to the next, whatever it recognised of it.  parseEmbeddedIn and    *)
(* parseEmbeddedRegex, which never succeed, are left out, and so are white *)
(* space, braces, and escapes in the text of a filter.                     *)
(*                                                                         *)
(* A predicate is a record with a field test; one that combines others has *)
(* their tokens.  A token has two places for a predicate, one of them for  *)
(* those that need the root document (EmbeddedFilter).                     *)
(***************************************************************************)
EXTENDS FilterOperands

NoTest == [test |-> "none"]   \* EmptyStorage, which no value passes

FilterToken(key, predicate) == [key |-> key, regular |-> predicate, context |-> NoTest]
ContextToken(key, predicate) == [key |-> key, regular |-> NoTest, context |-> predicate]
TokensOf(key, predicates) == {FilterToken(key, predicate) : predicate \in predicates}

-----------------------------------------------------------------------------
(* The references the patterns begin with: "@.name", "@['name']" and        *)
(* "@[index]", with what is behind them                                     *)

\* [\w$]+
IsMemberChar(c) == c \in Words \cup {"$"} \/ (IsInteger(c) /\ NumberOf(c) >= 0)
MemberStop(s, p) == Min({n \in p..Len(s) + 1 : n > Len(s) \/ ~IsMemberChar(s[n])})

DotReference(s) ==
  LET stop == MemberStop(s, 3)
  IN IF Len(s) > 2 /\ s[2] = "." /\ stop > 3
     THEN {[by |-> "dot", name |-> SubSeq(s, 3, stop - 1), rest |-> SubSeq(s, stop, Len(s))]}
     ELSE {}

\* A name without quotes in it, between any two quotes
NameReference(s) ==
  LET ends == {n \in 4..Len(s) : s[n] \in Quotes}
  IN IF Len(s) > 5 /\ s[2] = "[" /\ s[3] \in Quotes /\ ends # {}
        /\ Min(ends) > 4 /\ Min(ends) < Len(s) /\ s[Min(ends) + 1] = "]"
     THEN {[by |-> "bracket", name |-> SubSeq(s, 4, Min(ends) - 1), rest |-> SubSeq(s, Min(ends) + 2, Len(s))]}
     ELSE {}

IndexReference(s) ==
  IF Len(s) > 3 /\ s[2] = "[" /\ IsInteger(s[3]) /\ s[4] = "]"
  THEN {[by |-> "index", index |-> s[3], rest |-> SubSeq(s, 5, Len(s))]}
  ELSE {}

Reference(s) == IF StartsWith(s, "@") THEN DotReference(s) \cup NameReference(s) \cup IndexReference(s) ELSE {}

-----------------------------------------------------------------------------
(* parseEmbeddedExists: the first pattern that matches the whole text *)

IsBracket(s) == Len(s) > 3 /\ s[1] = "@" /\ s[2] = "[" /\ Last(s) = "]"
Inside(s) == SubSeq(s, 3, Len(s) - 1)
PartsOf(s, separator) == SplitAt(s, {n \in 1..Len(s) : s[n] = separator})

\* @[?...]
NestedExists(s) ==
  IF IsBracket(s) /\ s[3] = "?" /\ Len(s) > 4 THEN {[test |-> "nested", text |-> Tail(Inside(s))]} ELSE {}

\* @ and $, then @.*
ContextExists(s) ==
  IF s \in {<<"@">>, <<"$">>} THEN {[test |-> "always"]}
  ELSE IF s = <<"@", ".", "*">> THEN {[test |-> "not empty", kinds |-> {"object", "array"}]}
  ELSE {}

\* @[start:end], whatever the bounds
SliceExists(s) ==
  LET parts == PartsOf(Inside(s), ":")
  IN IF /\ IsBracket(s) /\ Len(parts) = 2
        /\ \A k \in 1..2 : parts[k] = <<>> \/ (Len(parts[k]) = 1 /\ IsInteger(parts[k][1]))
     THEN {[test |-> "not empty", kinds |-> {"array"}]}
     ELSE {}

\* @[...,...]: what is between the commas, if it is not empty
SelectorsExist(s) ==
  IF IsBracket(s) /\ \E n \in 2..Len(Inside(s)) - 1 : Inside(s)[n] = ","
  THEN {[test |-> "any selector", selectors |-> SelectSeq(PartsOf(Inside(s), ","), LAMBDA x : x # <<>>)]}
  ELSE {}

\* $.*, $.*.name and $.name.  Of the first two nothing is looked at, and the last
\* is looked up in the value that is tested.
IsMemberText(s) == s # <<>> /\ MemberStop(s, 1) > Len(s)
AbsoluteExists(s) ==
  LET path == SubSeq(s, 3, Len(s))
  IN IF Len(s) < 3 \/ SubSeq(s, 1, 2) # <<"$", ".">> THEN {}
     ELSE IF path = <<"*">> \/ (Len(path) > 2 /\ SubSeq(path, 1, 2) = <<"*", ".">>
                                 /\ IsMemberText(SubSeq(path, 3, Len(path))))
     THEN {[test |-> "always"]}
     ELSE IF IsMemberText(path) THEN {[test |-> "member", name |-> path]}
     ELSE {}

\* @.name, @['name'], @[index], and last any other singular query.  An index out
\* of the range of int ends the search.
RelativeExists(s) ==
  LET whole == {ref \in Reference(s) : ref.rest = <<>>}
  IN IF whole = {} THEN {[test |-> "query", query |-> query] : query \in SingularQuery(s)}
     ELSE LET ref == CHOOSE ref \in whole : TRUE
          IN IF ref.by # "index" THEN {[test |-> "member", name |-> ref.name]}
             ELSE IF FitsInt(ref.index) THEN {[test |-> "element", index |-> NumberOf(ref.index)]}
             ELSE {}

\* The first of several optional results.
FirstOf(Attempt(_), order) ==
  FoldLeft(LAMBDA found, which : IF found # {} THEN found ELSE Attempt(which), {}, order)

ParseExists(s) ==
  LET Pattern(which) ==
        CASE which = "nested"    -> NestedExists(s)
          [] which = "context"   -> ContextExists(s)
          [] which = "slice"     -> SliceExists(s)
          [] which = "selectors" -> SelectorsExist(s)
          [] which = "absolute"  -> AbsoluteExists(s)
          [] which = "relative"  -> RelativeExists(s)
  IN TokensOf(s, FirstOf(Pattern, <<"nested", "context", "slice", "selectors", "absolute", "relative">>))

-----------------------------------------------------------------------------
(* parseEmbeddedSelfCmp, parseEmbeddedCompare *)

\* A reference with an operator and something behind it.
Compared(refs) == {ref \in refs : Len(ref.rest) > 1 /\ ref.rest[1] \in ComparisonOps}

\* @.name, @['name'] (parseEmbeddedCompare1) or @[index] (parseEmbeddedCompareIndex)
\* against a literal
CompareMember(s) ==
  UNION {{[test |-> "member to literal", name |-> ref.name, op |-> ref.rest[1], literal |-> v] :
            v \in RhsValue(Tail(ref.rest))} : ref \in {r \in Compared(Reference(s)) : r.by # "index"}}
CompareElement(s) ==
  UNION {{[test |-> "element to literal", index |-> ref.index, op |-> ref.rest[1], literal |-> v] :
            v \in RhsValue(Tail(ref.rest))} : ref \in {r \in Compared(Reference(s)) : r.by = "index"}}

\* @ against a literal (parseEmbeddedSelfValue)
CompareSelf(s) ==
  IF Len(s) > 2 /\ s[1] = "@" /\ s[2] \in ComparisonOps
  THEN {[test |-> "self to literal", op |-> s[2], literal |-> v] : v \in RhsValue(SubSeq(s, 3, Len(s)))}
  ELSE {}

\* @ op @, $ op $
CompareSelfToSelf(s) ==
  IF Len(s) = 3 /\ s[1] \in {"@", "$"} /\ s[3] = s[1] /\ s[2] \in ComparisonOps
  THEN {[test |-> IF s[2] \in {"==", ">=", "<="} THEN "always" ELSE "never"]}
  ELSE {}

\* @.name op @.name (parseEmbeddedComparePropToProp) and @.name op @.name[index]
\* (parseEmbeddedComparePropToArrayIdx)
CompareMembersOf(s) ==
  LET Right(ref) == IF StartsWith(Tail(ref.rest), "@") THEN DotReference(Tail(ref.rest)) ELSE {}
      IsElement(rest) == Len(rest) = 3 /\ rest[1] = "[" /\ IsInteger(rest[2]) /\ rest[3] = "]"
  IN UNION {{[test |-> "member to member", name |-> ref.name, op |-> ref.rest[1],
               other |-> right.name, index |-> right.rest] :
               right \in {r \in Right(ref) : r.rest = <<>> \/ IsElement(r.rest)}} :
             ref \in {r \in Compared(Reference(s)) : r.by = "dot"}}

\* parseEmbeddedComparableCompare
CompareOperands(s) ==
  UNION {{[test |-> "comparables", left |-> left, op |-> split.op, right |-> right] :
            left \in Comparable(split.left), right \in Comparable(split.right)} :
          split \in SplitComparison(s)}

ParseSelfCmp(s) == TokensOf(s, CompareSelf(s))

ParseCompare(s) ==
  LET Pattern(which) ==
        CASE which = "self to self" -> CompareSelfToSelf(s)
          [] which = "member"       -> CompareMember(s)
          [] which = "element"      -> CompareElement(s)
          [] which = "members"      -> CompareMembersOf(s)
          [] which = "self"         -> CompareSelf(s)
          [] which = "comparables"  -> CompareOperands(s)
  IN TokensOf(s, FirstOf(Pattern, <<"self to self", "member", "element", "members", "self", "comparables">>))

-----------------------------------------------------------------------------
(* parseEmbeddedFunction: the text is split at its first operator, wherever *)
(* that is, and must have parentheses on either side.                       *)

FunctionSplit(s) ==
  LET cuts == {n \in 1..Len(s) : s[n] \in ComparisonOps}
  IN IF cuts = {} THEN {}
     ELSE {[left |-> SubSeq(s, 1, Min(cuts) - 1), op |-> s[Min(cuts)], right |-> SubSeq(s, Min(cuts) + 1, Len(s))]}

ParseFunction(s) ==
  {LET sides == {side \in {split.left, split.right} : HasParentheses(side)}
   IN IF \E side \in sides : NeedsRoot(side)
      THEN ContextToken(s, [test |-> "rooted calls", split |-> split])
      ELSE FilterToken(s, [test |-> "calls", text |-> s]) :
   split \in {x \in FunctionSplit(s) : HasParentheses(x.left) \/ HasParentheses(x.right)}}

-----------------------------------------------------------------------------
(* compileEmbeddedFilter *)

\* Mutant: a disjunction is looked for last.
AndFirst == <<"and", "or", "not", "exists", "self", "function", "compare">>

ParserOrder == <<"or", "and", "not", "exists", "self", "function", "compare">>

RECURSIVE CompileFilter(_)

\* The tokens of both sides of an operator, if both compile.
BothSides(s, op) ==
  UNION {CompileFilter(split.left) \X CompileFilter(split.right) : split \in SplitTopLevel(s, {op})}

\* The key of a combination has its sides in parentheses.
SidesKey(split) == <<"(">> \o split.left \o <<")", split.op, "(">> \o split.right \o <<")">>

\* parseEmbeddedOr, parseEmbeddedAnd
ParseConnective(s, op) ==
  UNION {{FilterToken(SidesKey(split), [test |-> op, left |-> sides[1], right |-> sides[2]]) :
            sides \in BothSides(s, op)} : split \in SplitTopLevel(s, {op})}

\* parseEmbeddedNot
ParseNot(s) ==
  IF ~StartsWith(s, "!") THEN {}
  ELSE {FilterToken(<<"!", "(">> \o Tail(s) \o <<")">>, [test |-> "!", inner |-> token]) :
          token \in CompileFilter(Tail(s))}

CompileFilter(expr) ==
  LET s == StripOuterParens(expr)
      Parser(which) ==
        CASE which = "or"       -> ParseConnective(s, "||")
          [] which = "and"      -> ParseConnective(s, "&&")
          [] which = "not"      -> ParseNot(s)
          [] which = "exists"   -> ParseExists(s)
          [] which = "self"     -> ParseSelfCmp(s)
          [] which = "function" -> ParseFunction(s)
          [] which = "compare"  -> ParseCompare(s)
  IN FirstOf(Parser, ParserOrder)

=============================================================================
