------------------------------- MODULE MCFilter -------------------------------
(* Instances of FilterSemantics for TLC. *)
EXTENDS FilterSemantics

A == <<"a">>
B == <<"b">>
Odd == <<"a", "]">>   \* a name that needs quotes
MCKeyOrder == <<A, Odd, B>>

\* "900" is beyond the int range of the model; 100 and 101 are equal to qFuzzyCompare.
MCLiterals ==
  "0" :> 0 @@ "1" :> 1 @@ "2" :> 2 @@ "-1" :> -1 @@ "100" :> 100 @@ "101" :> 101 @@ "900" :> 900
MCLoose == "01" :> 1

\* "wide" is outside the BMP, "high" in it, behind the surrogates.
Characters ==
  <<"\"", "$", "&&", "'", "(", ")", "*", ",", "-1", ".", "0", "01", "1", "100", "101", "2", "900", ":",
    "<", "<=", "==", "!=", ">", ">=", "?", "@", "[", "]", "||",
    "a", "b", "count", "false", "length", "match", "null", "search", "true", "value", "wide", "high">>
MCUnitRank == [c \in Range(Characters) |-> CHOOSE n \in DOMAIN Characters : Characters[n] = c]
MCScalarRank == [MCUnitRank EXCEPT !["wide"] = MCUnitRank["high"], !["high"] = MCUnitRank["wide"]]

-----------------------------------------------------------------------------
(* Documents *)

With(v) == Object(A :> v)
Pair(v, w) == Object(A :> v @@ B :> w)
Items ==
  <<Num(0), Num(2), Null, Bool(TRUE), Str(<<>>), Str(B), EmptyObject, EmptyArray, Array(<<Num(1), Num(2)>>),
    Array(<<Null>>), With(Num(1)), With(Num(101)), With(Null), With(Bool(FALSE)), With(Str(A)),
    With(With(Num(1))), With(Array(<<Num(1), Num(0)>>)), Pair(Num(1), Num(1)), Pair(Num(1), Num(2)),
    Pair(Str(B), Str(A)), Pair(Num(2), Array(<<Num(2), Num(1)>>)), Object(Odd :> Num(1))>>
Listed == Object(A :> Num(1) @@ B :> Array(Items))
Few == Array(<<Num(1), With(Num(1)), With(Num(2)), Pair(Num(2), Num(1))>>)

\* Strings that code units and scalar values order differently.
Characterful == Array(<<Pair(Str(<<"wide">>), Str(<<"high">>)), Pair(Str(<<"a", "high">>), Str(<<"a", "wide">>)),
                        Pair(Str(<<"a">>), Str(<<"a", "wide">>))>>)

\* A value with the values in it, and how deeply it is nested.
RECURSIVE ValuesIn(_)
ValuesIn(v) == {v} \cup UNION {ValuesIn(c) : c \in Children(v)}
RECURSIVE NestingOf(_)
NestingOf(v) == IF Children(v) = {} THEN 0 ELSE 1 + Max({NestingOf(c) : c \in Children(v)})

MCJson == UNION {ValuesIn(v) : v \in {Listed, Few, Characterful}}
MCNesting == [v \in MCJson |-> NestingOf(v)]

-----------------------------------------------------------------------------
(* Operands *)

Segs(selectors) == [k \in 1..Len(selectors) |-> Segment(<<selectors[k]>>)]
Self == At(<<>>)
AtA == At(Segs(<<ByKey(A)>>))
AtB == At(Segs(<<ByKey(B)>>))
AtOdd == At(Segs(<<ByKey(Odd)>>))
AtFirst == At(Segs(<<ByIndex("0")>>))
AtLast == At(Segs(<<ByIndex("-1")>>))
AtAA == At(Segs(<<ByKey(A), ByKey(A)>>))
AtA0 == At(Segs(<<ByKey(A), ByIndex("0")>>))
AtB1 == At(Segs(<<ByKey(B), ByIndex("1")>>))
RootA == Root(Segs(<<ByKey(A)>>))
Singular == {Self, AtA, AtB, AtOdd, AtFirst, AtLast, AtAA, AtA0, AtB1}

One == Literal("1", Num(1))
NullWord == Literal("null", Null)
FalseWord == Literal("false", Bool(FALSE))
Hundred == Literal("100", Num(100))
Constants == {One, Literal("2", Num(2)), NullWord, FalseWord, Hundred, Quoted(A), Quoted(<<>>)}

-----------------------------------------------------------------------------
(* Comparisons on which the code is known to differ (see the README): with a *)
(* boolean, null or a number almost equal, for an element that is not there  *)
(* or counted from the end, and of two members of what is no object.         *)

IsDirect(x) == x.form = "query" /\ x.from = "@" /\ Len(x.segments) < 2
IsElement(x) == IsDirect(x) /\ x.segments # <<>> /\ x.segments[1].selectors[1].kind = "Index"
IsOrdering(op) == op \notin {"==", "!="}
IsOrdinary(e, short) ==
  /\ IsDirect(e.left) /\ e.right = FalseWord => ~IsOrdering(e.op)
  /\ IsDirect(e.left) /\ e.right = Hundred => IsOrdering(e.op)
  /\ IsElement(e.left) /\ e.right.form = "literal" => e.left = AtFirst /\ e.right # NullWord
  /\ short /\ e.left \in {AtA, AtB} /\ e.right \in {AtA, AtB, AtA0, AtB1} => e.op \in {"!=", "<", ">"}

Calls == {Length(Self), Length(AtA), Value(AtA), Value(RootA)}
Comparisons ==
  {Compare(q, op, c) : q \in Singular, op \in ComparisonOps, c \in Constants}
  \cup {Compare(c, op, q) : q \in {AtA, AtAA, AtLast}, op \in ComparisonOps, c \in {One, NullWord}}
  \cup {Compare(p, op, q) : p \in {Self, AtA, AtB, AtLast}, op \in ComparisonOps, q \in Singular}
  \cup {Compare(call, op, c) : call \in Calls, op \in ComparisonOps, c \in {One, AtA, NullWord}}
  \cup {Compare(AtB, op, call) : call \in Calls, op \in {"==", "<="}}

-----------------------------------------------------------------------------
(* Tests and combinations *)

Tests ==
  {Exists(q) : q \in Singular} \cup
  {Exists(Root(<<>>)), Exists(At(<<Segment(<<ByIndex("0"), ByKey(A)>>)>>)), Exists(At(<<Segment(<<ByKey(A), ByKey(B)>>)>>)),
   Exists(At(Segs(<<BySlice("0", LeftOut, LeftOut)>>)))}
Leaves ==
  {Exists(AtA), Exists(AtFirst), Compare(AtA, ">", AtB), Compare(Length(Self), "==", One),
   Compare(AtA, "==", Quoted(<<"||">>)), Compare(AtAA, "!=", Quoted(<<"&&">>))}
Pairs == {Or(e, f) : e \in Leaves, f \in Leaves} \cup {And(e, f) : e \in Leaves, f \in Leaves}
Combinations ==
  {Not(e) : e \in Leaves} \cup {Not(Not(e)) : e \in Leaves} \cup Pairs
  \cup {Or(And(e, Not(f)), Exists(AtB)) : e \in Leaves, f \in Leaves}
  \cup {And(Exists(AtB), Or(e, Not(f))) : e \in Leaves, f \in Leaves}
  \cup {And(Or(e, Exists(AtB)), Or(Exists(AtB), f)) : e \in Leaves, f \in Leaves}
  \cup {Not(Or(e, And(f, Exists(AtB)))) : e \in Leaves, f \in Leaves}

Lone == {Bracket(<<e>>, short, wrapped) : e \in Tests \cup Combinations, short \in BOOLEAN, wrapped \in BOOLEAN}
  \cup {Bracket(<<Exists(At(<<Segment(<<Wild>>)>>))>>, TRUE, FALSE)}
OneComparison ==
  UNION {{Bracket(<<e>>, short, wrapped) : e \in {c \in Comparisons : IsOrdinary(c, short)}, wrapped \in BOOLEAN} :
           short \in BOOLEAN}
Unions == {Bracket(<<e, f>>, TRUE, wrapped) : e \in Leaves, f \in Leaves \cup Tests, wrapped \in BOOLEAN}

MCFilters == Lone \cup OneComparison \cup Unions

-----------------------------------------------------------------------------
(* Texts that are no filter *)

Garbage ==
  {<<"?">>, <<"?", "(", ")">>, <<"?", "b">>, <<"?", "1">>, <<"?", "'", "a", "'">>, <<"?", "!">>, <<"?", "@", ".">>,
   <<"?", "@", "[", "0">>, <<"?", "@", "[", "'", "a", "]">>, <<"?", "@", ".", "a", "@">>, <<"?", "(", "@", ".", "a">>,
   <<"?", "@", ".", "a", "==">>, <<"?", "==", "1">>, <<"?", "@", ".", "a", "==", "b">>, <<"?", "@", ".", "a", "==", "01">>,
   <<"?", "@", ".", "a", "==", "'", "a">>, <<"?", "@", ".", "a", "&&">>, <<"?", "||", "@", ".", "a">>,
   <<"?", "@", ".", "a", "&&", "b">>, <<"?", "@", ".", "a", ",", "b">>, <<"?", "@", ".", "a", ",">>,
   <<"?", "@", ".", "a", "==", "@", "[", "*", "]">>, <<"?", "@", "[", "01", "]", ".", "a">>, <<"?", "length", "(", "@", ")">>,
   <<"?", "@", ".", "a", ".", "a", "==", "'", "a", "'", "'", "b", "'">>}

MCCases ==
  {<<BracketText(f), Listed, Array(Items)>> : f \in Lone \cup OneComparison}
  \cup {<<BracketText(f), Listed, Few>> : f \in Unions}
  \cup {<<BracketText(f), Listed, Listed>> : f \in Lone}
  \cup {<<BracketText(Bracket(<<Compare(AtA, op, AtB)>>, FALSE, wrapped)), Characterful, Characterful>> :
          op \in ComparisonOps, wrapped \in BOOLEAN}
  \cup {<<s, Listed, Few>> : s \in Garbage}

=============================================================================
