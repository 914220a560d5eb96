------------------------------ MODULE MCJSONPath ------------------------------
(* Instances of PathSemantics for TLC. *)
EXTENDS PathSemantics

CONSTANTS t1, t2

A == <<"a">>
B == <<"b">>
Odd == <<"a", "]">>   \* a name that needs quotes
MCKeyOrder == <<A, Odd, B>>

\* "90" is beyond the int range of the model, "-0" is no literal.
MCLiterals ==
  "0" :> 0 @@ "1" :> 1 @@ "2" :> 2 @@ "3" :> 3 @@ "-1" :> -1 @@ "-2" :> -2 @@ "-4" :> -4
  @@ "90" :> 90 @@ "-90" :> -90

Leaf == Object(A :> Num(1) @@ B :> Num(2))
Nested == Object(A :> Array(<<Num(1), Leaf, Array(<<Num(3)>>)>>) @@ B :> Object(A :> Leaf @@ Odd :> Num(1)))
Listed == Array(<<Array(<<Num(0), Num(1), Num(2)>>), Leaf, Leaf, Num(1)>>)
Trees == {Nested, Listed}
MCDocs == t1 :> Trees @@ t2 :> {}

\* A value with the values in it, and how deeply it is nested.
RECURSIVE ValuesIn(_)
ValuesIn(v) == {v} \cup UNION {ValuesIn(c) : c \in Children(v)}
RECURSIVE NestingOf(_)
NestingOf(v) == IF Children(v) = {} THEN 0 ELSE 1 + Max({NestingOf(c) : c \in Children(v)})

MCJson == UNION {ValuesIn(v) : v \in Trees}
MCNesting == [v \in MCJson |-> NestingOf(v)]

-----------------------------------------------------------------------------
(* Queries of up to two segments *)

Singles == {ByKey(A), ByKey(Odd), ByIndex("0"), ByIndex("-1"), Wild, Having(A),
            BySlice("1", LeftOut, LeftOut), BySlice(LeftOut, LeftOut, "-1")}
Unions == {<<ByKey(A), ByKey(B)>>, <<ByIndex("0"), ByIndex("-1")>>, <<ByKey(B), Wild>>,
           <<BySlice("0", "2", LeftOut), ByIndex("1"), ByIndex("1")>>}
Lists == {<<sel>> : sel \in Singles} \cup Unions
Segments == {Segment(list) : list \in Lists} \cup {Descendant(list) : list \in Lists}

\* Every combination of slice parts, on its own.
Parts == {LeftOut, "0", "1", "3", "-1", "-4", "90", "-90"}
Slices == {<<Segment(<<BySlice(start, end, step)>>)>> :
             start \in Parts, end \in Parts, step \in {LeftOut, "0", "2", "-1", "-2", "90"}}

\* The queries on which the code is known to differ (see the README): a union
\* with a child segment behind it, a name behind ".." with anything behind it,
\* and a slice that begins beyond the range of int.
IsBeyond(part) == part # LeftOut /\ Literals[part] > IntMax
BeginsBeyond(sel) ==
  sel.kind = "Slice" /\ IF sel.step \in {"-1", "-2"} THEN IsBeyond(sel.end) ELSE IsBeyond(sel.start)
IsOrdinary(query) ==
  \A k \in 1..Len(query) :
    /\ \A n \in 1..Len(query[k].selectors) : ~BeginsBeyond(query[k].selectors[n])
    /\ k < Len(query) =>
         /\ IsUnionSegment(query[k]) => query[k + 1].descends
         /\ ~(query[k].descends /\ Len(query[k].selectors) = 1 /\ query[k].selectors[1].kind = "Key")

Longer == {<<Segment(<<ByKey(A)>>), Segment(<<ByIndex("1")>>), Segment(<<ByKey(B)>>)>>,
           <<Segment(<<Wild>>), Segment(<<ByKey(B)>>), Descendant(<<Wild>>)>>,
           <<Segment(<<ByIndex("90")>>)>>, <<Segment(<<ByIndex("-90")>>)>>}
Combinations == {<<>>} \cup {<<s>> : s \in Segments} \cup (Segments \X Segments) \cup Slices \cup Longer
Ordinary == {q \in Combinations : IsOrdinary(q)}

-----------------------------------------------------------------------------
(* Texts that are no query *)

Garbage ==
  {<<>>, <<"a">>, <<"$", "a">>, <<"$", ".">>, <<"$", ".", ".">>, <<"$", ".", "[", "0", "]">>,
   <<"$", ".", "0">>, <<"$", ".", "a", "]">>, <<"$", "[">>, <<"$", "[", "]">>, <<"$", "[", "0">>,
   <<"$", "[", "'", "a", "]">>, <<"$", "[", "0", ",", "]">>, <<"$", "[", ",", "0", "]">>,
   <<"$", "[", "-0", "]">>, <<"$", "[", "a", "]">>, <<"$", "[", "'", "]">>, <<"$", "[", "?", "]">>,
   <<"$", "[", "0", ":", "1", ":", "1", ":", "1", "]">>, <<"$", "[", "'", "a", "'", "a", "'", "]">>,
   <<"$", "[", "0", ":", "a", "]">>, <<".length()">>}
Functions == {".length()", ".min()", ".max()"}
Reduced == {<<"$">>, <<"$", ".", "a">>, <<"$", ".", "*">>, <<"$", "[", "0", "]">>}

-----------------------------------------------------------------------------
(* Names with escapes: every sequence of two of these pieces between quotes,  *)
(* right or wrong, on its own and in a union                                  *)

Esc(rest) == <<"\\">> \o rest
MCCodeUnits ==
  "a" :> 97 @@ "b" :> 98 @@ "n" :> 110 @@ "u" :> 117 @@ "\\" :> 92 @@ "/" :> 47 @@ "'" :> 39 @@ "\"" :> 34 @@ "]" :> 93
  @@ "0" :> 48 @@ "6" :> 54 @@ "8" :> 56 @@ "3" :> 51 @@ "1" :> 49 @@ "2" :> 50 @@ "7" :> 55 @@ "A" :> 65
  @@ "D" :> 68 @@ "E" :> 69 @@ "d" :> 100 @@ "U+000A" :> 10 @@ "U+D83D" :> 55357 @@ "U+DE00" :> 56832
High == Esc(<<"u", "D", "8", "3", "D">>)
Low == Esc(<<"u", "d", "E", "0", "0">>)
Pieces ==
  {<<>>, <<"a">>, <<"]">>, <<"'">>, <<"\"">>, <<"\\">>, <<"U+000A">>, <<"U+D83D", "U+DE00">>,
   Esc(<<"'">>), Esc(<<"\"">>), Esc(<<"\\">>), Esc(<<"/">>), Esc(<<"n">>), Esc(<<"a">>),
   Esc(<<"u", "0", "0", "2", "7">>), Esc(<<"u", "0", "0", "0", "a">>), Esc(<<"u", "0", "0", "6">>),
   Esc(<<"u", "0", "0", "n", "1">>), High, Low, High \o Low}
UnionPieces == Pieces \ {<<"]">>}   \* a bracket in a name hides the comma behind it (see the README)
\* A quote and a bracket would end the name and its bracket, with a bare name behind.
Contents == {x \o y : x \in Pieces, y \in Pieces} \ {<<quote, "]">> : quote \in Quotes}
InBracket(quote, content) == <<"$", "[", quote>> \o content \o <<quote, "]">>
InUnion(quote, content) == <<"$", "[", quote>> \o content \o <<quote, ",", "'", "a", "'", "]">>
NameTexts == {InBracket(quote, x) : quote \in Quotes, x \in Contents}
          \cup {InUnion(quote, x) : quote \in Quotes, x \in UnionPieces}
NameQueries == {<<Segment(<<sel>>)>> : sel \in SpelledWith(Contents)}
            \cup {<<Segment(<<sel, ByKey(A)>>)>> : sel \in SpelledWith(UnionPieces)}

MCQueries == Ordinary \cup NameQueries
MCTexts ==
  {t1 :> x @@ t2 :> <<"$", "[", "0", "]">> :
     x \in {QueryText(q, short) : q \in Ordinary, short \in BOOLEAN} \cup Garbage \cup {Append(x, f) : x \in Reduced, f \in Functions}}
  \cup {t1 :> x @@ t2 :> <<"$">> : x \in NameTexts}
-----------------------------------------------------------------------------
(* A name behind "..", and a segment behind it *)

NamesThen(sel) == <<Descendant(<<ByKey(A)>>), Segment(<<sel>>)>>
BehindDescendant == {NamesThen(sel) : sel \in {ByKey(A), ByKey(B), ByIndex("0"), Wild}}
DescendantTexts == {t1 :> p[1] @@ t2 :> <<"$">> : p \in Written}
=============================================================================
