---------------------------- MODULE QuerySemantics ----------------------------
(***************************************************************************)
(* What RFC 9535 says a query means (doc/specs/rfc9535.txt), and the texts *)
(* it may be written as.  A query is a sequence of segments; a segment is  *)
(* a descendant segment or not, with its selectors.                        *)
(***************************************************************************)
EXTENDS Descendants

-----------------------------------------------------------------------------
(* Queries *)

Segment(selectors) == [descends |-> FALSE, selectors |-> selectors]
Descendant(selectors) == [descends |-> TRUE, selectors |-> selectors]

\* A name, as it is spelled in a bracket.
Spelled(k, spelling) == [kind |-> "Key", key |-> k, spelling |-> spelling]
ByKey(k) == Spelled(k, <<"'">> \o k \o <<"'">>)
ByIndex(n) == [kind |-> "Index", literal |-> n]
BySlice(start, end, step) == [kind |-> "Slice", start |-> start, end |-> end, step |-> step]
Wild == [kind |-> "Wildcard"]
Having(k) == [kind |-> "Filter", key |-> k]

LeftOut == "left out"   \* a part of a slice

\* One text after the other.  (A fold, so that TLC builds the texts only once.)
Joined(texts) == FoldLeft(LAMBDA x, y : x \o y, <<>>, texts)

\* A literal or a key in the lexemes of a bracket.
PartText(part) == IF part = LeftOut THEN <<>> ELSE <<part>>
SelectorText(sel) ==
  CASE sel.kind = "Key"      -> sel.spelling
    [] sel.kind = "Index"    -> <<sel.literal>>
    [] sel.kind = "Slice"    -> PartText(sel.start) \o <<":">> \o PartText(sel.end)
                                  \o (IF sel.step = LeftOut THEN <<>> ELSE <<":", sel.step>>)
    [] sel.kind = "Wildcard" -> <<"*">>
    [] sel.kind = "Filter"   -> <<"?", "@", ".">> \o sel.key

\* The shorthands .name and .* need a name, or a wildcard, on its own.
HasShorthand(seg) ==
  /\ Len(seg.selectors) = 1
  /\ \/ seg.selectors[1] = Wild
     \/ seg.selectors[1].kind = "Key" /\ Len(seg.selectors[1].key) = 1 /\ seg.selectors[1].key[1] \in Letters

SegmentText(seg, short) ==
  LET dots == IF seg.descends THEN <<".", ".">> ELSE IF short /\ HasShorthand(seg) THEN <<".">> ELSE <<>>
      listed == [k \in 1..Len(seg.selectors) |->
                   (IF k = 1 THEN <<>> ELSE <<",">>) \o SelectorText(seg.selectors[k])]
  IN dots \o (IF short /\ HasShorthand(seg)
              THEN IF seg.selectors[1] = Wild THEN <<"*">> ELSE seg.selectors[1].key
              ELSE <<"[">> \o Joined(listed) \o <<"]">>)

QueryText(query, short) ==
  <<"$">> \o Joined([k \in 1..Len(query) |-> SegmentText(query[k], short)])

-----------------------------------------------------------------------------
(* Node lists *)

\* 2.3.4.2.2: the positions of an array of length len that a slice selects.
SlicePositions(sel, len) ==
  LET Bound(part, default) == IF part = LeftOut THEN default
                              ELSE IF Literals[part] >= 0 THEN Literals[part] ELSE len + Literals[part]
      step == IF sel.step = LeftOut THEN 1 ELSE Literals[sel.step]
      start == Bound(sel.start, IF step >= 0 THEN 0 ELSE len - 1)
      end == Bound(sel.end, IF step >= 0 THEN len ELSE -len - 1)
      lower == IF step >= 0 THEN Min({Max({start, 0}), len}) ELSE Min({Max({end, -1}), len - 1})
      upper == IF step >= 0 THEN Min({Max({end, 0}), len}) ELSE Min({Max({start, -1}), len - 1})
      positions == [n \in 1..len |-> n - 1]
  IN CASE step > 0 -> SelectSeq(positions, LAMBDA n : n \in lower..upper - 1 /\ (n - lower) % step = 0)
       [] step < 0 ->
            Reverse(SelectSeq(positions, LAMBDA n : n \in lower + 1..upper /\ (upper - n) % (-step) = 0))
       [] OTHER    -> <<>>

\* What a selector selects from a value.
Selects(sel, v) ==
  CASE sel.kind = "Key" -> IF IsObject(v) /\ HasMember(v, sel.key) THEN <<v.members[sel.key]>> ELSE <<>>
    [] sel.kind = "Index" ->
         IF ~IsArray(v) THEN <<>>
         ELSE LET n == Literals[sel.literal]
                  at == IF n >= 0 THEN n ELSE Size(v) + n
              IN IF at \in 0..Size(v) - 1 THEN <<ElementAt(v, at)>> ELSE <<>>
    [] sel.kind = "Slice" ->
         IF ~IsArray(v) THEN <<>>
         ELSE LET at == SlicePositions(sel, Size(v)) IN [n \in DOMAIN at |-> ElementAt(v, at[n])]
    [] sel.kind = "Wildcard" -> ChildValues(v)
    [] sel.kind = "Filter" ->
         SelectSeq(ChildValues(v), LAMBDA item : IsObject(item) /\ HasMember(item, sel.key))

\* Node by node, and for each node selector by selector.
SegmentNodes(seg, nodes) ==
  LET from == IF seg.descends THEN PreorderOfAll(nodes) ELSE nodes
  IN FlattenSeq([n \in 1..Len(from) |->
       FlattenSeq([k \in 1..Len(seg.selectors) |-> Selects(seg.selectors[k], from[n])])])

RECURSIVE NodesFrom(_, _)
NodesFrom(query, nodes) ==
  IF query = <<>> THEN nodes ELSE NodesFrom(Tail(query), SegmentNodes(Head(query), nodes))

RfcNodes(query, root) == NodesFrom(query, <<root>>)

IsUnionSegment(seg) == Len(seg.selectors) > 1
IsSingular(seg) ==
  ~seg.descends /\ Len(seg.selectors) = 1 /\ seg.selectors[1].kind \in {"Key", "Index"}

\* A union of a single value, or no union at all: only then does the order of the
\* list not depend on whether it is built by value or by selector.
OrderMatters(query) ==
  \A k \in 1..Len(query) :
    IsUnionSegment(query[k]) => ~query[k].descends /\ \A j \in 1..k - 1 : IsSingular(query[j])

Occurrences(list, v) == Cardinality({n \in 1..Len(list) : list[n] = v})
SameNodes(found, meant) ==
  /\ Len(found) = Len(meant)
  /\ \A n \in 1..Len(meant) : Occurrences(found, meant[n]) = Occurrences(meant, meant[n])

=============================================================================
