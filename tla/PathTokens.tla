------------------------------ MODULE PathTokens ------------------------------
(***************************************************************************)
(* The tokens a JSON path is compiled to, and what one token selects from  *)
(* one value.  A key is a sequence of lexemes (see PathCompile); a member  *)
(* of an object is found under the same sequence.                          *)
(***************************************************************************)
EXTENDS JsonValue

CONSTANTS
  Letters,   \* lexemes that are names
  Literals,  \* the integer that each integer literal stands for
  IntMax,    \* INT_MAX; an int ranges over -IntMax - 1 .. IntMax
  SafeInt,   \* 2^53 in the code: literals beyond are invalid
  SizeMax,   \* std::numeric_limits<qsizetype>::max()
  KeyOrder   \* every key, in the order QJsonObject iterates in

ASSUME WidthsAssumption ==
  /\ IntMax \in Nat /\ SafeInt \in Nat /\ SizeMax \in Nat
  /\ IntMax < SafeInt /\ SafeInt <= SizeMax
ASSUME LiteralsAssumption == \A c \in DOMAIN Literals : Literals[c] \in Int
ASSUME KeyOrderAssumption == KeyOrder \in Seq(Range(KeyOrder)) /\ IsInjective(KeyOrder)

Omitted == SizeMax   \* SENTINEL: a slice part that was left out
NoKey == <<>>
NoSlice == [start |-> Omitted, end |-> Omitted, step |-> 1]

KeyToken(key, group) ==
  [kind |-> "Key", key |-> key, index |-> 0, slice |-> NoSlice, group |-> group]
PlainToken(kind) ==
  [kind |-> kind, key |-> NoKey, index |-> 0, slice |-> NoSlice, group |-> 0]

-----------------------------------------------------------------------------
(* Integer literals *)

\* isValidIndexLiteral, strictParse: beyond +-2^53 the literal is invalid.
IsSafe(n) == -SafeInt < n /\ n < SafeInt

\* An index outside the range of int becomes INT_MAX or INT_MIN.
ClampIndex(n) == IF n > IntMax THEN IntMax ELSE IF n < -IntMax - 1 THEN -IntMax - 1 ELSE n

\* A slice part outside the range of int becomes the largest or smallest
\* qsizetype; the largest is also Omitted.
SlicePart(n) == IF n > IntMax THEN SizeMax ELSE IF n < -IntMax - 1 THEN -SizeMax - 1 ELSE n

NormalizeIndex(index, size) == IF index < 0 THEN size + index ELSE index

-----------------------------------------------------------------------------
(* evalSlice *)

FromEnd(bound, len) == IF bound < 0 THEN bound + len ELSE bound
Clamped(bound, low, high) == IF bound < low THEN low ELSE IF bound > high THEN high ELSE bound

SliceStart(s, len) ==
  IF s.step > 0
  THEN Clamped(FromEnd(IF s.start = Omitted THEN 0 ELSE s.start, len), 0, len)
  ELSE Clamped(FromEnd(IF s.start = Omitted THEN len - 1 ELSE s.start, len), -1, len - 1)

SliceStop(s, len) ==
  IF s.step > 0
  THEN Clamped(FromEnd(IF s.end = Omitted THEN len ELSE s.end, len), 0, len)
  ELSE IF s.end = Omitted THEN -1 ELSE Clamped(FromEnd(s.end, len), -1, len - 1)

\* How often the loop runs before it reaches or passes stop.
SliceCount(s, len) ==
  LET start == SliceStart(s, len)
      stop == SliceStop(s, len)
  IN IF s.step > 0 /\ start < stop THEN (stop - start - 1) \div s.step + 1
     ELSE IF s.step < 0 /\ start > stop THEN (start - stop - 1) \div (-s.step) + 1
     ELSE 0

EvalSlice(elements, s) ==
  LET len == Len(elements)
  IN [n \in 1..SliceCount(s, len) |-> elements[SliceStart(s, len) + (n - 1) * s.step + 1]]

-----------------------------------------------------------------------------
(* eval<Kind>: what a token selects from a value, in order *)

\* wildcardObject, wildcardArray
ValueUnder(v, key) == IF HasMember(v, key) THEN <<v.members[key]>> ELSE <<>>
ChildValues(v) ==
  IF IsObject(v) THEN FlattenSeq([n \in 1..Len(KeyOrder) |-> ValueUnder(v, KeyOrder[n])])
  ELSE IF IsArray(v) THEN v.elements
  ELSE <<>>

SelectKey(tk, v) == IF IsObject(v) THEN ValueUnder(v, tk.key) ELSE <<>>

SelectIndex(tk, v) ==
  IF IsArray(v)
  THEN LET pos == NormalizeIndex(tk.index, Size(v))
       IN IF 0 <= pos /\ pos < Size(v) THEN <<ElementAt(v, pos)>> ELSE <<>>
  ELSE <<>>

\* A filter of the form ?@.name keeps the children that have that member
\* (FilterPatternEvaluator<SimpleExistence>).
SelectFiltered(tk, v) ==
  LET Kept(item) == IF IsObject(item) /\ HasMember(item, tk.key) THEN <<item>> ELSE <<>>
  IN FlattenSeq([n \in 1..Len(ChildValues(v)) |-> Kept(ChildValues(v)[n])])

Selected(tk, v) ==
  CASE tk.kind = "Key"      -> SelectKey(tk, v)
    [] tk.kind = "Index"    -> SelectIndex(tk, v)
    [] tk.kind = "Slice"    -> IF IsArray(v) THEN EvalSlice(v.elements, tk.slice) ELSE <<>>
    [] tk.kind = "Wildcard" -> ChildValues(v)
    [] tk.kind = "Filter"   -> SelectFiltered(tk, v)

\* isSelectorToken, addsMultiplicity
IsSelectorToken(tk) == tk.kind \in {"Index", "Key", "Filter", "Wildcard", "Slice"}
AddsMultiplicity(tk) == tk.kind \in {"Wildcard", "Recursive", "Slice", "Filter"}

=============================================================================
