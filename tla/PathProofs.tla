------------------------------ MODULE PathProofs ------------------------------
(***************************************************************************)
(* Proofs about PathCompile and PathEvaluation, for any number of threads, *)
(* any texts and documents.                                                *)
(***************************************************************************)
EXTENDS PathEvaluation, IntervalInduction, SequenceTheorems, TLAPS

(***************************************************************************)
(* Scanning                                                                *)
(***************************************************************************)

IsSequence(s) == Len(s) \in Nat /\ s = [k \in 1..Len(s) |-> s[k]]

\* A function on an initial interval is a sequence.
LEMMA BuiltSequence ==
  ASSUME NEW n \in Nat, NEW f, f = [k \in 1..n |-> f[k]]
  PROVE  Len(f) = n /\ IsSequence(f)
<1> DEFINE S == {f[k] : k \in 1..n}
<1>1. f \in [1..n -> S]
  OBVIOUS
<1>2. f \in Seq(S) /\ Len(f) = n
  BY <1>1, LenProperties
<1> QED BY <1>2 DEF IsSequence

\* The pieces of a text are one more than the cuts.
LEMMA PiecesOfText ==
  ASSUME NEW s \in Seq(Lexemes), NEW cuts \in SUBSET (1..Len(s))
  PROVE  IsSequence(SplitAt(s, cuts))
<1>1. IsFiniteSet(cuts)
  BY FS_Subset, FS_Interval, Len(s) \in Int, 1 \in Int
<1>2. Cardinality(cuts) + 1 \in Nat
  BY <1>1, FS_CardinalityType
<1> DEFINE n == Cardinality(cuts) + 1
           f == SplitAt(s, cuts)
<1>3. f = [k \in 1..n |-> f[k]]
  BY DEF SplitAt
<1> HIDE DEF f, n
<1>4. IsSequence(f)
  BY <1>2, <1>3, BuiltSequence DEF n
<1> QED BY <1>4 DEF f

\* A bracket's content has a sequence of selectors.
LEMMA SelectorsOfBracket ==
  ASSUME NEW c \in Seq(Lexemes)
  PROVE  /\ IsSequence(Selectors(c))
         /\ \A k \in 1..Len(Selectors(c)) : \E s : Selectors(c)[k] = SelectorOf(s)
<1>1. CASE HasUnionComma(c)
  <2> DEFINE segments == SplitAt(c, UnionCuts(c))
             f == [k \in 1..Len(segments) |-> SelectorOf(segments[k])]
  <2>1. UnionCuts(c) \in SUBSET (1..Len(c))
    BY DEF UnionCuts
  <2>2. Len(segments) \in Nat
    BY <2>1, PiecesOfText DEF IsSequence
  <2>3. Selectors(c) = f
    BY <1>1 DEF Selectors
  <2> HIDE DEF segments
  <2>4. f = [k \in 1..Len(segments) |-> f[k]]
    OBVIOUS
  <2>5. Len(f) = Len(segments) /\ IsSequence(f)
    <3> HIDE DEF f
    <3> QED BY <2>2, <2>4, BuiltSequence
  <2> QED BY <2>3, <2>5
<1>2. CASE ~HasUnionComma(c)
  <2>1. Selectors(c) = <<SelectorOf(c)>>
    BY <1>2 DEF Selectors
  <2> QED BY <2>1 DEF IsSequence
<1> QED BY <1>1, <1>2

\* A rule that fails returns an error of the parser.
LEMMA ErrorOfSelector ==
  ASSUME NEW s, SelectorOf(s).kind = "error"
  PROVE  SelectorOf(s).error \in ParseErrors
<1>1. \A e : FilterSelector(e).kind = "error" => FilterSelector(e) = Error("UnsupportedFilter")
  BY DEF FilterSelector, PlainToken
<1>2. QuotedSelector(s).kind = "error" => QuotedSelector(s) = Error("InvalidSlice")
  BY DEF QuotedSelector, KeyToken
<1>3. SliceSelector(s).kind # "error"
  BY DEF SliceSelector, PlainToken
<1>4. PlainToken("Wildcard").kind # "error"
  BY DEF PlainToken
<1>5. [PlainToken("Index") EXCEPT !.index = ClampIndex(LiteralOf(s))].kind # "error"
  BY DEF PlainToken
<1>6. \A e : Error(e).error = e
  BY DEF Error
<1>7. SelectorOf(s) \in {Error(e) : e \in {"UnsupportedFilter", "InvalidSlice", "InvalidIndex", "InvalidIdentifier"}}
  BY <1>1, <1>2, <1>3, <1>4, <1>5 DEF SelectorOf
<1> QED BY <1>6, <1>7 DEF ParseErrors

\* A name that begins at p, before the end of the text, ends at p or later, and
\* later if there is no dot and no bracket at p.
LEMMA NameEnds ==
  ASSUME NEW t, NEW p \in Nat, text[t] \in Seq(Lexemes), p <= Length(t)
  PROVE  /\ NameEnd(t, p) \in p..Length(t)
         /\ p < Length(t) /\ At(t, p) \notin {".", "["} => NameEnd(t, p) > p
<1> DEFINE ends == {n \in p..Length(t) : At(t, n) \in {".", "[", "end"}}
<1>1. Length(t) \in Nat
  BY DEF Length
<1>2. Length(t) \in ends
  BY <1>1 DEF At
<1>3. ends \subseteq Nat
  BY <1>1
<1>4. Min(ends) \in ends
  <2> HIDE DEF ends
  <2> QED BY <1>2, <1>3, MinOfNat
<1>5. p < Length(t) => At(t, p) # "end"
  BY DEF At, Length, Lexemes
<1> QED BY <1>1, <1>4, <1>5 DEF NameEnd

\* The closing bracket is a position of the text.
LEMMA ClosingBracket ==
  ASSUME NEW s \in Seq(Lexemes), ClosingBrackets(s) # {}
  PROVE  Min(ClosingBrackets(s)) \in 1..Len(s)
<1>1. ClosingBrackets(s) \in SUBSET (1..Len(s))
  BY DEF ClosingBrackets, ReadOutside
<1>2. ClosingBrackets(s) \subseteq Nat
  BY <1>1
<1> QED BY <1>1, <1>2, MinOfNat

(***************************************************************************)
(* The tokens of a path                                                    *)
(***************************************************************************)

\* What GroupsApart rests on: the lists are sequences, a group that was given
\* out is below the counter, and a position that was read is behind the parser.
ListsOK ==
  /\ tokens = [t \in Threads |-> tokens[t]]
  /\ origin = [t \in Threads |-> origin[t]]
  /\ \A t \in Threads : IsSequence(tokens[t]) /\ IsSequence(origin[t])
GroupsUsed ==
  \A t \in Threads : \A k \in 1..Len(tokens[t]) :
    tokens[t][k].group \in 0..nextGroup - 1 /\ origin[t][k] \in 0..pos[t] - 1
CompileInv == CompileTypeOK /\ ListsOK /\ GroupsUsed /\ GroupsApart

\* Two sequences, one after the other.
LEMMA Joined ==
  ASSUME NEW a, NEW b, IsSequence(a), IsSequence(b)
  PROVE  /\ IsSequence(a \o b)
         /\ Len(a \o b) = Len(a) + Len(b)
         /\ \A k \in 1..Len(a) + Len(b) : (a \o b)[k] = IF k <= Len(a) THEN a[k] ELSE b[k - Len(a)]
<1> DEFINE S == {a[k] : k \in 1..Len(a)} \cup {b[k] : k \in 1..Len(b)}
<1>1. Len(a) \in Nat /\ Len(b) \in Nat
  BY DEF IsSequence
<1>2. a \in [1..Len(a) -> S]
  BY DEF IsSequence
<1>3. b \in [1..Len(b) -> S]
  BY DEF IsSequence
<1>4. a \in Seq(S) /\ b \in Seq(S)
  BY <1>1, <1>2, <1>3
<1> HIDE DEF S
<1>5. /\ a \o b \in Seq(S)
      /\ Len(a \o b) = Len(a) + Len(b)
      /\ \A k \in 1..Len(a) + Len(b) : (a \o b)[k] = IF k <= Len(a) THEN a[k] ELSE b[k - Len(a)]
  BY <1>4, ConcatProperties
<1>6. IsSequence(a \o b)
  BY <1>5, LenProperties DEF IsSequence
<1> QED BY <1>5, <1>6

\* A bound that grows keeps what was below it below it.
LEMMA WiderInterval ==
  ASSUME NEW a \in Nat, NEW b \in Nat, a <= b, NEW x \in 0..a - 1
  PROVE  x \in 0..b - 1 /\ x \in Nat /\ x < a /\ x < b
OBVIOUS

LEMMA BelowBound ==
  ASSUME NEW a \in Nat, NEW b \in Nat, a < b
  PROVE  a \in 0..b - 1
OBVIOUS

\* A token, or the tokens of a bracket, are emitted, with a group of their own if
\* with any: the parser moves on, so their position is new, and the group was
\* not given out before.
LEMMA EmitKeeps ==
  ASSUME CompileInv, NEW t \in Threads, NEW toks, NEW p \in Nat, NEW g \in Nat,
         IsSequence(toks), \A k \in 1..Len(toks) : toks[k].group = g,
         p > pos[t], Emit(t, toks, p), nextGroup' \in 1..MaxGroups + 1,
         \/ g = 0 /\ nextGroup' = nextGroup
         \/ g = nextGroup /\ nextGroup' = nextGroup + 1
  PROVE  CompileInv'
<1> DEFINE old == Len(tokens[t])
           places == [k \in 1..Len(toks) |-> pos[t]]
<1>1. /\ Len(toks) \in Nat /\ old \in Nat /\ Len(origin[t]) = old
      /\ pos[t] \in Nat /\ nextGroup \in 1..MaxGroups + 1 /\ MaxGroups \in Nat
  BY GroupsAssumption DEF CompileInv, CompileTypeOK, ListsOK, IsSequence
<1>1a. nextGroup \in Nat /\ nextGroup > 0 /\ nextGroup' \in Nat /\ nextGroup' >= nextGroup
  BY <1>1
<1>1b. g < nextGroup' /\ (g = 0 \/ g = nextGroup)
  BY <1>1
<1>2. Len(places) = Len(toks) /\ IsSequence(places)
  <2>1. places = [k \in 1..Len(toks) |-> places[k]]
    OBVIOUS
  <2> HIDE DEF places
  <2> QED BY <1>1, <2>1, BuiltSequence
<1>3. /\ tokens' = [tokens EXCEPT ![t] = tokens[t] \o toks]
      /\ origin' = [origin EXCEPT ![t] = origin[t] \o places]
      /\ pos' = [pos EXCEPT ![t] = p]
      /\ UNCHANGED <<text, func, status>>
  BY DEF Emit
<1>4. /\ tokens' = [u \in Threads |-> IF u = t THEN tokens[t] \o toks ELSE tokens[u]]
      /\ origin' = [u \in Threads |-> IF u = t THEN origin[t] \o places ELSE origin[u]]
      /\ pos' = [u \in Threads |-> IF u = t THEN p ELSE pos[u]]
  <2>1. DOMAIN tokens = Threads /\ DOMAIN origin = Threads /\ DOMAIN pos = Threads
    BY DEF CompileInv, CompileTypeOK, ListsOK
  <2> QED BY <1>3, <2>1
<1>5. /\ IsSequence(tokens'[t]) /\ Len(tokens'[t]) = old + Len(toks)
      /\ \A k \in 1..old + Len(toks) :
           tokens'[t][k] = IF k <= old THEN tokens[t][k] ELSE toks[k - old]
  BY <1>4, Joined DEF CompileInv, ListsOK
<1>6. /\ IsSequence(origin'[t]) /\ Len(origin'[t]) = old + Len(toks)
      /\ \A k \in 1..old + Len(toks) :
           origin'[t][k] = IF k <= old THEN origin[t][k] ELSE pos[t]
  <2>1. \A k \in 1..Len(toks) : places[k] = pos[t]
    OBVIOUS
  <2> HIDE DEF places
  <2>2. origin'[t] = origin[t] \o places /\ IsSequence(origin[t])
    BY <1>4 DEF CompileInv, ListsOK
  <2> DEFINE joined == origin[t] \o places
  <2>3. /\ IsSequence(joined) /\ Len(joined) = Len(origin[t]) + Len(places)
        /\ \A k \in 1..Len(origin[t]) + Len(places) :
             joined[k] = IF k <= Len(origin[t]) THEN origin[t][k] ELSE places[k - Len(origin[t])]
    BY <1>2, <2>2, Joined
  <2>4. Len(origin[t]) = old /\ Len(places) = Len(toks)
    BY <1>1, <1>2
  <2> HIDE DEF joined
  <2>5. /\ IsSequence(joined) /\ Len(joined) = old + Len(toks)
        /\ \A k \in 1..old + Len(toks) :
             joined[k] = IF k <= old THEN origin[t][k] ELSE places[k - old]
    BY <2>3, <2>4
  <2>6. ASSUME NEW k \in 1..old + Len(toks), ~(k <= old)
        PROVE  places[k - old] = pos[t]
    <3>1. k - old \in 1..Len(toks)
      BY <1>1, <2>6
    <3> QED BY <2>1, <3>1
  <2>7. origin'[t] = joined
    BY <2>2 DEF joined
  <2>8. \A k \in 1..old + Len(toks) : joined[k] = IF k <= old THEN origin[t][k] ELSE pos[t]
    BY <2>5, <2>6
  <2> HIDE DEF old
  <2> QED BY <2>5, <2>7, <2>8
<1>7. \A u \in Threads : u # t =>
        tokens'[u] = tokens[u] /\ origin'[u] = origin[u] /\ pos'[u] = pos[u]
  BY <1>4
<1> HIDE DEF places
<1>8. CompileTypeOK'
  <2>1. \A u \in Threads : Len(origin'[u]) = Len(tokens'[u])
    BY <1>5, <1>6, <1>7 DEF CompileInv, CompileTypeOK
  <2>2. pos' \in [Threads -> Nat]
    BY <1>4 DEF CompileInv, CompileTypeOK
  <2> QED BY <1>3, <2>1, <2>2 DEF CompileInv, CompileTypeOK
<1>9. ListsOK'
  <2>1. \A u \in Threads : IsSequence(tokens'[u]) /\ IsSequence(origin'[u])
    BY <1>5, <1>6, <1>7 DEF CompileInv, ListsOK
  <2>2. tokens' = [u \in Threads |-> tokens'[u]] /\ origin' = [u \in Threads |-> origin'[u]]
    BY <1>4
  <2> QED BY <2>1, <2>2 DEF ListsOK
<1>10. GroupsUsed'
  <2> SUFFICES ASSUME NEW u \in Threads, NEW k \in 1..Len(tokens'[u])
               PROVE  /\ tokens'[u][k].group \in 0..nextGroup' - 1
                      /\ origin'[u][k] \in 0..pos'[u] - 1
    BY DEF GroupsUsed
  <2>1. CASE u # t
    <3>1. /\ k \in 1..Len(tokens[u]) /\ tokens'[u][k] = tokens[u][k]
          /\ origin'[u][k] = origin[u][k] /\ pos'[u] = pos[u]
      BY <1>7, <2>1
    <3>2. tokens[u][k].group \in 0..nextGroup - 1 /\ origin[u][k] \in 0..pos[u] - 1
      BY <3>1 DEF CompileInv, GroupsUsed
    <3> QED BY <1>1a, <3>1, <3>2
  <2>2. CASE u = t /\ k <= old
    <3>1. /\ k \in 1..old /\ k \in 1..old + Len(toks)
          /\ tokens'[u][k] = tokens[t][k] /\ origin'[u][k] = origin[t][k] /\ pos'[u] = p
      BY <1>1, <1>4, <1>5, <1>6, <2>2
    <3>2. tokens[t][k].group \in 0..nextGroup - 1 /\ origin[t][k] \in 0..pos[t] - 1
      BY <3>1 DEF CompileInv, GroupsUsed
    <3>3. tokens[t][k].group \in 0..nextGroup' - 1 /\ origin[t][k] \in 0..p - 1
      <4>1. nextGroup <= nextGroup' /\ pos[t] <= p /\ pos[t] \in Nat
        BY <1>1, <1>1a
      <4> QED BY <1>1a, <3>2, <4>1, WiderInterval
    <3> QED BY <3>1, <3>3, <2>2
  <2>3. CASE u = t /\ k > old
    <3>1. /\ k \in 1..old + Len(toks) /\ k - old \in 1..Len(toks)
          /\ tokens'[u][k] = toks[k - old] /\ origin'[u][k] = pos[t] /\ pos'[u] = p
      BY <1>1, <1>4, <1>5, <1>6, <2>3
    <3>2. toks[k - old].group = g
      BY <3>1
    <3>3. g \in 0..nextGroup' - 1
      BY <1>1a, <1>1b, BelowBound
    <3>4. pos[t] \in 0..p - 1
      BY <1>1, BelowBound
    <3> QED BY <3>1, <3>2, <3>3, <3>4, <2>3
  <2> QED BY <1>1, <1>5, <2>1, <2>2, <2>3
<1>11. GroupsApart'
  <2> SUFFICES ASSUME NEW u \in Threads, NEW j \in 1..Len(tokens'[u]), NEW k \in 1..Len(tokens'[u]),
                      tokens'[u][j].group > 0
               PROVE  tokens'[u][j].group = tokens'[u][k].group <=> origin'[u][j] = origin'[u][k]
    BY DEF GroupsApart
  <2>1. CASE u # t
    BY <1>7, <2>1 DEF CompileInv, GroupsApart
  <2>2. CASE u = t
    <3>1. j \in 1..old + Len(toks) /\ k \in 1..old + Len(toks)
      BY <1>5, <2>2
    <3>2. ASSUME NEW m \in 1..old + Len(toks), m <= old
          PROVE  /\ tokens'[t][m] = tokens[t][m] /\ origin'[t][m] = origin[t][m] /\ m \in 1..old
                 /\ tokens[t][m].group \in Nat /\ tokens[t][m].group < nextGroup
                 /\ origin[t][m] \in Nat /\ origin[t][m] < pos[t]
      <4>1. m \in 1..old
        BY <1>1, <3>2
      <4>2. tokens[t][m].group \in 0..nextGroup - 1 /\ origin[t][m] \in 0..pos[t] - 1
        BY <4>1 DEF CompileInv, GroupsUsed
      <4>3. tokens'[t][m] = tokens[t][m] /\ origin'[t][m] = origin[t][m]
        BY <1>5, <1>6, <3>2
      <4>4. nextGroup <= nextGroup /\ pos[t] <= pos[t] /\ pos[t] \in Nat
        BY <1>1, <1>1a
      <4>5. tokens[t][m].group \in Nat /\ tokens[t][m].group < nextGroup
        BY <1>1a, <4>2, <4>4, WiderInterval
      <4>6. origin[t][m] \in Nat /\ origin[t][m] < pos[t]
        BY <4>2, <4>4, WiderInterval
      <4> QED BY <4>1, <4>3, <4>5, <4>6
    <3>3. ASSUME NEW m \in 1..old + Len(toks), m > old
          PROVE  tokens'[t][m].group = g /\ origin'[t][m] = pos[t]
      <4>1. m - old \in 1..Len(toks)
        BY <1>1, <3>3
      <4>2. ~(m <= old)
        BY <1>1, <3>3
      <4> QED BY <1>5, <1>6, <4>1, <4>2
    <3>4. CASE j <= old /\ k <= old
      <4>1. /\ j \in 1..old /\ tokens'[t][j] = tokens[t][j] /\ origin'[t][j] = origin[t][j]
            /\ k \in 1..old /\ tokens'[t][k] = tokens[t][k] /\ origin'[t][k] = origin[t][k]
        BY <3>1, <3>2, <3>4
      <4>2. tokens[t][j].group > 0
        BY <2>2, <4>1
      <4> QED BY <2>2, <4>1, <4>2 DEF CompileInv, GroupsApart
    <3>5. CASE j <= old /\ k > old
      <4>1. /\ tokens'[t][j].group \in Nat /\ tokens'[t][j].group < nextGroup
            /\ origin'[t][j] \in Nat /\ origin'[t][j] < pos[t]
        BY <3>1, <3>2, <3>5
      <4>2. tokens'[t][k].group = g /\ origin'[t][k] = pos[t]
        BY <3>1, <3>3, <3>5
      <4>3. tokens'[t][j].group > 0
        BY <2>2
      <4>4. tokens'[t][j].group # g /\ origin'[t][j] # pos[t]
        BY <1>1, <1>1a, <1>1b, <4>1, <4>3
      <4> QED BY <2>2, <4>2, <4>4
    <3>6. CASE j > old /\ k <= old
      <4>1. /\ tokens'[t][k].group \in Nat /\ tokens'[t][k].group < nextGroup
            /\ origin'[t][k] \in Nat /\ origin'[t][k] < pos[t]
        BY <3>1, <3>2, <3>6
      <4>2. tokens'[t][j].group = g /\ origin'[t][j] = pos[t]
        BY <3>1, <3>3, <3>6
      <4>3. g > 0
        BY <2>2, <4>2
      <4>4. tokens'[t][k].group # g /\ origin'[t][k] # pos[t]
        BY <1>1, <1>1a, <1>1b, <4>1, <4>3
      <4> QED BY <2>2, <4>2, <4>4
    <3>7. CASE j > old /\ k > old
      BY <2>2, <3>1, <3>3, <3>7
    <3>8. j \in Nat /\ k \in Nat /\ old \in Nat
      BY <1>1, <3>1
    <3> QED BY <3>4, <3>5, <3>6, <3>7, <3>8
  <2> QED BY <2>1, <2>2
<1> QED BY <1>8, <1>9, <1>10, <1>11 DEF CompileInv

\* A path text is refused, and no token changes.
LEMMA RejectKeeps ==
  ASSUME CompileInv, NEW t \in Threads, NEW e \in ParseErrors, Reject(t, e),
         nextGroup' \in 1..MaxGroups + 1, nextGroup' >= nextGroup
  PROVE  CompileInv'
<1>1. UNCHANGED <<text, func, pos, tokens, origin>>
  BY DEF Reject
<1>2. status' \in [Threads -> {"called", "compiling", "compiled"} \cup ParseErrors]
  BY DEF Reject, CompileInv, CompileTypeOK
<1>3. CompileTypeOK'
  BY <1>1, <1>2 DEF CompileInv, CompileTypeOK
<1>4. GroupsUsed'
  <2>1. nextGroup \in Nat /\ nextGroup' \in Nat /\ nextGroup <= nextGroup'
    BY GroupsAssumption DEF CompileInv, CompileTypeOK
  <2>2. \A t_1 \in Threads : \A k \in 1..Len(tokens[t_1]) :
          /\ tokens[t_1][k].group \in 0..nextGroup' - 1
          /\ origin[t_1][k] \in 0..pos[t_1] - 1
    BY <2>1, WiderInterval DEF CompileInv, GroupsUsed
  <2> QED BY <1>1, <2>2 DEF GroupsUsed
<1> QED BY <1>1, <1>3, <1>4 DEF CompileInv, ListsOK, GroupsApart

\* The call starts with the token of the root.
LEMMA StartKeeps ==
  ASSUME CompileInv, NEW t \in Threads, Start(t)
  PROVE  CompileInv'
<1> DEFINE path == text'[t]
<1>1. /\ tokens' = [tokens EXCEPT ![t] = <<RootToken>>]
      /\ origin' = [origin EXCEPT ![t] = <<0>>]
      /\ pos' = [pos EXCEPT ![t] = 1]
      /\ nextGroup' = nextGroup
  BY DEF Start
<1>2. RootToken.group = 0
  BY DEF RootToken, KeyToken
<1>3. IsSequence(<<RootToken>>) /\ IsSequence(<<0>>)
  BY DEF IsSequence
<1>4. /\ tokens' = [u \in Threads |-> IF u = t THEN <<RootToken>> ELSE tokens[u]]
      /\ origin' = [u \in Threads |-> IF u = t THEN <<0>> ELSE origin[u]]
      /\ pos' = [u \in Threads |-> IF u = t THEN 1 ELSE pos[u]]
  <2>1. DOMAIN tokens = Threads /\ DOMAIN origin = Threads /\ DOMAIN pos = Threads
    BY DEF CompileInv, CompileTypeOK, ListsOK
  <2> QED BY <1>1, <2>1
<1>5. CompileTypeOK'
  <2>1. \A u \in Threads : Len(origin'[u]) = Len(tokens'[u])
    BY <1>4 DEF CompileInv, CompileTypeOK
  <2>2. pos' \in [Threads -> Nat]
    BY <1>4 DEF CompileInv, CompileTypeOK
  <2>3. FunctionOf(text[t]) \in FunctionTypes
    BY DEF FunctionOf, FunctionTypes
  <2>4. func' \in [Threads -> FunctionTypes]
    BY <2>3 DEF Start, CompileInv, CompileTypeOK
  <2>5. text[t] \in Seq(Lexemes)
    BY DEF CompileInv, CompileTypeOK
  <2>6. FunctionOf(text[t]) # "None" => Front(text[t]) \in Seq(Lexemes)
    <3>1. text[t] # <<>> => Front(text[t]) \in Seq(Lexemes)
      BY <2>5 DEF Front
    <3> QED BY <3>1 DEF FunctionOf
  <2>7. text' \in [Threads -> Seq(Lexemes)]
    BY <2>5, <2>6 DEF Start, CompileInv, CompileTypeOK
  <2>8. status' \in [Threads -> {"called", "compiling", "compiled"} \cup ParseErrors]
    BY DEF Start, ParseErrors, CompileInv, CompileTypeOK
  <2> QED BY <1>1, <2>1, <2>2, <2>4, <2>7, <2>8 DEF CompileInv, CompileTypeOK
<1>6. ListsOK'
  BY <1>3, <1>4 DEF CompileInv, ListsOK
<1>7. GroupsUsed'
  <2>1. nextGroup \in Nat /\ nextGroup > 0
    BY GroupsAssumption DEF CompileInv, CompileTypeOK
  <2> QED BY <1>1, <1>2, <1>4, <2>1 DEF CompileInv, GroupsUsed
<1>8. GroupsApart'
  BY <1>2, <1>4 DEF CompileInv, GroupsApart
<1> QED BY <1>5, <1>6, <1>7, <1>8 DEF CompileInv

\* Every step of a call of create.
LEMMA CompileKeeps ==
  ASSUME CompileInv, NEW t \in Threads, Compile(t)
  PROVE  CompileInv'
<1> USE DEF CompileInv
<1>1. /\ text[t] \in Seq(Lexemes) /\ pos[t] \in Nat /\ Length(t) \in Nat
      /\ nextGroup \in 1..MaxGroups + 1 /\ nextGroup >= nextGroup
  BY GroupsAssumption DEF CompileTypeOK, Length
\* One token without a group.
<1>2. ASSUME NEW tk, tk.group = 0, NEW p \in Nat, p > pos[t], Emit(t, <<tk>>, p), nextGroup' = nextGroup
      PROVE  CompileInv'
  <2>1. IsSequence(<<tk>>) /\ \A k \in 1..Len(<<tk>>) : <<tk>>[k].group = 0
    BY <1>2 DEF IsSequence
  <2> QED BY <1>1, <1>2, <2>1, EmitKeeps
<1>3. /\ \A kind : PlainToken(kind).group = 0
      /\ \A key : KeyToken(key, 0).group = 0
  BY DEF PlainToken, KeyToken
<1>4. CASE Start(t)
  BY <1>4, StartKeeps
<1>5. CASE ParseDescendant(t)
  <2>1. CASE Reject(t, "TrailingRecursive")
    BY <1>1, <1>5, <2>1, RejectKeeps DEF ParseDescendant, ParseErrors
  <2>2. CASE Emit(t, <<PlainToken("Recursive")>>, pos[t] + 2)
    <3>1. pos[t] + 2 \in Nat /\ pos[t] + 2 > pos[t]
      BY <1>1
    <3>2. nextGroup' = nextGroup
      BY <1>5 DEF ParseDescendant
    <3> QED BY <1>2, <1>3, <2>2, <3>1, <3>2
  <2> QED BY <1>5, <2>1, <2>2 DEF ParseDescendant
<1>6. CASE ParseWildcard(t)
  <2>1. pos[t] + 1 \in Nat /\ pos[t] + 1 > pos[t]
    BY <1>1
  <2>2. Emit(t, <<PlainToken("Wildcard")>>, pos[t] + 1) /\ nextGroup' = nextGroup
    BY <1>6 DEF ParseWildcard
  <2> QED BY <1>2, <1>3, <2>1, <2>2
<1>7. CASE ParseDot(t)
  <2> DEFINE p == pos[t] + 1
  <2>1. ASSUME NEW e \in {"TrailingDot", "EmptySegment", "InvalidIdentifier"}, Reject(t, e)
        PROVE  CompileInv'
    BY <1>1, <1>7, <2>1, RejectKeeps DEF ParseDot, ParseErrors
  <2>2. CASE Emit(t, <<PlainToken("Wildcard")>>, p + 1)
    <3>1. p + 1 \in Nat /\ p + 1 > pos[t]
      BY <1>1
    <3>2. nextGroup' = nextGroup
      BY <1>7 DEF ParseDot
    <3> HIDE DEF p
    <3> QED BY <1>2, <1>3, <2>2, <3>1, <3>2
  <2>3. CASE p < Length(t) /\ Emit(t, <<KeyToken(Name(t, p), 0)>>, NameEnd(t, p))
    <3>1. NameEnd(t, p) \in p..Length(t)
      BY <1>1, <2>3, NameEnds
    <3>2. NameEnd(t, p) \in Nat /\ NameEnd(t, p) > pos[t]
      BY <1>1, <3>1
    <3>3. nextGroup' = nextGroup
      BY <1>7 DEF ParseDot
    <3> HIDE DEF p
    <3> QED BY <1>2, <1>3, <2>3, <3>2, <3>3
  <2> QED BY <1>1, <1>7, <2>1, <2>2, <2>3 DEF ParseDot
<1>8. CASE ParseUnmatched(t)
  BY <1>1, <1>8, RejectKeeps DEF ParseUnmatched, ParseErrors
<1>9. CASE ParseBracket(t)
  <2> DEFINE rest == SubSeq(text[t], pos[t] + 1, Length(t))
             end == Min(ClosingBrackets(rest))
             content == SubSeq(rest, 2, end - 1)
             selectors == Selectors(content)
             failed == {k \in 1..Len(selectors) : selectors[k].kind = "error"}
  <2>1. /\ ClosingBrackets(rest) # {} /\ nextGroup <= MaxGroups /\ nextGroup' = nextGroup + 1
        /\ IF failed # {} THEN Reject(t, selectors[Min(failed)].error)
           ELSE Emit(t, Grouped(selectors, nextGroup), pos[t] + end)
    BY <1>9 DEF ParseBracket, NextGroup
  <2>2. rest \in Seq(Lexemes)
    BY <1>1 DEF Length
  <2>3. end \in Nat /\ end > 0 /\ end <= Len(rest) /\ Len(rest) \in Nat
    <3>1. end \in 1..Len(rest) /\ Len(rest) \in Nat
      <4> HIDE DEF rest
      <4> QED BY <2>1, <2>2, ClosingBracket, LenProperties
    <3> HIDE DEF rest, end
    <3> QED BY <3>1
  <2>4. content \in Seq(Lexemes)
    <3> HIDE DEF rest, end
    <3>1. 2 \in Nat /\ end - 1 \in Int /\ end - 1 <= Len(rest)
      BY <2>3
    <3> QED BY <2>2, <2>3, <3>1
  <2> HIDE DEF rest, end, content
  <2>5. /\ IsSequence(selectors)
        /\ \A k \in 1..Len(selectors) : \E s : selectors[k] = SelectorOf(s)
    BY <2>4, SelectorsOfBracket
  <2> HIDE DEF selectors
  <2>6. nextGroup' \in 1..MaxGroups + 1 /\ nextGroup' >= nextGroup /\ nextGroup \in Nat
    BY <1>1, <2>1, GroupsAssumption
  <2>7. CASE failed # {}
    <3>1. Len(selectors) \in Nat
      BY <2>5 DEF IsSequence
    <3>2. Min(failed) \in failed
      <4>1. failed \subseteq Nat
        BY <3>1
      <4> HIDE DEF failed
      <4> QED BY <2>7, <4>1, MinOfNat
    <3>3. selectors[Min(failed)].error \in ParseErrors
      BY <2>5, <3>2, ErrorOfSelector
    <3> HIDE DEF failed
    <3> QED BY <2>1, <2>6, <2>7, <3>3, RejectKeeps
  <2>8. CASE failed = {}
    <3> DEFINE toks == Grouped(selectors, nextGroup)
    <3>1. /\ Len(toks) = Len(selectors) /\ IsSequence(toks)
          /\ \A k \in 1..Len(selectors) : toks[k].group = nextGroup
      <4>1. Len(selectors) \in Nat
        BY <2>5 DEF IsSequence
      <4>2. toks = [k \in 1..Len(selectors) |-> toks[k]]
        BY DEF Grouped
      <4>3. \A k \in 1..Len(selectors) : toks[k].group = nextGroup
        BY DEF Grouped
      <4> HIDE DEF toks
      <4> QED BY <4>1, <4>2, <4>3, BuiltSequence
    <3>2. pos[t] + end \in Nat /\ pos[t] + end > pos[t]
      BY <1>1, <2>3
    <3>3. Emit(t, toks, pos[t] + end)
      BY <2>1, <2>8
    <3> HIDE DEF toks
    <3> QED BY <2>1, <2>6, <3>1, <3>2, <3>3, EmitKeeps
  <2> QED BY <2>7, <2>8
<1>10. CASE ParseBare(t)
  <2>1. NameEnd(t, pos[t]) \in Nat /\ NameEnd(t, pos[t]) > pos[t]
    <3>1. pos[t] < Length(t) /\ At(t, pos[t]) \notin {".", "["}
      BY <1>10 DEF ParseBare, Compiling
    <3>2. NameEnd(t, pos[t]) \in pos[t]..Length(t) /\ NameEnd(t, pos[t]) > pos[t]
      BY <1>1, <3>1, NameEnds
    <3> QED BY <1>1, <3>2
  <2>2. Emit(t, <<KeyToken(Name(t, pos[t]), 0)>>, NameEnd(t, pos[t])) /\ nextGroup' = nextGroup
    BY <1>10 DEF ParseBare
  <2> QED BY <1>2, <1>3, <2>1, <2>2
<1>11. CASE Compiled(t)
  <2>1. UNCHANGED <<text, func, pos, tokens, origin, nextGroup>>
    BY <1>11 DEF Compiled
  <2>2. status' \in [Threads -> {"called", "compiling", "compiled"} \cup ParseErrors]
    BY <1>11 DEF Compiled, CompileTypeOK
  <2>3. CompileTypeOK'
    BY <2>1, <2>2 DEF CompileTypeOK
  <2>4. ListsOK'
    BY <2>1 DEF ListsOK
  <2>5. GroupsUsed'
    BY <2>1 DEF GroupsUsed
  <2>6. GroupsApart'
    BY <2>1 DEF GroupsApart
  <2> QED BY <2>3, <2>4, <2>5, <2>6
<1> QED BY <1>4, <1>5, <1>6, <1>7, <1>8, <1>9, <1>10, <1>11 DEF Compile

(***************************************************************************)
(* The evaluator                                                           *)
(***************************************************************************)

\* TypeOK with what keeps it: each variable is a function on the threads, and a
\* descent has its token before it.
PerThread ==
  /\ source = [t \in Threads |-> source[t]]
  /\ stack = [t \in Threads |-> stack[t]]
EvalInv ==
  /\ phase \in [Threads -> {"idle", "token", "descent", "done"}]
  /\ api \in [Threads -> Apis]
  /\ i \in [Threads -> Nat]
  /\ multi \in [Threads -> BOOLEAN]
  /\ PerThread
  /\ \A t \in Threads :
       /\ phase[t] # "idle" => status[t] = "compiled"
       /\ phase[t] \in {"token", "descent"} => i[t] \in 1..TokenCount(t) + 1
       /\ phase[t] = "descent" => i[t] < TokenCount(t)
       /\ phase[t] # "descent" => source[t] = <<>> /\ stack[t] = <<>>

Inv == CompileInv /\ EvalInv

\* The first token behind a run is a later one, or the end.
LEMMA RunEnds ==
  ASSUME NEW t, TokenCount(t) \in Nat, NEW n \in Nat, n < TokenCount(t)
  PROVE  /\ n + Cardinality(SelectorRun(t, n)) \in n..TokenCount(t)
         /\ KeyRunEnd(t, n) \in n..TokenCount(t)
<1>1. n + Cardinality(SelectorRun(t, n)) \in n..TokenCount(t)
  <2> DEFINE ends == {m \in n + 1..TokenCount(t) : m = TokenCount(t) \/ ~IsSelectorToken(TokenAt(t, m))}
             stop == Min(ends)
  <2>1. TokenCount(t) \in ends
    OBVIOUS
  <2>2. ends \subseteq Nat
    OBVIOUS
  <2>3. stop \in ends
    <3> HIDE DEF ends
    <3> QED BY <2>1, <2>2, MinOfNat
  <2>4. stop \in n + 1..TokenCount(t)
    BY <2>3
  <2>5. SelectorRun(t, n) = n..stop - 1
    BY DEF SelectorRun
  <2> HIDE DEF stop
  <2>6. n \in Int /\ stop - 1 \in Int /\ n <= stop - 1
    BY <2>4
  <2>7. Cardinality(n..stop - 1) = (stop - 1) - n + 1
    BY <2>6, FS_Interval
  <2> QED BY <2>4, <2>5, <2>7
<1>2. KeyRunEnd(t, n) \in n..TokenCount(t)
  <2> DEFINE ends == {m \in n..TokenCount(t) : m = TokenCount(t) \/ TokenAt(t, m).kind # "Key"}
  <2>1. TokenCount(t) \in ends
    OBVIOUS
  <2>2. ends \subseteq Nat
    OBVIOUS
  <2>3. Min(ends) \in ends
    <3> HIDE DEF ends
    <3> QED BY <2>1, <2>2, MinOfNat
  <2> QED BY <2>3 DEF KeyRunEnd
<1> QED BY <1>1, <1>2

\* A thread that still compiles does not evaluate yet.
LEMMA CompileLeavesEvaluation ==
  ASSUME Inv, NEW t \in Threads, Compile(t), UNCHANGED evars
  PROVE  EvalInv'
<1>1. status[t] \in {"called", "compiling"}
  BY DEF Compile, Start, ParseDescendant, ParseWildcard, ParseDot, ParseUnmatched, ParseBracket,
         ParseBare, Compiled, Compiling
<1>2. \A u \in Threads : u # t => status'[u] = status[u] /\ tokens'[u] = tokens[u]
  BY DEF Inv, CompileInv, CompileTypeOK, ListsOK, Compile, Start, ParseDescendant, ParseWildcard,
         ParseDot, ParseUnmatched, ParseBracket, ParseBare, Compiled, Reject, Emit
<1>3. phase[t] = "idle"
  BY <1>1 DEF Inv, EvalInv
<1>4. \A u \in Threads :
        /\ phase[u] # "idle" => status'[u] = "compiled"
        /\ phase[u] # "idle" => Len(tokens'[u]) = Len(tokens[u])
  BY <1>2, <1>3 DEF Inv, EvalInv
<1> QED BY <1>4 DEF Inv, EvalInv, PerThread, evars, TokenCount

\* Every step of an evaluation.
LEMMA EvaluateKeeps ==
  ASSUME Inv, NEW t \in Threads, Evaluate(t)
  PROVE  Inv'
<1>1. UNCHANGED <<text, func, pos, tokens, origin, status, nextGroup>>
  BY DEF Evaluate, EvaluateDefinite, EvaluateStream, ApplyUnion, ApplyBranchUnique, ApplySelector,
         BeginDescent, DescendFrom, PopStack, EndDescent, Finish, Advance, cvars
<1>2. CompileInv'
  <2>1. CompileInv
    BY DEF Inv
  <2>2. CompileTypeOK' /\ ListsOK'
    BY <1>1, <2>1 DEF CompileInv, CompileTypeOK, ListsOK
  <2>3. tokens' = tokens /\ origin' = origin /\ pos' = pos /\ nextGroup' = nextGroup
    BY <1>1
  <2>4. GroupsUsed /\ GroupsApart
    BY <2>1 DEF CompileInv
  <2>5. GroupsUsed'
    BY <2>3, <2>4 DEF GroupsUsed
  <2>6. GroupsApart'
    BY <2>3, <2>4 DEF GroupsApart
  <2> QED BY <2>2, <2>5, <2>6 DEF CompileInv
<1>3. \A u \in Threads : TokenCount(u) \in Nat /\ TokenCount(u)' = TokenCount(u) /\ status'[u] = status[u]
  BY <1>1 DEF Inv, TokenCount, CompileInv, ListsOK, IsSequence
<1> USE DEF EvalInv, PerThread
<1>0. EvalInv
  BY DEF Inv
<1>4. ASSUME EvaluateDefinite(t) PROVE EvalInv'
  BY <1>0, <1>3, <1>4 DEF EvaluateDefinite, Return, Apis
<1>5. ASSUME EvaluateStream(t) PROVE EvalInv'
  BY <1>0, <1>3, <1>5 DEF EvaluateStream
\* The working list after a token, or a run of them, up to token next.
<1>6. ASSUME NEW values, NEW next \in i[t]..TokenCount(t) + 1, NEW many \in BOOLEAN,
             AtToken(t), Advance(t, values, next, many)
      PROVE  EvalInv'
  <2>1. next \in 1..TokenCount(t) + 1 /\ next \in Nat
    BY <1>0, <1>3, <1>6 DEF AtToken
  <2>2. /\ i' = [i EXCEPT ![t] = next]
        /\ multi' = [multi EXCEPT ![t] = multi[t] \/ many]
        /\ UNCHANGED <<phase, api, source, stack>>
    BY <1>6 DEF Advance
  <2>3. multi' \in [Threads -> BOOLEAN]
    BY <1>0, <1>6, <2>2
  <2>4. phase[t] = "token"
    BY <1>6 DEF AtToken
  <2> QED BY <1>0, <1>3, <2>1, <2>2, <2>3, <2>4
<1>7. ASSUME ApplyUnion(t) PROVE EvalInv'
  <2>1. i[t] \in Nat /\ i[t] < TokenCount(t) /\ TokenCount(t) \in Nat
    BY <1>0, <1>3, <1>7 DEF ApplyUnion, AtToken
  <2>2. i[t] + Cardinality(SelectorRun(t, i[t])) \in i[t]..TokenCount(t) + 1
    BY <2>1, RunEnds
  <2> QED BY <1>6, <1>7, <2>2 DEF ApplyUnion
<1>8. ASSUME ApplyBranchUnique(t) PROVE EvalInv'
  <2>1. i[t] \in Nat /\ i[t] < TokenCount(t) /\ TokenCount(t) \in Nat
    BY <1>0, <1>3, <1>8 DEF ApplyBranchUnique, AtToken
  <2>2. KeyRunEnd(t, i[t]) + 1 \in i[t]..TokenCount(t) + 1
    BY <2>1, RunEnds
  <2> QED BY <1>6, <1>8, <2>2 DEF ApplyBranchUnique
<1>9. ASSUME ApplySelector(t) PROVE EvalInv'
  <2>1. i[t] \in Nat /\ i[t] < TokenCount(t) /\ TokenCount(t) \in Nat
    BY <1>0, <1>3, <1>9 DEF ApplySelector, AtToken
  <2>2. i[t] + 1 \in i[t]..TokenCount(t) + 1
    BY <2>1
  <2>3. AddsMultiplicity(TokenAt(t, i[t])) \in BOOLEAN
    BY DEF AddsMultiplicity
  <2> QED BY <1>6, <1>9, <2>2, <2>3 DEF ApplySelector
<1>10. ASSUME BeginDescent(t) PROVE EvalInv'
  BY <1>0, <1>3, <1>10 DEF BeginDescent, AtToken
<1>11. ASSUME DescendFrom(t) PROVE EvalInv'
  BY <1>0, <1>3, <1>11 DEF DescendFrom, Descending
<1>12. ASSUME PopStack(t) PROVE EvalInv'
  BY <1>0, <1>3, <1>12 DEF PopStack, Descending
<1>13. ASSUME EndDescent(t) PROVE EvalInv'
  <2>1. phase[t] = "descent" /\ i[t] < TokenCount(t) /\ i[t] \in Nat
    BY <1>0, <1>13 DEF EndDescent, Descending
  <2>2. i[t] + 1 \in 1..TokenCount(t) + 1
    BY <1>3, <2>1
  <2>3. i' = [i EXCEPT ![t] = i[t] + 1]
    BY <1>13 DEF EndDescent
  <2>4. /\ phase' = [phase EXCEPT ![t] = "token"] /\ multi' = [multi EXCEPT ![t] = TRUE]
        /\ UNCHANGED <<api, source, stack>>
        /\ source[t] = <<>> /\ stack[t] = <<>>
    BY <1>13 DEF EndDescent
  <2>5. i' \in [Threads -> Nat] /\ i'[t] \in 1..TokenCount(t) + 1
    BY <1>0, <2>1, <2>2, <2>3
  <2>6. /\ phase' \in [Threads -> {"idle", "token", "descent", "done"}] /\ phase'[t] = "token"
        /\ multi' \in [Threads -> BOOLEAN] /\ api' \in [Threads -> Apis]
    BY <1>0, <2>4
  <2>7. \A u \in Threads : u # t => i'[u] = i[u] /\ phase'[u] = phase[u]
    BY <1>0, <2>3, <2>4
  <2>8. status[t] = "compiled"
    BY <1>0, <2>1
  <2> QED BY <1>0, <1>3, <2>4, <2>5, <2>6, <2>7, <2>8
<1>14. ASSUME Finish(t) PROVE EvalInv'
  BY <1>0, <1>3, <1>14 DEF Finish, Return
<1> QED BY <1>2, <1>4, <1>5, <1>7, <1>8, <1>9, <1>10, <1>11, <1>12, <1>13, <1>14 DEF Evaluate, Inv

-----------------------------------------------------------------------------

LEMMA InvInit == Init => Inv
<1> SUFFICES ASSUME Init PROVE Inv
  OBVIOUS
<1>1. CompileTypeOK
  BY TextsAssumption, GroupsAssumption DEF Init, CompileInit, CompileTypeOK, FunctionTypes
<1>2. ListsOK
  BY DEF Init, CompileInit, ListsOK, IsSequence
<1>3. GroupsUsed /\ GroupsApart
  BY DEF Init, CompileInit, GroupsUsed, GroupsApart
<1>4. EvalInv
  BY DEF Init, EvalInit, EvalInv, PerThread, Apis
<1> QED BY <1>1, <1>2, <1>3, <1>4 DEF Inv, CompileInv

LEMMA InvNext == Inv /\ [Next]_vars => Inv'
<1> SUFFICES ASSUME Inv, [Next]_vars PROVE Inv'
  OBVIOUS
<1>1. ASSUME NEW t \in Threads, Compile(t), UNCHANGED evars PROVE Inv'
  BY <1>1, CompileKeeps, CompileLeavesEvaluation DEF Inv
<1>2. ASSUME NEW t \in Threads, Evaluate(t) PROVE Inv'
  BY <1>2, EvaluateKeeps
<1>3. CASE UNCHANGED vars
  <2>1. CompileTypeOK' /\ ListsOK'
    BY <1>3 DEF Inv, CompileInv, CompileTypeOK, ListsOK, vars, cvars
  <2>2. GroupsUsed' /\ GroupsApart'
    BY <1>3 DEF Inv, CompileInv, GroupsUsed, GroupsApart, vars, cvars
  <2>3. EvalInv'
    BY <1>3 DEF Inv, EvalInv, PerThread, TokenCount, vars, cvars, evars
  <2> QED BY <2>1, <2>2, <2>3 DEF Inv, CompileInv
<1> QED BY <1>1, <1>2, <1>3 DEF Next

LEMMA InvHolds == Spec => []Inv
BY InvInit, InvNext, PTL DEF Spec

\* The parser and the evaluator keep their counters in range, an error is one of
\* the parser's, and the buffers of a descent are empty outside it (compilePath,
\* evaluateTokenStream), for any texts and documents.
THEOREM TypeCorrect == Spec => []TypeOK
<1>1. Inv => TypeOK
  BY DEF Inv, CompileInv, EvalInv, TypeOK
<1> QED BY <1>1, InvHolds, PTL

\* However many threads compile at the same time, the tokens of a path have the
\* same group exactly if they are of the same bracket (parseEmbeddedBracket).
THEOREM GroupsStayApart == Spec => []GroupsApart
<1>1. Inv => GroupsApart
  BY DEF Inv, CompileInv
<1> QED BY <1>1, InvHolds, PTL

(***************************************************************************)
(* Lists of lists                                                          *)
(***************************************************************************)

\* The concatenations of the first sequences of a list, one list after the other.
Concats(ss) ==
  LET flatten[k \in 1..Len(ss)] == IF k = 1 THEN ss[k] ELSE flatten[k - 1] \o ss[k]
  IN flatten
IsConcats(w, ss, n) == w = [k \in 1..n |-> IF k = 1 THEN ss[k] ELSE w[k - 1] \o ss[k]]

\* FlattenSeq is the last of them ...
LEMMA FlattenSeqIs ==
  ASSUME NEW ss
  PROVE  FlattenSeq(ss) = IF Len(ss) = 0 THEN ss ELSE Concats(ss)[Len(ss)]
BY DEF FlattenSeq, Concats

\* ... and each is the one before it with one sequence more.
LEMMA ConcatsUnfold ==
  ASSUME NEW ss, Len(ss) \in Nat
  PROVE  IsConcats(Concats(ss), ss, Len(ss))
<1> DEFINE n == Len(ss)
           S == {k \in 0..n : \E w : IsConcats(w, ss, k)}
<1>1. 0 \in S
  <2> DEFINE w == [j \in 1..0 |-> ss[j]]
  <2>1. IsConcats(w, ss, 0)
    <3>1. 1..0 = {}
      OBVIOUS
    <3> QED BY <3>1 DEF IsConcats
  <2> QED
    BY <2>1
<1>2. ASSUME NEW k \in 0..n, k \in S, k < n
      PROVE  k + 1 \in S
  <2>1. PICK v : IsConcats(v, ss, k)
    BY <1>2
  <2> DEFINE w == [j \in 1..k + 1 |-> IF j <= k THEN v[j] ELSE IF k = 0 THEN ss[j] ELSE v[k] \o ss[j]]
  <2>2. ASSUME NEW j \in 1..k + 1
        PROVE  w[j] = IF j = 1 THEN ss[j] ELSE w[j - 1] \o ss[j]
    <3>1. CASE j <= k
      <4>1. j \in 1..k /\ (j # 1 => j - 1 \in 1..k /\ j - 1 \in 1..k + 1 /\ j - 1 <= k)
        BY <3>1
      <4>2. v[j] = IF j = 1 THEN ss[j] ELSE v[j - 1] \o ss[j]
        BY <2>1, <4>1 DEF IsConcats
      <4>3. w[j] = v[j] /\ (j # 1 => w[j - 1] = v[j - 1])
        BY <3>1, <4>1
      <4> QED
        BY <4>2, <4>3
    <3>2. CASE j = k + 1
      <4>1. ~(j <= k) /\ (k = 0 <=> j = 1) /\ (k # 0 => j - 1 = k /\ k \in 1..k + 1 /\ k <= k)
        BY <3>2
      <4>2. w[j] = IF k = 0 THEN ss[j] ELSE v[k] \o ss[j]
        BY <4>1
      <4>3. k # 0 => w[j - 1] = v[k]
        BY <4>1
      <4> HIDE DEF w
      <4> QED
        BY <4>1, <4>2, <4>3
    <3> QED
      BY <3>1, <3>2
  <2>3. IsConcats(w, ss, k + 1)
    BY <2>2 DEF IsConcats
  <2>4. k + 1 \in 0..n
    BY <1>2
  <2> QED
    BY <2>3, <2>4
<1>3. n \in S
  <2> HIDE DEF S
  <2>1. 0..n \subseteq S
    BY <1>1, <1>2, Upwards
  <2> QED
    BY <2>1
<1>4. PICK w : IsConcats(w, ss, n)
  BY <1>3
<1> QED
  BY <1>4 DEF Concats, IsConcats

\* The first k of them.
Flat(ss, k) == IF k = 0 THEN <<>> ELSE Concats(ss)[k]

\* Concatenating one more sequence at a time.
LEMMA FlatSteps ==
  ASSUME NEW V, NEW ss \in Seq(Seq(V))
  PROVE  /\ Len(ss) \in Nat /\ FlattenSeq(ss) = Flat(ss, Len(ss))
         /\ Flat(ss, 0) = <<>>
         /\ \A k \in 1..Len(ss) : Flat(ss, k) = Flat(ss, k - 1) \o ss[k]
         /\ \A k \in 0..Len(ss) : Flat(ss, k) \in Seq(V)
<1>1. Len(ss) \in Nat /\ \A k \in 1..Len(ss) : ss[k] \in Seq(V)
  BY LenProperties, ElementOfSeq
<1>2. FlattenSeq(ss) = Flat(ss, Len(ss))
  <2>1. Len(ss) = 0 => ss = <<>>
    BY EmptySeq
  <2> QED BY <2>1, FlattenSeqIs DEF Flat
<1>3. ASSUME NEW k \in 1..Len(ss)
      PROVE  Flat(ss, k) = Flat(ss, k - 1) \o ss[k]
  <2>1. Concats(ss)[k] = IF k = 1 THEN ss[k] ELSE Concats(ss)[k - 1] \o ss[k]
    BY <1>1, ConcatsUnfold DEF IsConcats
  <2>2. <<>> \o ss[k] = ss[k]
    BY <1>1, ConcatEmptySeq
  <2>3. k # 0 /\ (k = 1 <=> k - 1 = 0) /\ k \in Nat
    BY <1>1
  <2> QED BY <2>1, <2>2, <2>3 DEF Flat
<1>4. 0..Len(ss) \subseteq {k \in 0..Len(ss) : Flat(ss, k) \in Seq(V)}
  <2> DEFINE S == {k \in 0..Len(ss) : Flat(ss, k) \in Seq(V)}
  <2>1. 0 \in S
    BY <1>1 DEF Flat
  <2>2. ASSUME NEW k \in 0..Len(ss), k \in S, k < Len(ss)
        PROVE  k + 1 \in S
    <3>1. k + 1 \in 1..Len(ss) /\ (k + 1) - 1 = k /\ k + 1 \in 0..Len(ss)
      BY <1>1, <2>2
    <3>2. Flat(ss, k + 1) = Flat(ss, k) \o ss[k + 1]
      BY <1>3, <3>1
    <3>3. Flat(ss, k + 1) \in Seq(V)
      BY <1>1, <2>2, <3>1, <3>2, ConcatProperties
    <3> QED BY <3>1, <3>3
  <2> HIDE DEF S
  <2>3. 0..Len(ss) \subseteq S
    BY <1>1, <2>1, <2>2, Upwards
  <2> QED BY <2>3 DEF S
<1> QED BY <1>1, <1>2, <1>3, <1>4 DEF Flat

\* The elements stay the same.
LEMMA FlattenType ==
  ASSUME NEW V, NEW ss \in Seq(Seq(V))
  PROVE  FlattenSeq(ss) \in Seq(V)
<1>1. Len(ss) \in 0..Len(ss)
  BY LenProperties
<1>2. FlattenSeq(ss) = Flat(ss, Len(ss)) /\ \A k \in 0..Len(ss) : Flat(ss, k) \in Seq(V)
  BY FlatSteps
<1> QED BY <1>1, <1>2

\* No list, one list.
LEMMA FlattenNone == FlattenSeq(<<>>) = <<>>
BY FlattenSeqIs

LEMMA FlattenOne ==
  ASSUME NEW V, NEW s \in Seq(V)
  PROVE  FlattenSeq(<<s>>) = s
<1> DEFINE ss == <<s>>
<1>1. ss \in Seq(Seq(V)) /\ Len(ss) = 1 /\ ss[1] = s
  OBVIOUS
<1> HIDE DEF ss
<1>1a. /\ FlattenSeq(ss) = Flat(ss, Len(ss)) /\ Flat(ss, 0) = <<>>
       /\ \A k \in 1..Len(ss) : Flat(ss, k) = Flat(ss, k - 1) \o ss[k]
  BY <1>1, FlatSteps
<1>2. FlattenSeq(ss) = Flat(ss, 0) \o s /\ Flat(ss, 0) = <<>>
  <2>1. 1 \in 1..1 /\ 1 - 1 = 0
    OBVIOUS
  <2> QED BY <1>1, <1>1a, <2>1
<1>3. <<>> \o s = s
  BY ConcatEmptySeq
<1> QED BY <1>2, <1>3 DEF ss

\* Two lists of sequences, one after the other.
LEMMA FlattenBoth ==
  ASSUME NEW V, NEW a \in Seq(Seq(V)), NEW b \in Seq(Seq(V))
  PROVE  FlattenSeq(a \o b) = FlattenSeq(a) \o FlattenSeq(b)
<1> DEFINE c == a \o b
           m == Len(a)
           n == Len(b)
<1>1. /\ c \in Seq(Seq(V)) /\ m \in Nat /\ n \in Nat /\ Len(c) = m + n
      /\ \A k \in 1..m + n : c[k] = IF k <= m THEN a[k] ELSE b[k - m]
  BY ConcatProperties, LenProperties
<1>2. \A k \in 1..n : b[k] \in Seq(V)
  BY ElementOfSeq
<1> HIDE DEF c
<1>3. /\ Flat(c, 0) = Flat(a, 0)
      /\ \A k \in 1..m + n : Flat(c, k) = Flat(c, k - 1) \o c[k]
      /\ \A k \in 1..m : Flat(a, k) = Flat(a, k - 1) \o a[k]
      /\ \A k \in 1..n : Flat(b, k) = Flat(b, k - 1) \o b[k]
      /\ \A k \in 0..n : Flat(b, k) \in Seq(V)
      /\ Flat(a, m) \in Seq(V) /\ Flat(b, 0) = <<>>
  <2>1. m \in 0..m
    BY <1>1
  <2> QED BY <1>1, <2>1, FlatSteps
<1> HIDE DEF m, n
<1>4. m \in {k \in 0..m : Flat(c, k) = Flat(a, k)}
  <2> DEFINE S == {k \in 0..m : Flat(c, k) = Flat(a, k)}
  <2>1. 0 \in S
    BY <1>1, <1>3
  <2>2. ASSUME NEW k \in 0..m, k \in S, k < m
        PROVE  k + 1 \in S
    <3>1. /\ k + 1 \in 1..m /\ k + 1 \in 1..m + n /\ (k + 1) - 1 = k /\ k + 1 \in 0..m
          /\ k + 1 <= m
      BY <1>1, <2>2
    <3>2. Flat(c, k + 1) = Flat(c, k) \o c[k + 1] /\ Flat(a, k + 1) = Flat(a, k) \o a[k + 1]
      BY <1>3, <3>1
    <3>3. c[k + 1] = a[k + 1]
      BY <1>1, <3>1
    <3> QED BY <2>2, <3>1, <3>2, <3>3
  <2> HIDE DEF S
  <2>3. 0..m \subseteq S
    BY <1>1, <2>1, <2>2, Upwards
  <2> QED BY <1>1, <2>3 DEF S
<1>5. n \in {k \in 0..n : Flat(c, m + k) = Flat(a, m) \o Flat(b, k)}
  <2> DEFINE S == {k \in 0..n : Flat(c, m + k) = Flat(a, m) \o Flat(b, k)}
  <2>1. 0 \in S
    <3>1. Flat(a, m) \o <<>> = Flat(a, m)
      BY <1>3, ConcatEmptySeq
    <3>2. m + 0 = m /\ 0 \in 0..n
      BY <1>1
    <3> QED BY <1>3, <1>4, <3>1, <3>2
  <2>2. ASSUME NEW k \in 0..n, k \in S, k < n
        PROVE  k + 1 \in S
    <3>1. /\ k + 1 \in 1..n /\ m + (k + 1) \in 1..m + n /\ (k + 1) - 1 = k /\ k + 1 \in 0..n
          /\ (m + (k + 1)) - 1 = m + k /\ ~(m + (k + 1) <= m) /\ (m + (k + 1)) - m = k + 1
      BY <1>1, <2>2
    <3>2. Flat(c, m + (k + 1)) = Flat(c, m + k) \o c[m + (k + 1)]
      BY <1>3, <3>1
    <3>3. Flat(b, k + 1) = Flat(b, k) \o b[k + 1]
      BY <1>3, <3>1
    <3>4. c[m + (k + 1)] = b[k + 1]
      BY <1>1, <3>1
    <3>5. Flat(a, m) \in Seq(V) /\ Flat(b, k) \in Seq(V) /\ b[k + 1] \in Seq(V)
      BY <1>2, <1>3, <3>1 DEF n
    <3>6. (Flat(a, m) \o Flat(b, k)) \o b[k + 1] = Flat(a, m) \o (Flat(b, k) \o b[k + 1])
      <4> DEFINE x == Flat(a, m)
                 y == Flat(b, k)
                 z == b[k + 1]
      <4>1. x \in Seq(V) /\ y \in Seq(V) /\ z \in Seq(V)
        BY <3>5
      <4> HIDE DEF x, y, z
      <4>2. (x \o y) \o z = x \o (y \o z)
        BY <4>1, ConcatAssociative, SMTT(60)
      <4> QED BY <4>2 DEF x, y, z
    <3>7. Flat(c, m + k) = Flat(a, m) \o Flat(b, k)
      BY <2>2
    <3> QED BY <3>1, <3>2, <3>3, <3>4, <3>6, <3>7
  <2> HIDE DEF S
  <2>3. 0..n \subseteq S
    BY <1>1, <2>1, <2>2, Upwards
  <2> QED BY <1>1, <2>3 DEF S
<1>6. FlattenSeq(c) = Flat(c, m + n) /\ FlattenSeq(a) = Flat(a, m) /\ FlattenSeq(b) = Flat(b, n)
  BY <1>1, FlatSteps DEF m, n
<1> QED BY <1>5, <1>6 DEF c

\* The sequences that the numbers up to n yield, one after the other.
LEMMA FlattenEach ==
  ASSUME NEW V, NEW n \in Nat, NEW ss, ss = [k \in 1..n |-> ss[k]], \A k \in 1..n : ss[k] \in Seq(V)
  PROVE  ss \in Seq(Seq(V)) /\ Len(ss) = n /\ FlattenSeq(ss) \in Seq(V)
<1>1. ss \in [1..n -> Seq(V)]
  OBVIOUS
<1>2. ss \in Seq(Seq(V)) /\ Len(ss) = n
  BY <1>1, LenProperties
<1> QED BY <1>2, FlattenType

(***************************************************************************)
(* A value and the values in it                                            *)
(***************************************************************************)

\* The children of a value are a sequence of them.
LEMMA ChildValuesType ==
  ASSUME NEW v \in Json
  PROVE  ChildValues(v) \in Seq(Children(v)) /\ Children(v) \subseteq Json
<1>1. WellShaped(v) /\ Children(v) \subseteq Json
  BY JsonAssumption DEF DownwardClosed
<1>2. CASE IsObject(v)
  <2> DEFINE ss == [n \in 1..Len(KeyOrder) |-> ValueUnder(v, KeyOrder[n])]
  <2>1. Len(KeyOrder) \in Nat
    BY KeyOrderAssumption, LenProperties
  <2>2. ASSUME NEW k PROVE ValueUnder(v, k) \in Seq(Children(v))
    <3>1. HasMember(v, k) => v.members[k] \in Children(v)
      BY <1>2 DEF HasMember, Children
    <3> QED BY <3>1 DEF ValueUnder
  <2>3. ss = [n \in 1..Len(KeyOrder) |-> ss[n]] /\ \A n \in 1..Len(KeyOrder) : ss[n] \in Seq(Children(v))
    BY <2>2
  <2>4. ChildValues(v) = FlattenSeq(ss)
    BY <1>2 DEF ChildValues
  <2> HIDE DEF ss
  <2>5. FlattenSeq(ss) \in Seq(Children(v))
    BY <2>1, <2>3, FlattenEach
  <2> QED BY <1>1, <2>4, <2>5
<1>3. CASE IsArray(v)
  BY <1>1, <1>3 DEF ChildValues, IsObject, IsArray, WellShaped
<1>4. CASE ~IsObject(v) /\ ~IsArray(v)
  BY <1>1, <1>4 DEF ChildValues
<1> QED BY <1>2, <1>3, <1>4

\* Preorder[v], if f is Preorder for the children of v.
PreorderFrom(v, f) == <<v>> \o FlattenSeq([n \in 1..Len(ChildValues(v)) |-> f[ChildValues(v)[n]]])
IsPreorder(w) == w = [v \in Json |-> PreorderFrom(v, w)]

\* Its values are values of the document again.
LEMMA PreorderFromType ==
  ASSUME NEW v \in Json, NEW f \in [Json -> Seq(Json)]
  PROVE  PreorderFrom(v, f) \in Seq(Json)
<1> DEFINE cs == ChildValues(v)
           ss == [n \in 1..Len(cs) |-> f[cs[n]]]
<1>1. cs \in Seq(Children(v)) /\ Children(v) \subseteq Json
  BY ChildValuesType
<1> HIDE DEF cs
<1>2. Len(cs) \in Nat /\ \A n \in 1..Len(cs) : cs[n] \in Json
  BY <1>1, LenProperties, ElementOfSeq
<1>3. ss = [n \in 1..Len(cs) |-> ss[n]] /\ \A n \in 1..Len(cs) : ss[n] \in Seq(Json)
  BY <1>2
<1>4. PreorderFrom(v, f) = <<v>> \o FlattenSeq(ss)
  BY DEF PreorderFrom, cs
<1> HIDE DEF ss
<1>5. FlattenSeq(ss) \in Seq(Json)
  BY <1>2, <1>3, FlattenEach
<1>6. <<v>> \in Seq(Json)
  OBVIOUS
<1> QED BY <1>4, <1>5, <1>6, ConcatProperties

\* The recursion ends, because children are nested less deeply.
LEMMA PreorderUnfolds == Preorder \in [Json -> Seq(Json)] /\ IsPreorder(Preorder)
<1> DEFINE V == Seq(Json)
           G == [v \in Json |-> [f \in [Json -> V] |-> PreorderFrom(v, f)]]
<1>1. \A v \in Json : \A f \in [Json -> V] : PreorderFrom(v, f) \in V
  BY PreorderFromType
<1>2. G \in [Json -> [[Json -> V] -> V]]
  BY <1>1
<1>3. ASSUME NEW v \in Json, NEW f \in [Json -> V], NEW g \in [Json -> V],
             \A c \in Json : Nesting[c] < Nesting[v] => f[c] = g[c]
      PROVE  PreorderFrom(v, f) = PreorderFrom(v, g)
  <2>1. ChildValues(v) \in Seq(Children(v)) /\ Children(v) \subseteq Json
    BY ChildValuesType
  <2>2. \A n \in 1..Len(ChildValues(v)) : ChildValues(v)[n] \in Children(v)
    BY <2>1, ElementOfSeq
  <2>3. \A n \in 1..Len(ChildValues(v)) : f[ChildValues(v)[n]] = g[ChildValues(v)[n]]
    BY <1>3, <2>1, <2>2, NestingAssumption
  <2>4. [n \in 1..Len(ChildValues(v)) |-> f[ChildValues(v)[n]]]
          = [n \in 1..Len(ChildValues(v)) |-> g[ChildValues(v)[n]]]
    BY <2>3
  <2> QED BY <2>4 DEF PreorderFrom
<1>4. LooksBack(G, Json, Nesting, V)
  <2>1. ASSUME NEW v \in Json, NEW f \in [Json -> V], NEW g \in [Json -> V],
               \A c \in Json : Nesting[c] < Nesting[v] => f[c] = g[c]
        PROVE  G[v][f] = G[v][g]
    <3>1. G[v][f] = PreorderFrom(v, f) /\ G[v][g] = PreorderFrom(v, g)
      OBVIOUS
    <3> HIDE DEF G, V
    <3> QED BY <1>3, <2>1, <3>1
  <2> HIDE DEF G, V
  <2> QED BY <2>1 DEF LooksBack
<1>5. \A v \in Json : \A f \in [Json -> V] : G[v][f] = PreorderFrom(v, f)
  OBVIOUS
<1>6. PICK w \in [Json -> V] : Computes(G, Json, w)
  <2>1. <<>> \in V
    OBVIOUS
  <2> HIDE DEF G, V
  <2> QED BY <1>2, <1>4, <2>1, NestingAssumption, RecursionHasValue, Zenon
<1>7. IsPreorder(w)
  <2> HIDE DEF G, V
  <2>1. \A v \in Json : w[v] = PreorderFrom(v, w)
    BY <1>5, <1>6 DEF Computes
  <2>2. w = [v \in Json |-> w[v]]
    OBVIOUS
  <2> QED BY <2>1, <2>2 DEF IsPreorder
<1>8. IsPreorder(Preorder)
  BY <1>7 DEF Preorder, IsPreorder, PreorderFrom
<1>9. \A v \in Json : w[v] = PreorderFrom(v, w)
  BY <1>7 DEF IsPreorder
<1>10. Preorder \in [Json -> V]
  <2> DEFINE S == {v \in Json : Preorder[v] = w[v]}
  <2>1. \A v \in Json : Preorder[v] = PreorderFrom(v, Preorder)
    BY <1>8 DEF IsPreorder
  <2>2. DOMAIN Preorder = Json
    BY <1>8 DEF IsPreorder
  <2>3. ASSUME NEW v \in Json, \A c \in Json : Nesting[c] < Nesting[v] => c \in S
        PROVE  Preorder[v] = w[v]
    <3>1. ChildValues(v) \in Seq(Children(v)) /\ Children(v) \subseteq Json
      BY ChildValuesType
    <3>2. \A n \in 1..Len(ChildValues(v)) : ChildValues(v)[n] \in Children(v)
      BY <3>1, ElementOfSeq
    <3>3. \A n \in 1..Len(ChildValues(v)) : Preorder[ChildValues(v)[n]] = w[ChildValues(v)[n]]
      BY <2>3, <3>1, <3>2, NestingAssumption
    <3>4. [n \in 1..Len(ChildValues(v)) |-> Preorder[ChildValues(v)[n]]]
            = [n \in 1..Len(ChildValues(v)) |-> w[ChildValues(v)[n]]]
      BY <3>3
    <3> QED BY <1>9, <2>1, <3>4 DEF PreorderFrom
  <2>4. Json \subseteq S
    <3>1. \A v \in Json : (\A c \in Json : Nesting[c] < Nesting[v] => c \in S) => v \in S
      BY <2>3
    <3> HIDE DEF S
    <3> QED BY <3>1, NestingAssumption, ByRank
  <2>5. \A v \in Json : Preorder[v] \in V
    BY <2>4
  <2>6. Preorder = [v \in Json |-> Preorder[v]]
    BY <1>8 DEF IsPreorder
  <2> HIDE DEF V
  <2> QED BY <2>5, <2>6
<1> QED BY <1>8, <1>10

\* The values of two lists, one after the other.
LEMMA PreorderOfBoth ==
  ASSUME NEW a \in Seq(Json), NEW b \in Seq(Json)
  PROVE  /\ PreorderOfAll(a) \in Seq(Json)
         /\ PreorderOfAll(a \o b) = PreorderOfAll(a) \o PreorderOfAll(b)
<1> DEFINE Listed(s) == [n \in 1..Len(s) |-> Preorder[s[n]]]
<1>1. ASSUME NEW s \in Seq(Json)
      PROVE  /\ Len(s) \in Nat /\ Listed(s) \in Seq(Seq(Json)) /\ Len(Listed(s)) = Len(s)
             /\ FlattenSeq(Listed(s)) \in Seq(Json)
             /\ \A n \in 1..Len(s) : Listed(s)[n] = Preorder[s[n]]
  <2> DEFINE ss == Listed(s)
  <2>1. Len(s) \in Nat /\ \A n \in 1..Len(s) : s[n] \in Json
    BY LenProperties, ElementOfSeq
  <2>2. ss = [n \in 1..Len(s) |-> ss[n]] /\ \A n \in 1..Len(s) : ss[n] = Preorder[s[n]]
    OBVIOUS
  <2>3. \A n \in 1..Len(s) : ss[n] \in Seq(Json)
    BY <2>1, <2>2, PreorderUnfolds
  <2> HIDE DEF ss
  <2>4. ss \in Seq(Seq(Json)) /\ Len(ss) = Len(s) /\ FlattenSeq(ss) \in Seq(Json)
    BY <2>1, <2>2, <2>3, FlattenEach
  <2>5. ss = Listed(s)
    BY DEF ss
  <2> HIDE DEF Listed
  <2> QED BY <2>1, <2>2, <2>4, <2>5
<1>2. \A s : PreorderOfAll(s) = FlattenSeq(Listed(s))
  BY DEF PreorderOfAll
<1>3. /\ a \o b \in Seq(Json) /\ Len(a \o b) = Len(a) + Len(b)
      /\ \A n \in 1..Len(a) + Len(b) : (a \o b)[n] = IF n <= Len(a) THEN a[n] ELSE b[n - Len(a)]
  BY ConcatProperties
<1>4. Listed(a \o b) = Listed(a) \o Listed(b)
  <2> DEFINE c == a \o b
             j == Listed(a) \o Listed(b)
             la == Listed(a)
             lb == Listed(b)
  <2>1. /\ la \in Seq(Seq(Json)) /\ lb \in Seq(Seq(Json)) /\ Len(la) = Len(a) /\ Len(lb) = Len(b)
        /\ Len(a) \in Nat /\ Len(b) \in Nat
        /\ \A n \in 1..Len(a) : la[n] = Preorder[a[n]]
        /\ \A n \in 1..Len(b) : lb[n] = Preorder[b[n]]
    BY <1>1
  <2>2. /\ Listed(c) \in Seq(Seq(Json)) /\ Len(Listed(c)) = Len(a) + Len(b)
        /\ \A n \in 1..Len(a) + Len(b) : Listed(c)[n] = Preorder[c[n]]
    BY <1>1, <1>3
  <2>3. \A n \in 1..Len(a) + Len(b) : c[n] = IF n <= Len(a) THEN a[n] ELSE b[n - Len(a)]
    BY <1>3
  <2> HIDE DEF c, la, lb, Listed
  <2>4. /\ la \o lb \in Seq(Seq(Json)) /\ Len(la \o lb) = Len(a) + Len(b)
        /\ \A n \in 1..Len(a) + Len(b) : (la \o lb)[n] = IF n <= Len(a) THEN la[n] ELSE lb[n - Len(a)]
    <3>1. /\ la \o lb \in Seq(Seq(Json)) /\ Len(la \o lb) = Len(la) + Len(lb)
          /\ \A n \in 1..Len(la) + Len(lb) : (la \o lb)[n] = IF n <= Len(la) THEN la[n] ELSE lb[n - Len(la)]
      BY <2>1, ConcatProperties
    <3> QED BY <2>1, <3>1
  <2>5. ASSUME NEW n \in 1..Len(a) + Len(b)
        PROVE  Listed(c)[n] = (la \o lb)[n]
    <3>1. CASE n <= Len(a)
      <4>1. n \in 1..Len(a)
        BY <2>1, <3>1
      <4>2. (la \o lb)[n] = la[n] /\ la[n] = Preorder[a[n]]
        BY <2>1, <2>4, <3>1, <4>1
      <4>3. Listed(c)[n] = Preorder[c[n]] /\ c[n] = a[n]
        BY <2>2, <2>3, <3>1
      <4> QED BY <4>2, <4>3
    <3>2. CASE ~(n <= Len(a))
      <4>1. n - Len(a) \in 1..Len(b)
        BY <2>1, <3>2
      <4>2. (la \o lb)[n] = lb[n - Len(a)] /\ lb[n - Len(a)] = Preorder[b[n - Len(a)]]
        BY <2>1, <2>4, <3>2, <4>1
      <4>3. Listed(c)[n] = Preorder[c[n]] /\ c[n] = b[n - Len(a)]
        BY <2>2, <2>3, <3>2
      <4> QED BY <4>2, <4>3
    <3> QED BY <3>1, <3>2
  <2>6. Listed(c) = la \o lb
    <3> DEFINE x == Listed(c)
               y == la \o lb
    <3>1. x \in Seq(Seq(Json)) /\ y \in Seq(Seq(Json)) /\ Len(x) = Len(y)
          /\ \A n \in 1..Len(x) : x[n] = y[n]
      BY <2>2, <2>4, <2>5
    <3> HIDE DEF x, y
    <3>2. x = y
      BY <3>1, SeqEqual
    <3> QED BY <3>2 DEF x, y
  <2> QED BY <2>6 DEF c, la, lb
<1> HIDE DEF Listed
<1> QED BY <1>1, <1>2, <1>4, FlattenBoth

\* A value comes before those in it.
LEMMA PreorderOfOne ==
  ASSUME NEW v \in Json
  PROVE  /\ Preorder[v] \in Seq(Json)
         /\ Preorder[v] = <<v>> \o PreorderOfAll(ChildValues(v))
         /\ PreorderOfAll(<<v>>) = Preorder[v]
<1>1. Preorder[v] \in Seq(Json) /\ Preorder[v] = PreorderFrom(v, Preorder)
  BY PreorderUnfolds DEF IsPreorder
<1>2. PreorderOfAll(<<v>>) = FlattenSeq(<<Preorder[v]>>)
  <2>1. [n \in 1..Len(<<v>>) |-> Preorder[<<v>>[n]]] = <<Preorder[v]>>
    OBVIOUS
  <2> QED BY <2>1 DEF PreorderOfAll
<1> QED BY <1>1, <1>2, FlattenOne DEF PreorderFrom, PreorderOfAll

\* No value stands for none.
LEMMA PreorderOfNone == PreorderOfAll(<<>>) = <<>>
<1>1. [n \in 1..Len(<<>>) |-> Preorder[<<>>[n]]] = <<>>
  OBVIOUS
<1> QED BY <1>1, FlattenNone DEF PreorderOfAll

\* The stack is a list from its end.
LEMMA ReverseType ==
  ASSUME NEW V, NEW s \in Seq(V)
  PROVE  /\ Len(s) \in Nat /\ Reverse(s) \in Seq(V) /\ Len(Reverse(s)) = Len(s)
         /\ \A n \in 1..Len(s) : Reverse(s)[n] = s[Len(s) - n + 1]
<1>1. Len(s) \in Nat /\ \A n \in 1..Len(s) : s[n] \in V
  BY LenProperties, ElementOfSeq
<1> DEFINE r == Reverse(s)
<1>2. r = [n \in 1..Len(s) |-> s[Len(s) - n + 1]]
  BY DEF Reverse
<1>3. \A n \in 1..Len(s) : r[n] = s[Len(s) - n + 1] /\ Len(s) - n + 1 \in 1..Len(s)
  BY <1>1, <1>2
<1>4. r \in [1..Len(s) -> V]
  BY <1>1, <1>2, <1>3
<1> HIDE DEF r
<1>5. r \in Seq(V) /\ Len(r) = Len(s)
  BY <1>1, <1>4, LenProperties
<1> QED BY <1>1, <1>3, <1>5 DEF r

\* Its last element comes first ...
LEMMA ReverseLast ==
  ASSUME NEW V, NEW s \in Seq(V), s # <<>>
  PROVE  /\ Front(s) \in Seq(V) /\ Last(s) \in V
         /\ Reverse(s) = <<Last(s)>> \o Reverse(Front(s))
<1> DEFINE f == Front(s)
           x == Last(s)
           a == Reverse(s)
           b == <<x>> \o Reverse(f)
<1>1. Len(s) \in Nat /\ Len(s) # 0 /\ \A n \in 1..Len(s) : s[n] \in V
  BY LenProperties, ElementOfSeq, EmptySeq
<1>2. f \in Seq(V) /\ Len(f) = Len(s) - 1 /\ \A n \in 1..Len(s) - 1 : f[n] = s[n]
  <2>1. f = SubSeq(s, 1, Len(s) - 1)
    BY DEF Front
  <2> HIDE DEF f
  <2>2. 1 \in Int /\ Len(s) - 1 \in Int /\ (\A n \in 1..Len(s) - 1 : s[n] \in V)
        /\ (Len(s) - 1) - 1 + 1 = Len(s) - 1 /\ (~(1 <= Len(s) - 1) => Len(s) - 1 = 0)
    <3> DEFINE k == Len(s)
    <3>1. k \in Nat /\ k # 0 /\ \A n \in 1..k : s[n] \in V
      BY <1>1
    <3> HIDE DEF k, a, b, x
    <3>2. /\ 1 \in Int /\ k - 1 \in Int /\ (k - 1) - 1 + 1 = k - 1 /\ (~(1 <= k - 1) => k - 1 = 0)
          /\ \A n \in 1..k - 1 : n \in 1..k
      BY <3>1
    <3>3. \A n \in 1..k - 1 : s[n] \in V
      BY <3>1, <3>2
    <3> QED BY <3>2, <3>3 DEF k
  <2>3. /\ SubSeq(s, 1, Len(s) - 1) \in Seq(V)
        /\ Len(SubSeq(s, 1, Len(s) - 1)) = IF 1 <= Len(s) - 1 THEN (Len(s) - 1) - 1 + 1 ELSE 0
        /\ \A n \in 1..(Len(s) - 1) - 1 + 1 : SubSeq(s, 1, Len(s) - 1)[n] = s[1 + n - 1]
    BY <2>2, SubSeqProperties
  <2>4. \A n \in 1..Len(s) - 1 : 1 + n - 1 = n
    BY <1>1
  <2>5. \A n \in 1..Len(s) - 1 : f[n] = s[n]
    BY <2>1, <2>2, <2>3, <2>4
  <2>6. f \in Seq(V) /\ Len(f) = Len(s) - 1
    BY <2>1, <2>2, <2>3
  <2> QED BY <2>5, <2>6
<1>3. x \in V /\ x = s[Len(s)]
  BY <1>1 DEF Last
<1> HIDE DEF f, x
<1>4. /\ a \in Seq(V) /\ Len(a) = Len(s)
      /\ \A n \in 1..Len(s) : a[n] = s[Len(s) - n + 1]
  BY ReverseType
<1>5. /\ Reverse(f) \in Seq(V) /\ Len(Reverse(f)) = Len(s) - 1
      /\ \A n \in 1..Len(s) - 1 : Reverse(f)[n] = f[Len(s) - 1 - n + 1]
  BY <1>2, ReverseType
<1>6. <<x>> \in Seq(V) /\ Len(<<x>>) = 1 /\ <<x>>[1] = x
  BY <1>3
<1>7. /\ b \in Seq(V) /\ Len(b) = 1 + (Len(s) - 1)
      /\ \A n \in 1..1 + (Len(s) - 1) : b[n] = IF n <= 1 THEN <<x>>[n] ELSE Reverse(f)[n - 1]
  BY <1>5, <1>6, ConcatProperties
<1>8. Len(b) = Len(a)
  BY <1>1, <1>4, <1>7
<1>9. ASSUME NEW n \in 1..Len(a)
      PROVE  a[n] = b[n]
  <2>1. n \in 1..Len(s) /\ n \in 1..1 + (Len(s) - 1)
    BY <1>1, <1>4
  <2>2. CASE n = 1
    <3>1. Len(s) - n + 1 = Len(s) /\ n <= 1
      BY <1>1, <2>2
    <3> QED BY <1>3, <1>4, <1>6, <1>7, <2>1, <2>2, <3>1
  <2>3. CASE n # 1
    <3>1. n - 1 \in 1..Len(s) - 1 /\ ~(n <= 1) /\ Len(s) - 1 - (n - 1) + 1 = Len(s) - n + 1
          /\ Len(s) - n + 1 \in 1..Len(s) - 1
      BY <1>1, <2>1, <2>3
    <3>2. Reverse(f)[n - 1] = f[Len(s) - 1 - (n - 1) + 1]
      BY <1>5, <3>1
    <3> QED BY <1>2, <1>4, <1>7, <2>1, <3>1, <3>2
  <2> QED BY <2>2, <2>3
<1> HIDE DEF a, b
<1>10. a = b
  BY <1>4, <1>7, <1>8, <1>9, SeqEqual
<1> QED BY <1>2, <1>3, <1>10 DEF a, b, f, x

\* ... and what is pushed in reverse comes before the rest, in order.
LEMMA ReversePushed ==
  ASSUME NEW V, NEW s \in Seq(V), NEW c \in Seq(V)
  PROVE  /\ s \o Reverse(c) \in Seq(V)
         /\ Reverse(s \o Reverse(c)) = c \o Reverse(s)
<1> DEFINE r == Reverse(c)
           j == s \o r
           a == Reverse(j)
           q == Reverse(s)
           b == c \o q
           m == Len(s)
           n == Len(c)
<1>1. /\ m \in Nat /\ n \in Nat /\ r \in Seq(V) /\ Len(r) = n /\ q \in Seq(V) /\ Len(q) = m
      /\ \A k \in 1..n : r[k] = c[n - k + 1]
      /\ \A k \in 1..m : q[k] = s[m - k + 1]
  BY ReverseType
<1> HIDE DEF r, q
<1>2. /\ j \in Seq(V) /\ Len(j) = m + n
      /\ \A k \in 1..m + n : j[k] = IF k <= m THEN s[k] ELSE r[k - m]
  <2> HIDE DEF a, b, j, m, n
  <2>1. /\ s \o r \in Seq(V) /\ Len(s \o r) = Len(s) + Len(r)
        /\ \A k \in 1..Len(s) + Len(r) : (s \o r)[k] = IF k <= Len(s) THEN s[k] ELSE r[k - Len(s)]
    BY <1>1, ConcatProperties
  <2>2. j = s \o r /\ Len(s) = m
    BY DEF j, m
  <2> QED BY <1>1, <2>1, <2>2
<1>3. /\ b \in Seq(V) /\ Len(b) = n + m
      /\ \A k \in 1..n + m : b[k] = IF k <= n THEN c[k] ELSE q[k - n]
  <2> HIDE DEF a, b, j, m, n
  <2>1. /\ c \o q \in Seq(V) /\ Len(c \o q) = Len(c) + Len(q)
        /\ \A k \in 1..Len(c) + Len(q) : (c \o q)[k] = IF k <= Len(c) THEN c[k] ELSE q[k - Len(c)]
    BY <1>1, ConcatProperties
  <2>2. b = c \o q /\ Len(c) = n
    BY DEF b, n
  <2> QED BY <1>1, <2>1, <2>2
<1> HIDE DEF j, b
<1>4. /\ a \in Seq(V) /\ Len(a) = Len(j)
      /\ \A k \in 1..Len(j) : a[k] = j[Len(j) - k + 1]
  BY <1>2, ReverseType
<1> HIDE DEF a, m, n
<1>5. Len(a) = Len(b)
  BY <1>1, <1>2, <1>3, <1>4
<1>6. ASSUME NEW k \in 1..Len(a)
      PROVE  a[k] = b[k]
  <2>1. /\ k \in 1..m + n /\ k \in 1..n + m /\ (m + n) - k + 1 \in 1..m + n
        /\ a[k] = j[(m + n) - k + 1]
    BY <1>1, <1>2, <1>4
  <2>2. CASE k <= n
    <3>1. /\ ~((m + n) - k + 1 <= m) /\ ((m + n) - k + 1) - m \in 1..n
          /\ n - (((m + n) - k + 1) - m) + 1 = k
      BY <1>1, <2>1, <2>2
    <3>2. j[(m + n) - k + 1] = r[((m + n) - k + 1) - m]
      BY <1>2, <2>1, <3>1
    <3>3. r[((m + n) - k + 1) - m] = c[n - (((m + n) - k + 1) - m) + 1]
      BY <1>1, <3>1
    <3>4. b[k] = c[k]
      BY <1>3, <2>1, <2>2
    <3> QED BY <2>1, <3>1, <3>2, <3>3, <3>4
  <2>3. CASE ~(k <= n)
    <3>1. (m + n) - k + 1 <= m /\ k - n \in 1..m /\ m - (k - n) + 1 = (m + n) - k + 1
      BY <1>1, <2>1, <2>3
    <3>2. j[(m + n) - k + 1] = s[(m + n) - k + 1]
      BY <1>2, <2>1, <3>1
    <3>3. q[k - n] = s[m - (k - n) + 1]
      BY <1>1, <3>1
    <3>4. b[k] = q[k - n]
      BY <1>3, <2>1, <2>3
    <3> QED BY <2>1, <3>1, <3>2, <3>3, <3>4
  <2> QED BY <2>2, <2>3
<1>7. a = b
  BY <1>3, <1>4, <1>2, <1>5, <1>6, SeqEqual
<1> QED BY <1>2, <1>7 DEF a, b, j, r, q

\* A value that is popped makes room for its children.
LEMMA PopKeepsOrder ==
  ASSUME NEW s \in Seq(Json), s # <<>>
  PROVE  /\ Pushed(Front(s), Last(s)) \in Seq(Json) /\ Last(s) \in Json
         /\ PreorderOfAll(Reverse(s)) = <<Last(s)>> \o PreorderOfAll(Reverse(Pushed(Front(s), Last(s))))
<1> DEFINE f == Front(s)
           x == Last(s)
           c == ChildValues(x)
           r == Reverse(f)
<1>1. f \in Seq(Json) /\ x \in Json /\ Reverse(s) = <<x>> \o r
  BY ReverseLast
<1> HIDE DEF f, x
<1>2. c \in Seq(Json)
  BY <1>1, ChildValuesType, SeqMonotonic
<1> HIDE DEF c
<1>3. r \in Seq(Json) /\ <<x>> \in Seq(Json)
  BY <1>1, ReverseType
<1> HIDE DEF r
<1>4. f \o Reverse(c) \in Seq(Json) /\ Reverse(f \o Reverse(c)) = c \o r
  BY <1>1, <1>2, ReversePushed DEF r
<1>5. PreorderOfAll(<<x>> \o r) = PreorderOfAll(<<x>>) \o PreorderOfAll(r)
  BY <1>3, PreorderOfBoth
<1>6. PreorderOfAll(c \o r) = PreorderOfAll(c) \o PreorderOfAll(r)
  BY <1>2, <1>3, PreorderOfBoth
<1>7. PreorderOfAll(<<x>>) = <<x>> \o PreorderOfAll(c)
  BY <1>1, PreorderOfOne DEF c
<1>8. PreorderOfAll(c) \in Seq(Json) /\ PreorderOfAll(r) \in Seq(Json)
  BY <1>2, <1>3, PreorderOfBoth
<1>9. (<<x>> \o PreorderOfAll(c)) \o PreorderOfAll(r) = <<x>> \o (PreorderOfAll(c) \o PreorderOfAll(r))
  <2> DEFINE u == <<x>>
             v == PreorderOfAll(c)
             w == PreorderOfAll(r)
  <2>1. u \in Seq(Json) /\ v \in Seq(Json) /\ w \in Seq(Json)
    BY <1>3, <1>8
  <2> HIDE DEF u, v, w
  <2>2. (u \o v) \o w = u \o (v \o w)
    BY <2>1, ConcatAssociative, SMTT(60)
  <2> QED BY <2>2 DEF u, v, w
<1>10. Pushed(f, x) = f \o Reverse(c)
  BY DEF Pushed, c
<1>11. PreorderOfAll(Reverse(s)) = <<x>> \o PreorderOfAll(Reverse(Pushed(f, x)))
  BY <1>1, <1>4, <1>5, <1>6, <1>7, <1>9, <1>10
<1> QED BY <1>1, <1>4, <1>10, <1>11 DEF f, x

(***************************************************************************)
(* What a token selects                                                    *)
(***************************************************************************)

\* The numbers of a token are integers.
FieldsOK(tk) ==
  tk.index \in Int /\ tk.slice.start \in Int /\ tk.slice.end \in Int /\ tk.slice.step \in Int

\* Multiplication is monotonic.
LEMMA TimesGrows ==
  ASSUME NEW a \in Nat, NEW b \in Nat, NEW c \in Nat, a <= b
  PROVE  a * c <= b * c /\ a * c \in Nat /\ b * c \in Nat
<1>1. b - a \in Nat /\ b = a + (b - a)
  OBVIOUS
<1> DEFINE d == b - a
<1>2. d \in Nat /\ b = a + d
  BY <1>1
<1> HIDE DEF d
<1>3. (a + d) * c = a * c + d * c /\ d * c \in Nat /\ a * c \in Nat
  BY <1>2
<1> QED BY <1>2, <1>3

\* The positions that steps of size p reach before a distance d is passed.
LEMMA StepsReach ==
  ASSUME NEW d \in Nat, NEW p \in Nat, p > 0, NEW n \in 1..d \div p + 1
  PROVE  (n - 1) * p \in 0..d
<1> DEFINE q == d \div p
<1>1. q \in Nat /\ q * p <= d
  OBVIOUS
<1>2. n \in 1..q + 1
  OBVIOUS
<1> HIDE DEF q
<1>3. n - 1 \in Nat /\ n - 1 <= q
  BY <1>1, <1>2
<1> DEFINE m == n - 1
           x == m * p
           y == q * p
<1>4. m \in Nat /\ m <= q
  BY <1>3
<1> HIDE DEF m
<1>5. x <= y /\ x \in Nat /\ y \in Nat /\ y <= d
  BY <1>1, <1>4, TimesGrows
<1> HIDE DEF x, y
<1>6. x \in 0..d
  BY <1>5
<1> QED BY <1>6 DEF x, m

\* Every position that a slice reads is one of the array, whatever the parts of
\* the slice, in either direction, and the length of the array (evalSlice).
THEOREM SliceInside ==
  ASSUME NEW s, s.start \in Int, s.end \in Int, s.step \in Int, NEW len \in Nat
  PROVE  /\ SliceCount(s, len) \in Nat
         /\ \A n \in 1..SliceCount(s, len) : SliceStart(s, len) + (n - 1) * s.step \in 0..len - 1
<1> DEFINE start == SliceStart(s, len)
           stop == SliceStop(s, len)
<1>0. Omitted \in Int
  BY WidthsAssumption DEF Omitted
<1>1. CASE s.step > 0
  <2>1. start \in 0..len /\ stop \in 0..len
    BY <1>0, <1>1 DEF SliceStart, SliceStop, Clamped, FromEnd
  <2> DEFINE d == stop - start - 1
  <2>2. SliceCount(s, len) = IF start < stop THEN d \div s.step + 1 ELSE 0
    BY <1>1 DEF SliceCount
  <2>2a. s.step \in Nat
    BY <1>1
  <2> HIDE DEF start, stop
  <2>3. CASE start < stop
    <3>1. d \in Nat /\ d \div s.step \in Nat
      BY <1>1, <2>1, <2>2a, <2>3
    <3>2. ASSUME NEW n \in 1..d \div s.step + 1
          PROVE  start + (n - 1) * s.step \in 0..len - 1
      <4> DEFINE x == (n - 1) * s.step
      <4>1. x \in 0..d
        BY <1>1, <2>2a, <3>1, StepsReach
      <4> HIDE DEF x
      <4>2. start + x \in 0..len - 1
        BY <2>1, <2>3, <3>1, <4>1
      <4> QED BY <4>2 DEF x
    <3> QED BY <2>2, <2>3, <3>1, <3>2 DEF start
  <2>4. CASE ~(start < stop)
    BY <2>2, <2>4
  <2> QED BY <2>3, <2>4
<1>2. CASE s.step < 0
  <2>1. start \in -1..len - 1 /\ stop \in -1..len - 1
    BY <1>0, <1>2 DEF SliceStart, SliceStop, Clamped, FromEnd
  <2> DEFINE d == start - stop - 1
             p == -s.step
  <2>2. SliceCount(s, len) = IF start > stop THEN d \div p + 1 ELSE 0
    BY <1>2 DEF SliceCount
  <2>2a. p \in Nat /\ p > 0 /\ s.step = -p
    BY <1>2
  <2> HIDE DEF start, stop, p
  <2>3. CASE start > stop
    <3>1. d \in Nat /\ d \div p \in Nat
      BY <2>1, <2>2a, <2>3
    <3>2. ASSUME NEW n \in 1..d \div p + 1
          PROVE  start + (n - 1) * s.step \in 0..len - 1
      <4> DEFINE x == (n - 1) * p
      <4>1. x \in 0..d
        BY <2>2a, <3>1, StepsReach
      <4>2. (n - 1) * s.step = -x
        BY <2>2a, <3>1
      <4> HIDE DEF x
      <4>3. start + (-x) \in 0..len - 1
        BY <2>1, <2>3, <3>1, <4>1
      <4> QED BY <4>2, <4>3
    <3> QED BY <2>2, <2>3, <3>1, <3>2 DEF start
  <2>4. CASE ~(start > stop)
    BY <2>2, <2>4
  <2> QED BY <2>3, <2>4
<1>3. CASE s.step = 0
  BY <1>3 DEF SliceCount
<1> QED BY <1>1, <1>2, <1>3

LEMMA SliceType ==
  ASSUME NEW V, NEW elements \in Seq(V), NEW tk, FieldsOK(tk)
  PROVE  EvalSlice(elements, tk.slice) \in Seq(V)
<1> DEFINE s == tk.slice
           len == Len(elements)
           f == EvalSlice(elements, s)
           count == SliceCount(s, len)
<1>1. len \in Nat /\ s.start \in Int /\ s.end \in Int /\ s.step \in Int
  BY LenProperties DEF FieldsOK
<1> HIDE DEF s
<1>2. count \in Nat /\ \A n \in 1..count : SliceStart(s, len) + (n - 1) * s.step \in 0..len - 1
  BY <1>1, SliceInside
<1>3. f = [n \in 1..count |-> elements[SliceStart(s, len) + (n - 1) * s.step + 1]]
  BY DEF EvalSlice
<1>4. ASSUME NEW n \in 1..count
      PROVE  elements[SliceStart(s, len) + (n - 1) * s.step + 1] \in V
  <2> DEFINE x == SliceStart(s, len) + (n - 1) * s.step
  <2>1. x \in 0..len - 1
    BY <1>2
  <2> HIDE DEF x
  <2>2. x + 1 \in 1..len
    BY <1>1, <2>1
  <2>3. elements[x + 1] \in V
    BY <2>2, ElementOfSeq
  <2> QED BY <2>3 DEF x
<1> HIDE DEF f, count
<1>5. f \in [1..count -> V]
  BY <1>3, <1>4
<1>6. f \in Seq(V)
  BY <1>2, <1>5
<1> QED BY <1>6 DEF f, s

\* A token selects values of the document.
LEMMA SelectKeyType ==
  ASSUME NEW v \in Json, NEW tk
  PROVE  SelectKey(tk, v) \in Seq(Json)
<1>1. Children(v) \subseteq Json
  BY ChildValuesType
<1>2. IsObject(v) /\ HasMember(v, tk.key) => v.members[tk.key] \in Json
  BY <1>1 DEF HasMember, Children
<1> QED BY <1>2 DEF SelectKey, ValueUnder

\* Any selector does.
LEMMA SelectedType ==
  ASSUME NEW v \in Json, NEW tk, FieldsOK(tk), IsSelectorToken(tk)
  PROVE  Selected(tk, v) \in Seq(Json)
<1>1. WellShaped(v) /\ Children(v) \subseteq Json
  BY JsonAssumption DEF DownwardClosed
<1>2. ChildValues(v) \in Seq(Json)
  BY ChildValuesType, SeqMonotonic
<1>3. IsArray(v) => v.elements \in Seq(Json)
  <2>1. IsArray(v) => v.elements \in Seq(Children(v))
    BY <1>1 DEF WellShaped
  <2> QED BY <1>1, <2>1, SeqMonotonic
<1>4. SelectKey(tk, v) \in Seq(Json)
  BY SelectKeyType
<1>5. SelectIndex(tk, v) \in Seq(Json)
  <2> DEFINE p == NormalizeIndex(tk.index, Size(v))
  <2>1. IsArray(v) => Size(v) \in Nat /\ p \in Int
    BY <1>3, LenProperties DEF FieldsOK, NormalizeIndex, Size
  <2> HIDE DEF p
  <2>2. ASSUME IsArray(v), 0 <= p, p < Size(v)
        PROVE  ElementAt(v, p) \in Json
    <3>1. p + 1 \in 1..Len(v.elements)
      BY <2>1, <2>2 DEF Size
    <3> QED BY <1>3, <2>2, <3>1, ElementOfSeq DEF ElementAt
  <2> QED BY <2>2 DEF SelectIndex, p
<1>6. IsArray(v) => EvalSlice(v.elements, tk.slice) \in Seq(Json)
  BY <1>3, SliceType
<1>7. SelectFiltered(tk, v) \in Seq(Json)
  <2> DEFINE cs == ChildValues(v)
             Kept(item) == IF IsObject(item) /\ HasMember(item, tk.key) THEN <<item>> ELSE <<>>
             ss == [n \in 1..Len(cs) |-> Kept(cs[n])]
  <2>1. Len(cs) \in Nat /\ \A n \in 1..Len(cs) : cs[n] \in Json
    BY <1>2, LenProperties, ElementOfSeq
  <2>2. \A item \in Json : Kept(item) \in Seq(Json)
    OBVIOUS
  <2>3. SelectFiltered(tk, v) = FlattenSeq(ss)
    BY DEF SelectFiltered
  <2> HIDE DEF cs, Kept
  <2>4. ss = [n \in 1..Len(cs) |-> ss[n]] /\ \A n \in 1..Len(cs) : ss[n] \in Seq(Json)
    BY <2>1, <2>2
  <2> HIDE DEF ss
  <2>5. FlattenSeq(ss) \in Seq(Json)
    BY <2>1, <2>4, FlattenEach
  <2> QED BY <2>3, <2>5
<1>8. <<>> \in Seq(Json)
  OBVIOUS
<1>9. tk.kind \in {"Index", "Key", "Filter", "Wildcard", "Slice"}
  BY DEF IsSelectorToken
<1>10. CASE tk.kind = "Key"
  BY <1>4, <1>10 DEF Selected
<1>11. CASE tk.kind = "Index"
  BY <1>5, <1>11 DEF Selected
<1>12. CASE tk.kind = "Slice"
  BY <1>6, <1>8, <1>12 DEF Selected
<1>13. CASE tk.kind = "Wildcard"
  BY <1>2, <1>13 DEF Selected
<1>14. CASE tk.kind = "Filter"
  BY <1>7, <1>14 DEF Selected
<1> QED BY <1>9, <1>10, <1>11, <1>12, <1>13, <1>14

\* A selector that a rule of the parser returns has integers for its parts.
LEMMA SelectorFields ==
  ASSUME NEW s, SelectorOf(s).kind # "error"
  PROVE  FieldsOK(SelectorOf(s))
<1>0. Omitted \in Int /\ IntMax \in Int /\ SizeMax \in Int
  BY WidthsAssumption DEF Omitted
<1>1. \A kind : FieldsOK(PlainToken(kind))
  BY <1>0 DEF FieldsOK, PlainToken, NoSlice
<1>2. \A key, group : FieldsOK(KeyToken(key, group))
  BY <1>0 DEF FieldsOK, KeyToken, NoSlice
<1>3. ASSUME NEW c, IsLiteral(c)
      PROVE  ClampIndex(LiteralOf(c)) \in Int /\ SlicePart(LiteralOf(c)) \in Int
  <2>1. LiteralOf(c) \in Int
    BY <1>3, LiteralsAssumption DEF IsLiteral, LiteralOf
  <2> QED BY <1>0, <2>1 DEF ClampIndex, SlicePart
<1>4. \A e : Error(e).kind = "error"
  BY DEF Error
<1>5. ASSUME NEW expr, FilterSelector(expr).kind # "error"
      PROVE  FieldsOK(FilterSelector(expr))
  <2> DEFINE inner == IF Len(expr) >= 2 /\ expr[1] = "(" /\ Last(expr) = ")"
                      THEN SubSeq(expr, 2, Len(expr) - 1) ELSE expr
             known == Len(inner) = 3 /\ inner[1] = "@" /\ inner[2] = "." /\ inner[3] \in Letters
             filter == [PlainToken("Filter") EXCEPT !.key = <<inner[3]>>]
  <2>1. FilterSelector(expr) = IF known THEN filter ELSE Error("UnsupportedFilter")
    BY DEF FilterSelector
  <2>2. FieldsOK(filter)
    <3> HIDE DEF inner
    <3> QED BY <1>0 DEF FieldsOK, PlainToken, NoSlice
  <2> HIDE DEF known, filter
  <2> QED BY <1>4, <1>5, <2>1, <2>2
<1>6. QuotedSelector(s).kind # "error" => FieldsOK(QuotedSelector(s))
  BY <1>2, <1>4 DEF QuotedSelector
<1>7. ASSUME IsSlice(s)
      PROVE  FieldsOK(SliceSelector(s))
  <2> DEFINE parts == SliceParts(s)
             Part(k, default) ==
               IF k > Len(parts) \/ parts[k] = <<>> THEN default ELSE SlicePart(LiteralOf(parts[k]))
  <2>1. Len(parts) \in {2, 3} /\ \A k \in 1..Len(parts) : parts[k] = <<>> \/ IsLiteral(parts[k])
    BY <1>7 DEF IsSlice
  <2>2. SliceSelector(s) = [PlainToken("Slice") EXCEPT
          !.slice = [start |-> Part(1, Omitted), end |-> Part(2, Omitted), step |-> Part(3, 1)]]
    BY DEF SliceSelector
  <2> HIDE DEF parts
  <2>3. ASSUME NEW k \in 1..3, NEW default \in Int
        PROVE  Part(k, default) \in Int
    <3>1. CASE k > Len(parts) \/ parts[k] = <<>>
      BY <2>3, <3>1
    <3>2. CASE ~(k > Len(parts) \/ parts[k] = <<>>)
      <4>1. k \in 1..Len(parts)
        BY <2>1, <3>2
      <4>2. IsLiteral(parts[k])
        BY <2>1, <3>2, <4>1
      <4> QED BY <1>3, <3>2, <4>2
    <3> QED BY <3>1, <3>2
  <2>4. Part(1, Omitted) \in Int /\ Part(2, Omitted) \in Int /\ Part(3, 1) \in Int
    <3> HIDE DEF Part
    <3>1. 1 \in 1..3 /\ 2 \in 1..3 /\ 3 \in 1..3 /\ 1 \in Int
      OBVIOUS
    <3> QED BY <1>0, <2>3, <3>1
  <2> HIDE DEF Part
  <2> QED BY <2>2, <2>4 DEF FieldsOK, PlainToken
<1>8. IsLiteral(s) => FieldsOK([PlainToken("Index") EXCEPT !.index = ClampIndex(LiteralOf(s))])
  BY <1>0, <1>3 DEF FieldsOK, PlainToken, NoSlice
<1> DEFINE index == [PlainToken("Index") EXCEPT !.index = ClampIndex(LiteralOf(s))]
           wildcard == PlainToken("Wildcard")
           filter == FilterSelector(Tail(s))
<1>9. \/ SelectorOf(s) = filter
      \/ SelectorOf(s) = wildcard
      \/ SelectorOf(s) = Error("InvalidIndex")
      \/ IsLiteral(s) /\ SelectorOf(s) = index
      \/ IsSlice(s) /\ SelectorOf(s) = SliceSelector(s)
      \/ SelectorOf(s) = QuotedSelector(s)
      \/ SelectorOf(s) = Error("InvalidIdentifier")
  BY Zenon DEF SelectorOf
<1>10. FieldsOK(wildcard) /\ (filter.kind # "error" => FieldsOK(filter)) /\ (IsLiteral(s) => FieldsOK(index))
  BY <1>1, <1>5, <1>8
<1> HIDE DEF index, wildcard, filter
<1> QED BY <1>4, <1>6, <1>7, <1>9, <1>10

\* The values a token selects from those of a list.
LEMMA FanOutType ==
  ASSUME NEW values \in Seq(Json), NEW tk, FieldsOK(tk), IsSelectorToken(tk)
  PROVE  FanOut(tk, values) \in Seq(Json)
<1> DEFINE n == Len(values)
           ss == [k \in 1..n |-> Selected(tk, values[k])]
<1>1. n \in Nat /\ \A k \in 1..n : values[k] \in Json
  BY LenProperties, ElementOfSeq
<1>2. FanOut(tk, values) = FlattenSeq(ss)
  BY DEF FanOut
<1> HIDE DEF n
<1>3. ss = [k \in 1..n |-> ss[k]] /\ \A k \in 1..n : ss[k] \in Seq(Json)
  BY <1>1, SelectedType
<1> HIDE DEF ss
<1>4. FlattenSeq(ss) \in Seq(Json)
  BY <1>1, <1>3, FlattenEach
<1> QED BY <1>2, <1>4

\* Where the fields of a path's tokens are integers ...
TokenFields == \A t \in Threads : \A k \in 1..Len(tokens[t]) : FieldsOK(tokens[t][k])

LEMMA FieldsAt ==
  ASSUME TokenFields, NEW t \in Threads, TokenCount(t) \in Nat, NEW n \in Nat, n < TokenCount(t)
  PROVE  FieldsOK(TokenAt(t, n))
<1>1. n + 1 \in 1..Len(tokens[t])
  BY DEF TokenCount
<1> QED BY <1>1 DEF TokenFields, TokenAt

\* ... a union selects values of the document: each token of its run is a selector.
LEMMA UnionType ==
  ASSUME TokenFields, NEW t \in Threads, TokenCount(t) \in Nat, NEW n \in Nat, n < TokenCount(t),
         IsUnion(t, n), NEW values \in Seq(Json)
  PROVE  UnionOf(t, n, values) \in Seq(Json)
<1> DEFINE ends == {m \in n + 1..TokenCount(t) : m = TokenCount(t) \/ ~IsSelectorToken(TokenAt(t, m))}
           stop == Min(ends)
           run == SelectorRun(t, n)
<1>1. TokenCount(t) \in ends /\ ends \subseteq Nat
  OBVIOUS
<1>2. stop \in ends /\ \A m \in ends : stop <= m
  <2> HIDE DEF ends
  <2> QED BY <1>1, MinOfNat, MinLeast
<1>3. run = n..stop - 1
  BY DEF SelectorRun
<1>4. stop \in n + 1..TokenCount(t)
  BY <1>2
<1>5. ASSUME NEW m \in n..stop - 1
      PROVE  m \in Nat /\ m < TokenCount(t) /\ IsSelectorToken(TokenAt(t, m))
  <2>1. m \in Nat /\ m < TokenCount(t)
    <3> HIDE DEF stop
    <3> QED BY <1>4
  <2>2. CASE m = n
    BY <2>1, <2>2 DEF IsUnion
  <2>3. CASE m # n
    <3>1. m \in n + 1..TokenCount(t) /\ m # TokenCount(t) /\ ~(stop <= m)
      <4> HIDE DEF stop
      <4> QED BY <1>4, <2>1, <2>3
    <3> HIDE DEF stop
    <3> QED BY <1>2, <2>1, <3>1
  <2> QED BY <2>2, <2>3
<1> HIDE DEF stop, ends
<1>6. Cardinality(run) = stop - n /\ stop - n \in Nat
  <2>1. n \in Int /\ stop - 1 \in Int /\ n <= stop - 1
    BY <1>4
  <2>2. Cardinality(n..stop - 1) = (stop - 1) - n + 1
    BY <2>1, FS_Interval
  <2> QED BY <1>3, <1>4, <2>1, <2>2
<1> DEFINE count == Cardinality(run)
           ss == [m \in 1..count |-> FanOut(TokenAt(t, n + m - 1), values)]
<1>7. UnionOf(t, n, values) = FlattenSeq(ss)
  BY DEF UnionOf
<1> HIDE DEF run
<1>8. ASSUME NEW m \in 1..count
      PROVE  FanOut(TokenAt(t, n + m - 1), values) \in Seq(Json)
  <2>1. n + m - 1 \in n..stop - 1
    BY <1>4, <1>6
  <2>2. FieldsOK(TokenAt(t, n + m - 1)) /\ IsSelectorToken(TokenAt(t, n + m - 1))
    BY <1>5, <2>1, FieldsAt
  <2> QED BY <2>2, FanOutType
<1>9. ss = [m \in 1..count |-> ss[m]] /\ \A m \in 1..count : ss[m] \in Seq(Json)
  BY <1>8
<1>10. count \in Nat
  BY <1>6
<1> HIDE DEF ss, count
<1>11. FlattenSeq(ss) \in Seq(Json)
  BY <1>9, <1>10, FlattenEach
<1> QED BY <1>7, <1>11

\* So does a run of names behind "..".
LEMMA BranchUniqueType ==
  ASSUME NEW t, TokenCount(t) \in Nat, NEW n \in Nat, n < TokenCount(t), NEW values \in Seq(Json)
  PROVE  BranchUnique(t, n, values) \in Seq(Json)
<1> DEFINE size == KeyRunEnd(t, n) - n
           run == [m \in 1..size |-> TokenAt(t, n + m - 1)]
           HasAll(v) == IsObject(v) /\ \A m \in 1..Len(run) : HasMember(v, run[m].key)
           isLeaf == n + 1 = TokenCount(t)
           Keys(v) == [m \in 1..Len(run) |-> SelectKey(run[m], v)]
           From(v) == IF isLeaf /\ Len(run) > 1 THEN IF HasAll(v) THEN <<v>> ELSE <<>>
                      ELSE FlattenSeq(Keys(v))
           ss == [m \in 1..Len(values) |-> From(values[m])]
<1>1. size \in Nat
  <2>1. KeyRunEnd(t, n) \in n..TokenCount(t)
    BY RunEnds
  <2> QED BY <2>1
<1>2. BranchUnique(t, n, values) = FlattenSeq(ss)
  BY DEF BranchUnique
<1>3. Len(run) \in Nat
  <2>1. run = [m \in 1..size |-> run[m]]
    OBVIOUS
  <2> HIDE DEF run, size
  <2>2. Len(run) = size
    BY <1>1, <2>1, BuiltSequence
  <2> QED BY <1>1, <2>2
<1> HIDE DEF run, size, HasAll, isLeaf
<1>4. ASSUME NEW v \in Json
      PROVE  FlattenSeq(Keys(v)) \in Seq(Json)
  <2> DEFINE ks == Keys(v)
  <2>1. ks = [m \in 1..Len(run) |-> ks[m]] /\ \A m \in 1..Len(run) : ks[m] \in Seq(Json)
    BY SelectKeyType
  <2> HIDE DEF ks
  <2>2. FlattenSeq(ks) \in Seq(Json)
    BY <1>3, <2>1, FlattenEach
  <2> QED BY <2>2 DEF ks
<1> HIDE DEF Keys
<1>5. ASSUME NEW v \in Json
      PROVE  From(v) \in Seq(Json)
  <2>1. <<v>> \in Seq(Json) /\ <<>> \in Seq(Json)
    OBVIOUS
  <2> QED BY <1>4, <2>1
<1> HIDE DEF From
<1>6. Len(values) \in Nat /\ \A m \in 1..Len(values) : values[m] \in Json
  BY LenProperties, ElementOfSeq
<1>7. ss = [m \in 1..Len(values) |-> ss[m]] /\ \A m \in 1..Len(values) : ss[m] \in Seq(Json)
  BY <1>5, <1>6
<1> HIDE DEF ss
<1>8. FlattenSeq(ss) \in Seq(Json)
  BY <1>6, <1>7, FlattenEach
<1> QED BY <1>2, <1>8

\* What stands between a bracket and the one that closes it is a text.
LEMMA ContentOfBracket ==
  ASSUME NEW s \in Seq(Lexemes), NEW n \in 1..Len(s)
  PROVE  SubSeq(s, 2, n - 1) \in Seq(Lexemes)
<1>1. Len(s) \in Nat
  BY LenProperties
<1>2. n - 1 \in Int /\ n - 1 <= Len(s) /\ 2 \in Nat
  BY <1>1
<1> QED BY <1>2

\* A step of create keeps the fields of the tokens.
LEMMA CompileFields ==
  ASSUME CompileInv, TokenFields, NEW t \in Threads, Compile(t)
  PROVE  TokenFields'
<1>1. /\ tokens = [u \in Threads |-> tokens[u]]
      /\ \A u \in Threads : IsSequence(tokens[u])
  BY DEF CompileInv, ListsOK
<1>2. /\ \A kind : FieldsOK(PlainToken(kind))
      /\ \A key, group : FieldsOK(KeyToken(key, group))
  BY WidthsAssumption DEF FieldsOK, PlainToken, KeyToken, NoSlice, Omitted
<1>3. ASSUME UNCHANGED tokens PROVE TokenFields'
  BY <1>3 DEF TokenFields
<1>4. ASSUME NEW toks, IsSequence(toks), \A k \in 1..Len(toks) : FieldsOK(toks[k]),
             NEW p, Emit(t, toks, p)
      PROVE  TokenFields'
  <2> DEFINE old == tokens[t]
             new == old \o toks
  <2>1. /\ IsSequence(new) /\ Len(new) = Len(old) + Len(toks)
        /\ \A k \in 1..Len(old) + Len(toks) : new[k] = IF k <= Len(old) THEN old[k] ELSE toks[k - Len(old)]
    BY <1>1, <1>4, Joined
  <2>2. tokens' = [tokens EXCEPT ![t] = new]
    BY <1>4 DEF Emit
  <2>3. \A u \in Threads : tokens'[u] = IF u = t THEN new ELSE tokens[u]
    <3> HIDE DEF new
    <3> QED BY <1>1, <2>2
  <2> HIDE DEF new
  <2>4. ASSUME NEW k \in 1..Len(new)
        PROVE  FieldsOK(new[k])
    <3>1. k \in 1..Len(old) + Len(toks) /\ Len(old) \in Nat /\ Len(toks) \in Nat
      BY <1>1, <1>4, <2>1 DEF IsSequence
    <3>2. CASE k <= Len(old)
      <4>1. k \in 1..Len(old) /\ new[k] = old[k]
        BY <2>1, <3>1, <3>2
      <4> QED BY <4>1 DEF TokenFields
    <3>3. CASE ~(k <= Len(old))
      <4>1. k - Len(old) \in 1..Len(toks) /\ new[k] = toks[k - Len(old)]
        BY <2>1, <3>1, <3>3
      <4> QED BY <1>4, <4>1
    <3> QED BY <3>2, <3>3
  <2>5. ASSUME NEW u \in Threads, NEW k \in 1..Len(tokens'[u])
        PROVE  FieldsOK(tokens'[u][k])
    BY <2>3, <2>4, <2>5 DEF TokenFields
  <2> QED BY <2>5 DEF TokenFields
<1>5. ASSUME NEW tk, FieldsOK(tk), NEW p, Emit(t, <<tk>>, p)
      PROVE  TokenFields'
  <2>1. IsSequence(<<tk>>) /\ \A k \in 1..Len(<<tk>>) : FieldsOK(<<tk>>[k])
    BY <1>5 DEF IsSequence
  <2> QED BY <1>4, <1>5, <2>1
<1>6. CASE Start(t)
  <2>1. tokens' = [tokens EXCEPT ![t] = <<RootToken>>]
    BY <1>6 DEF Start
  <2>2. \A u \in Threads : tokens'[u] = IF u = t THEN <<RootToken>> ELSE tokens[u]
    BY <1>1, <2>1
  <2>3. FieldsOK(RootToken)
    BY <1>2 DEF RootToken
  <2> QED BY <2>2, <2>3 DEF TokenFields
<1>7. ASSUME NEW e, Reject(t, e) PROVE TokenFields'
  BY <1>3, <1>7 DEF Reject
<1>8. CASE ParseDescendant(t)
  BY <1>2, <1>5, <1>7, <1>8 DEF ParseDescendant
<1>9. CASE ParseWildcard(t)
  BY <1>2, <1>5, <1>9 DEF ParseWildcard
<1>10. CASE ParseDot(t)
  BY <1>2, <1>5, <1>7, <1>10 DEF ParseDot
<1>11. CASE ParseUnmatched(t)
  BY <1>7, <1>11 DEF ParseUnmatched
<1>12. CASE ParseBracket(t)
  <2> DEFINE rest == SubSeq(text[t], pos[t] + 1, Length(t))
             end == Min(ClosingBrackets(rest))
             content == SubSeq(rest, 2, end - 1)
             selectors == Selectors(content)
             failed == {k \in 1..Len(selectors) : selectors[k].kind = "error"}
  <2>1. /\ ClosingBrackets(rest) # {}
        /\ IF failed # {} THEN Reject(t, selectors[Min(failed)].error)
           ELSE Emit(t, Grouped(selectors, nextGroup), pos[t] + end)
    BY <1>12 DEF ParseBracket
  <2>2. content \in Seq(Lexemes)
    <3>1. rest \in Seq(Lexemes)
      BY DEF CompileInv, CompileTypeOK, Length
    <3> HIDE DEF rest
    <3>2. end \in 1..Len(rest)
      BY <2>1, <3>1, ClosingBracket
    <3> HIDE DEF end
    <3> QED BY <3>1, <3>2, ContentOfBracket
  <2> HIDE DEF rest, end, content
  <2>3. /\ IsSequence(selectors)
        /\ \A k \in 1..Len(selectors) : \E s : selectors[k] = SelectorOf(s)
    BY <2>2, SelectorsOfBracket
  <2> HIDE DEF selectors
  <2>4. CASE failed # {}
    BY <1>7, <2>1, <2>4
  <2>5. CASE failed = {}
    <3> DEFINE toks == Grouped(selectors, nextGroup)
    <3>1. Len(selectors) \in Nat
      BY <2>3 DEF IsSequence
    <3>2. ASSUME NEW k \in 1..Len(selectors)
          PROVE  FieldsOK(selectors[k])
      BY <2>3, <2>5, SelectorFields
    <3>3. toks = [k \in 1..Len(selectors) |-> toks[k]]
      BY DEF Grouped
    <3>4. \A k \in 1..Len(selectors) : FieldsOK(toks[k])
      BY <3>2 DEF Grouped, FieldsOK
    <3>5. Emit(t, toks, pos[t] + end)
      BY <2>1, <2>5
    <3> HIDE DEF toks
    <3>6. IsSequence(toks) /\ Len(toks) = Len(selectors)
      BY <3>1, <3>3, BuiltSequence
    <3> QED BY <1>4, <3>4, <3>5, <3>6
  <2> QED BY <2>4, <2>5
<1>13. CASE ParseBare(t)
  BY <1>2, <1>5, <1>13 DEF ParseBare
<1>14. CASE Compiled(t)
  BY <1>3, <1>14 DEF Compiled
<1> QED BY <1>6, <1>8, <1>9, <1>10, <1>11, <1>12, <1>13, <1>14 DEF Compile

(***************************************************************************)
(* The order of a descent                                                  *)
(***************************************************************************)

\* What DescendsInOrder rests on: the tokens have integers for numbers, and every
\* list of the evaluator is one of JSON values.
ListsOfJson ==
  /\ working \in [Threads -> Seq(Json)]
  /\ source \in [Threads -> Seq(Json)]
  /\ stack \in [Threads -> Seq(Json)]
  /\ out \in [Threads -> Seq(Json)]
OrderInv == TokenFields /\ ListsOfJson /\ DescendsInOrder

\* What a descent has emitted and what it has still to emit.
Descent(o, st, src) == o \o PreorderOfAll(Reverse(st)) \o PreorderOfAll(src)

\* At its beginning, that is all there is below the working list.
LEMMA DescentBegins ==
  ASSUME NEW src \in Seq(Json)
  PROVE  Descent(<<>>, <<>>, src) = PreorderOfAll(src)
<1>1. PreorderOfAll(src) \in Seq(Json)
  BY PreorderOfBoth
<1>2. Reverse(<<>>) = <<>>
  BY DEF Reverse
<1>3. <<>> \o PreorderOfAll(src) = PreorderOfAll(src) /\ <<>> \o <<>> = <<>>
  BY <1>1, ConcatEmptySeq
<1> QED BY <1>2, <1>3, PreorderOfNone DEF Descent

\* The next value to start from is put on the stack ...
LEMMA DescentStarts ==
  ASSUME NEW o \in Seq(Json), NEW src \in Seq(Json), src # <<>>
  PROVE  /\ Head(src) \in Json /\ Tail(src) \in Seq(Json)
         /\ Descent(o, <<Head(src)>>, Tail(src)) = Descent(o, <<>>, src)
<1> DEFINE h == Head(src)
           r == Tail(src)
           ph == PreorderOfAll(<<h>>)
           pr == PreorderOfAll(r)
<1>1. h \in Json /\ r \in Seq(Json) /\ src = <<h>> \o r
  BY HeadTailProperties
<1> HIDE DEF h, r
<1>2. <<h>> \in Seq(Json) /\ Reverse(<<h>>) = <<h>> /\ Reverse(<<>>) = <<>>
  <2>1. <<h>> \in Seq(Json)
    BY <1>1
  <2> DEFINE one == <<h>>
             x == Reverse(one)
  <2>2. one \in Seq(Json) /\ Len(one) = 1
    BY <2>1
  <2> HIDE DEF one
  <2>3. x = one
    <3>1. x \in Seq(Json) /\ Len(x) = Len(one) /\ \A n \in 1..Len(one) : x[n] = one[Len(one) - n + 1]
      BY <2>2, ReverseType
    <3> HIDE DEF x
    <3>2. \A n \in 1..1 : 1 - n + 1 = n
      OBVIOUS
    <3>3. \A n \in 1..Len(x) : x[n] = one[n]
      BY <2>2, <3>1, <3>2
    <3> QED BY <2>2, <3>1, <3>3, SeqEqual
  <2>4. Reverse(<<>>) = <<>>
    BY DEF Reverse
  <2> QED BY <2>1, <2>3, <2>4 DEF one
<1>3. PreorderOfAll(src) = ph \o pr /\ ph \in Seq(Json) /\ pr \in Seq(Json)
  BY <1>1, <1>2, PreorderOfBoth
<1> HIDE DEF ph, pr
<1>4. (o \o <<>>) \o (ph \o pr) = (o \o ph) \o pr /\ o \o <<>> = o
  <2>1. o \o <<>> = o
    BY ConcatEmptySeq
  <2>2. (o \o ph) \o pr = o \o (ph \o pr)
    BY <1>3, ConcatAssociative, SMTT(60)
  <2> QED BY <2>1, <2>2
<1>5. Descent(o, <<h>>, r) = (o \o ph) \o pr
  BY <1>2 DEF Descent, ph, pr
<1>6. Descent(o, <<>>, src) = (o \o <<>>) \o (ph \o pr)
  BY <1>2, <1>3, PreorderOfNone DEF Descent
<1> QED BY <1>1, <1>4, <1>5, <1>6 DEF h, r

\* ... and a value that is popped is emitted.
LEMMA DescentPops ==
  ASSUME NEW o \in Seq(Json), NEW st \in Seq(Json), st # <<>>, NEW src \in Seq(Json)
  PROVE  /\ Append(o, Last(st)) \in Seq(Json)
         /\ Pushed(Front(st), Last(st)) \in Seq(Json)
         /\ Descent(Append(o, Last(st)), Pushed(Front(st), Last(st)), src) = Descent(o, st, src)
<1> DEFINE x == Last(st)
           next == Pushed(Front(st), x)
           one == <<x>>
           pn == PreorderOfAll(Reverse(next))
           ps == PreorderOfAll(src)
<1>1. next \in Seq(Json) /\ x \in Json /\ PreorderOfAll(Reverse(st)) = one \o pn
  BY PopKeepsOrder
<1> HIDE DEF x, next
<1>2. one \in Seq(Json) /\ Append(o, x) = o \o one /\ Append(o, x) \in Seq(Json)
  BY <1>1, AppendIsConcat, AppendProperties
<1>3. pn \in Seq(Json) /\ ps \in Seq(Json)
  <2>1. Reverse(next) \in Seq(Json)
    BY <1>1, ReverseType
  <2> QED BY <2>1, PreorderOfBoth
<1> HIDE DEF one
<1>4. Descent(Append(o, x), next, src) = ((o \o one) \o pn) \o ps
  BY <1>2 DEF Descent
<1>5. Descent(o, st, src) = (o \o (one \o pn)) \o ps
  BY <1>1 DEF Descent
<1> HIDE DEF pn, ps
<1>6. (o \o one) \o pn = o \o (one \o pn)
  <2>1. one \in Seq(Json) /\ pn \in Seq(Json)
    BY <1>2, <1>3
  <2> QED BY <2>1, ConcatAssociative, SMTT(60)
<1> QED BY <1>1, <1>2, <1>4, <1>5, <1>6 DEF x, next

\* Every step of an evaluation keeps the lists and the order.
LEMMA EvaluateOrder ==
  ASSUME Inv, OrderInv, NEW t \in Threads, Evaluate(t)
  PROVE  OrderInv'
<1>1. UNCHANGED tokens
  BY DEF Evaluate, EvaluateDefinite, EvaluateStream, ApplyUnion, ApplyBranchUnique, ApplySelector,
         BeginDescent, DescendFrom, PopStack, EndDescent, Finish, Advance, cvars
<1>2. TokenFields'
  BY <1>1 DEF OrderInv, TokenFields
<1>3. /\ phase \in [Threads -> {"idle", "token", "descent", "done"}]
      /\ \A u \in Threads : TokenCount(u) \in Nat /\ i[u] \in Nat
      /\ phase[t] # "descent" => source[t] = <<>> /\ stack[t] = <<>>
  BY DEF Inv, EvalInv, CompileInv, ListsOK, IsSequence, TokenCount
<1> DEFINE Ordered(u) ==
             phase[u] = "descent" => Descent(out[u], stack[u], source[u]) = PreorderOfAll(working[u])
<1>4. DescendsInOrder <=> \A u \in Threads : Ordered(u)
  BY DEF DescendsInOrder, Descent
<1>5. DescendsInOrder' <=> \A u \in Threads : Ordered(u)'
  BY DEF DescendsInOrder, Descent
<1>6. ListsOfJson /\ TokenFields /\ \A u \in Threads : Ordered(u)
  BY <1>4 DEF OrderInv
\* Another thread's evaluation stays as it is.
<1>7. ASSUME ListsOfJson', Ordered(t)',
             \A u \in Threads : u # t =>
               /\ phase'[u] = phase[u] /\ working'[u] = working[u] /\ source'[u] = source[u]
               /\ stack'[u] = stack[u] /\ out'[u] = out[u]
      PROVE  OrderInv'
  <2>1. \A u \in Threads : Ordered(u)'
    BY <1>6, <1>7
  <2> QED BY <1>2, <1>5, <1>7, <2>1 DEF OrderInv
<1> USE DEF ListsOfJson
<1>8. ASSUME UNCHANGED <<working, source, stack, out>>, phase' = [phase EXCEPT ![t] = "done"]
      PROVE  OrderInv'
  BY <1>3, <1>6, <1>7, <1>8
<1>9. CASE EvaluateDefinite(t)
  BY <1>8, <1>9 DEF EvaluateDefinite, Return
<1>10. CASE EvaluateStream(t)
  <2>1. PICK d \in Json : working' = [working EXCEPT ![t] = <<d>>]
    BY <1>10, DocsAssumption DEF EvaluateStream
  <2>2. <<d>> \in Seq(Json)
    OBVIOUS
  <2>3. phase' = [phase EXCEPT ![t] = "token"] /\ UNCHANGED <<source, stack, out>>
    BY <1>10 DEF EvaluateStream
  <2> QED BY <1>3, <1>6, <1>7, <2>1, <2>2, <2>3
<1>11. ASSUME NEW values \in Seq(Json), NEW next, NEW many, phase[t] = "token", Advance(t, values, next, many)
       PROVE  OrderInv'
  <2>1. working' = [working EXCEPT ![t] = values] /\ UNCHANGED <<phase, source, stack, out>>
    BY <1>11 DEF Advance
  <2> QED BY <1>3, <1>6, <1>7, <1>11, <2>1
<1>12. AtToken(t) => /\ phase[t] = "token" /\ i[t] \in Nat /\ i[t] < TokenCount(t) /\ TokenCount(t) \in Nat
                     /\ working[t] \in Seq(Json) /\ FieldsOK(TokenAt(t, i[t]))
  BY <1>3, <1>6, FieldsAt DEF AtToken
<1>13. CASE ApplyUnion(t)
  <2>1. UnionOf(t, i[t], working[t]) \in Seq(Json)
    BY <1>6, <1>12, <1>13, UnionType DEF ApplyUnion
  <2> QED BY <1>11, <1>12, <1>13, <2>1 DEF ApplyUnion
<1>14. CASE ApplyBranchUnique(t)
  <2>1. BranchUnique(t, i[t], working[t]) \in Seq(Json)
    BY <1>12, <1>14, BranchUniqueType DEF ApplyBranchUnique
  <2> QED BY <1>11, <1>12, <1>14, <2>1 DEF ApplyBranchUnique
<1>15. CASE ApplySelector(t)
  <2>1. FanOut(TokenAt(t, i[t]), working[t]) \in Seq(Json)
    BY <1>12, <1>15, FanOutType DEF ApplySelector
  <2> QED BY <1>11, <1>12, <1>15, <2>1 DEF ApplySelector
<1>16. CASE BeginDescent(t)
  <2>1. phase[t] = "token" /\ source[t] = <<>> /\ stack[t] = <<>>
    BY <1>3, <1>12, <1>16 DEF BeginDescent
  <2>2. /\ phase' = [phase EXCEPT ![t] = "descent"] /\ source' = [source EXCEPT ![t] = working[t]]
        /\ out' = [out EXCEPT ![t] = <<>>] /\ UNCHANGED <<working, stack>>
    BY <1>16 DEF BeginDescent
  <2>3. ListsOfJson' /\ out'[t] = <<>> /\ stack'[t] = <<>> /\ source'[t] = working[t] /\ working'[t] = working[t]
    BY <1>6, <2>1, <2>2
  <2>4. Descent(<<>>, <<>>, working[t]) = PreorderOfAll(working[t])
    BY <1>6, DescentBegins
  <2>5. Ordered(t)'
    BY <2>3, <2>4
  <2> QED BY <1>3, <1>6, <1>7, <2>2, <2>3, <2>5
<1>17. CASE DescendFrom(t)
  <2>1. phase[t] = "descent" /\ stack[t] = <<>> /\ source[t] # <<>>
    BY <1>17 DEF DescendFrom, Descending
  <2>2. /\ stack' = [stack EXCEPT ![t] = <<Head(source[t])>>] /\ source' = [source EXCEPT ![t] = Tail(source[t])]
        /\ UNCHANGED <<phase, working, out>>
    BY <1>17 DEF DescendFrom
  <2>3. /\ Head(source[t]) \in Json /\ Tail(source[t]) \in Seq(Json)
        /\ Descent(out[t], <<Head(source[t])>>, Tail(source[t])) = Descent(out[t], <<>>, source[t])
    BY <1>6, <2>1, DescentStarts
  <2>4. /\ ListsOfJson' /\ stack'[t] = <<Head(source[t])>> /\ source'[t] = Tail(source[t])
        /\ out'[t] = out[t] /\ working'[t] = working[t]
    BY <1>6, <2>2, <2>3
  <2>5. Ordered(t)'
    BY <1>6, <2>1, <2>3, <2>4
  <2> QED BY <1>3, <1>6, <1>7, <2>2, <2>4, <2>5
<1>18. CASE PopStack(t)
  <2> DEFINE o == Append(out[t], Last(stack[t]))
             s == Pushed(Front(stack[t]), Last(stack[t]))
  <2>1. phase[t] = "descent" /\ stack[t] # <<>>
    BY <1>18 DEF PopStack, Descending
  <2>2. out' = [out EXCEPT ![t] = o] /\ stack' = [stack EXCEPT ![t] = s] /\ UNCHANGED <<phase, working, source>>
    BY <1>18 DEF PopStack
  <2>3. o \in Seq(Json) /\ s \in Seq(Json) /\ Descent(o, s, source[t]) = Descent(out[t], stack[t], source[t])
    BY <1>6, <2>1, DescentPops
  <2> HIDE DEF o, s
  <2>4. /\ ListsOfJson' /\ out'[t] = o /\ stack'[t] = s /\ source'[t] = source[t] /\ working'[t] = working[t]
    BY <1>6, <2>2, <2>3
  <2>5. Ordered(t)'
    BY <1>6, <2>1, <2>3, <2>4
  <2> QED BY <1>3, <1>6, <1>7, <2>2, <2>4, <2>5
<1>19. CASE EndDescent(t)
  <2>1. /\ phase' = [phase EXCEPT ![t] = "token"] /\ working' = [working EXCEPT ![t] = out[t]]
        /\ UNCHANGED <<source, stack, out>>
    BY <1>19 DEF EndDescent
  <2> QED BY <1>3, <1>6, <1>7, <2>1
<1>20. CASE Finish(t)
  BY <1>8, <1>20 DEF Finish, Return
<1> QED BY <1>9, <1>10, <1>13, <1>14, <1>15, <1>16, <1>17, <1>18, <1>19, <1>20 DEF Evaluate

LEMMA OrderInit == Init => OrderInv
<1> SUFFICES ASSUME Init PROVE OrderInv
  OBVIOUS
<1>1. TokenFields
  BY DEF Init, CompileInit, TokenFields
<1>2. <<>> \in Seq(Json)
  OBVIOUS
<1>3. ListsOfJson /\ DescendsInOrder
  BY <1>2 DEF Init, EvalInit, ListsOfJson, DescendsInOrder
<1> QED BY <1>1, <1>3 DEF OrderInv

LEMMA OrderNext == Inv /\ OrderInv /\ [Next]_vars => OrderInv'
<1> SUFFICES ASSUME Inv, OrderInv, [Next]_vars PROVE OrderInv'
  OBVIOUS
<1>1. ASSUME NEW t \in Threads, Compile(t), UNCHANGED evars PROVE OrderInv'
  <2>1. TokenFields'
    BY <1>1, CompileFields DEF Inv, OrderInv
  <2>2. ListsOfJson' /\ DescendsInOrder'
    BY <1>1 DEF OrderInv, ListsOfJson, DescendsInOrder, evars
  <2> QED BY <2>1, <2>2 DEF OrderInv
<1>2. ASSUME NEW t \in Threads, Evaluate(t) PROVE OrderInv'
  BY <1>2, EvaluateOrder
<1>3. CASE UNCHANGED vars
  BY <1>3 DEF OrderInv, TokenFields, ListsOfJson, DescendsInOrder, vars, cvars, evars
<1> QED BY <1>1, <1>2, <1>3 DEF Next

\* A descent emits every value once and in document order, whatever the document
\* and the path before it (RecursiveDescent::evaluateAll).
THEOREM DescentInOrder == Spec => []DescendsInOrder
<1>1. Inv /\ OrderInv /\ [Next]_vars => (Inv /\ OrderInv)'
  BY InvNext, OrderNext
<1>2. Spec => [](Inv /\ OrderInv)
  BY InvInit, OrderInit, <1>1, PTL DEF Spec
<1>3. Inv /\ OrderInv => DescendsInOrder
  BY DEF OrderInv
<1> QED BY <1>2, <1>3, PTL

=============================================================================
