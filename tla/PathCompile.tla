----------------------------- MODULE PathCompile -----------------------------
(***************************************************************************)
(* JSONPath::create: threads compile path texts to tokens at the same      *)
(* time.  All they share is the counter that numbers bracket groups; the   *)
(* evaluator takes neighbouring tokens of one group for a union.           *)
(*                                                                         *)
(* A text is a sequence of lexemes, the units the parser tells apart: one  *)
(* for each structural character and each character between quotes, and    *)
(* one for an integer literal, a name or a trailing function.  White space *)
(* and braces are left out, and of the filters all but the existence test  *)
(* of one member: the others are in FilterCompile.                         *)
(***************************************************************************)
EXTENDS PathTokens, PathScan, QuotedNames

CONSTANTS
  Threads,
  Texts,      \* the texts the threads may compile, one for each thread
  MaxGroups   \* bound on the bracket groups of all texts together

Lexemes == STRING \ {"end"}   \* "end" stands for the end of a text

ASSUME TextsAssumption == Texts \subseteq [Threads -> Seq(Lexemes)]
ASSUME GroupsAssumption == MaxGroups \in Nat /\ MaxGroups <= IntMax

VARIABLES
  text,       \* the text, without its trailing function
  func,       \* the trailing function
  pos,        \* 0-based position of the parser
  tokens,     \* the tokens emitted so far
  origin,     \* history: the position at which the parser emitted each of them
  status,     \* where the call is, or the error it returned
  nextGroup   \* nextBracketGroupId, shared by all threads

cvars == <<text, func, pos, tokens, origin, status, nextGroup>>

ParseErrors ==
  {"EmptySegment", "MissingRoot", "UnexpectedAfterRoot", "TrailingRecursive", "TrailingDot",
   "InvalidIdentifier", "UnmatchedBracket", "UnsupportedFilter", "InvalidIndex", "InvalidSlice"}
FunctionTypes == {"None", "Length", "Min", "Max"}

RootToken == KeyToken(<<"$">>, 0)

\* JSONPathImpl::definite: every selector after $ is a key or an index, and no
\* two neighbours are of one bracket group.
Definite(toks) ==
  \A j \in 2..Len(toks) :
    /\ toks[j].kind \in {"Key", "Index"}
    /\ (toks[j].group > 0 /\ j < Len(toks)) => toks[j + 1].group # toks[j].group

-----------------------------------------------------------------------------
(* The rules of EmbeddedBracketRuleDispatcher.  A selector is a token       *)
(* without its group, or the error the rule's handler returns.              *)

Error(e) == [kind |-> "error", error |-> e]

IsLiteral(s) == Len(s) = 1 /\ s[1] \in DOMAIN Literals /\ IsSafe(Literals[s[1]])
LiteralOf(s) == Literals[s[1]]

\* compileEmbeddedContextFilter, for the one filter modelled
FilterSelector(expr) ==
  LET inner == IF Len(expr) >= 2 /\ expr[1] = "(" /\ Last(expr) = ")"
               THEN SubSeq(expr, 2, Len(expr) - 1) ELSE expr
  IN IF Len(inner) = 3 /\ inner[1] = "@" /\ inner[2] = "." /\ inner[3] \in Letters
     THEN [PlainToken("Filter") EXCEPT !.key = <<inner[3]>>]
     ELSE Error("UnsupportedFilter")

\* makeSlice: two or three parts, each a literal or left out
SliceParts(s) == SplitAt(s, {n \in 1..Len(s) : s[n] = ":"})
IsSlice(s) ==
  LET parts == SliceParts(s)
  IN Len(parts) \in {2, 3} /\ \A k \in 1..Len(parts) : parts[k] = <<>> \/ IsLiteral(parts[k])
SliceSelector(s) ==
  LET parts == SliceParts(s)
      Part(k, default) ==
        IF k > Len(parts) \/ parts[k] = <<>> THEN default ELSE SlicePart(LiteralOf(parts[k]))
  IN [PlainToken("Slice") EXCEPT
        !.slice = [start |-> Part(1, Omitted), end |-> Part(2, Omitted), step |-> Part(3, 1)]]

IsQuoted(s) == s # <<>> /\ s[1] \in Quotes /\ Last(s) = s[1]
QuotedSelector(s) ==
  LET content == SubSeq(s, 2, Len(s) - 1)
  IN IF Len(s) < 2 \/ ~IsValidQuotedKey(content, s[1]) THEN Error("InvalidSlice")
     ELSE KeyToken(UnescapeQuotedKey(content), 0)

\* processSegmentExcludingUnion: the first rule that matches decides.  Every
\* segment with a comma in it matches index_list, which takes no such segment.
SelectorOf(s) ==
  IF s # <<>> /\ s[1] = "?" THEN FilterSelector(Tail(s))
  ELSE IF s = <<"*">> THEN PlainToken("Wildcard")
  ELSE IF \E n \in 1..Len(s) : s[n] = "," THEN Error("InvalidIndex")
  ELSE IF IsLiteral(s) THEN [PlainToken("Index") EXCEPT !.index = ClampIndex(LiteralOf(s))]
  ELSE IF IsSlice(s) THEN SliceSelector(s)
  ELSE IF IsQuoted(s) THEN QuotedSelector(s)
  ELSE Error("InvalidIdentifier")

\* dispatch: union_comma first
Selectors(content) ==
  IF HasUnionComma(content)
  THEN LET segments == SplitAt(content, UnionCuts(content))
       IN [k \in 1..Len(segments) |-> SelectorOf(segments[k])]
  ELSE <<SelectorOf(content)>>

\* EmbeddedBracketSink: the tokens of a bracket all get its group.
Grouped(selectors, group) ==
  [k \in 1..Len(selectors) |->
     [kind |-> selectors[k].kind, key |-> selectors[k].key, index |-> selectors[k].index,
      slice |-> selectors[k].slice, group |-> group]]

-----------------------------------------------------------------------------
(* The call *)

Length(t) == Len(text[t])
At(t, p) == IF p < Length(t) THEN text[t][p + 1] ELSE "end"

CompileInit ==
  /\ text \in Texts
  /\ func = [t \in Threads |-> "None"]
  /\ pos = [t \in Threads |-> 0]
  /\ tokens = [t \in Threads |-> <<>>]
  /\ origin = [t \in Threads |-> <<>>]
  /\ status = [t \in Threads |-> "called"]
  /\ nextGroup = 1

\* detectTrailingFunction
FunctionOf(s) ==
  IF s = <<>> THEN "None"
  ELSE CASE Last(s) = ".length()" -> "Length"
         [] Last(s) = ".min()" -> "Min"
         [] Last(s) = ".max()" -> "Max"
         [] OTHER -> "None"

\* compile, and compilePath up to its loop
Start(t) ==
  LET f == FunctionOf(text[t])
      path == IF f = "None" THEN text[t] ELSE Front(text[t])
  IN /\ status[t] = "called"
     /\ func' = [func EXCEPT ![t] = f]
     /\ text' = [text EXCEPT ![t] = path]
     /\ status' = [status EXCEPT ![t] =
                     IF path = <<>> THEN "EmptySegment"
                     ELSE IF path[1] # "$" THEN "MissingRoot"
                     ELSE IF Len(path) > 1 /\ path[2] \notin {".", "["} THEN "UnexpectedAfterRoot"
                     ELSE "compiling"]
     /\ pos' = [pos EXCEPT ![t] = 1]
     /\ tokens' = [tokens EXCEPT ![t] = <<RootToken>>]
     /\ origin' = [origin EXCEPT ![t] = <<0>>]
     /\ UNCHANGED nextGroup

Compiling(t) == status[t] = "compiling" /\ pos[t] < Length(t)

Reject(t, error) ==
  /\ status' = [status EXCEPT ![t] = error]
  /\ UNCHANGED <<text, func, pos, tokens, origin>>

\* The tokens toks, with which the parser moves to position p.
Emit(t, toks, p) ==
  /\ tokens' = [tokens EXCEPT ![t] = @ \o toks]
  /\ origin' = [origin EXCEPT ![t] = @ \o [k \in 1..Len(toks) |-> pos[t]]]
  /\ pos' = [pos EXCEPT ![t] = p]
  /\ UNCHANGED <<text, func, status>>

\* Bare segments and names begin at p and end before the next "." or "[".
NameEnd(t, p) == Min({n \in p..Length(t) : At(t, n) \in {".", "[", "end"}})
Name(t, p) == SubSeq(text[t], p + 1, NameEnd(t, p))

IsDigits(c) == c \in DOMAIN Literals /\ Literals[c] >= 0
IsIdentifier(name) ==
  name[1] \in Letters /\ \A n \in 2..Len(name) : name[n] \in Letters \/ IsDigits(name[n])

\* ".." begins a descendant segment.
IsDescendant(t) == At(t, pos[t]) = "." /\ At(t, pos[t] + 1) = "."

ParseDescendant(t) ==
  /\ Compiling(t) /\ IsDescendant(t)
  /\ IF pos[t] + 2 >= Length(t) THEN Reject(t, "TrailingRecursive")
     ELSE Emit(t, <<PlainToken("Recursive")>>, pos[t] + 2)
  /\ UNCHANGED nextGroup

ParseWildcard(t) ==
  /\ Compiling(t) /\ At(t, pos[t]) = "*"
  /\ Emit(t, <<PlainToken("Wildcard")>>, pos[t] + 1)
  /\ UNCHANGED nextGroup

\* parseDot
ParseDot(t) ==
  LET p == pos[t] + 1
  IN /\ Compiling(t) /\ At(t, pos[t]) = "." /\ ~IsDescendant(t)
     /\ IF p >= Length(t) THEN Reject(t, "TrailingDot")
        ELSE IF At(t, p) = "*" THEN Emit(t, <<PlainToken("Wildcard")>>, p + 1)
        ELSE IF At(t, p) = "[" THEN Reject(t, "EmptySegment")
        ELSE IF ~IsIdentifier(Name(t, p)) THEN Reject(t, "InvalidIdentifier")
        ELSE Emit(t, <<KeyToken(Name(t, p), 0)>>, NameEnd(t, p))
     /\ UNCHANGED nextGroup

\* parseEmbeddedBracket, without and with a closing bracket.  The number of the
\* group is taken, with an atomic fetch_add, even when a rule then fails.
ParseUnmatched(t) ==
  /\ Compiling(t) /\ At(t, pos[t]) = "["
  /\ ClosingBrackets(SubSeq(text[t], pos[t] + 1, Length(t))) = {}
  /\ Reject(t, "UnmatchedBracket")
  /\ UNCHANGED nextGroup

\* Mutant: the number of the group is not advanced.
NextGroupStays(group) == group

NextGroup(group) == group + 1

ParseBracket(t) ==
  LET rest == SubSeq(text[t], pos[t] + 1, Length(t))
      end == Min(ClosingBrackets(rest))
      selectors == Selectors(SubSeq(rest, 2, end - 1))
      failed == {k \in 1..Len(selectors) : selectors[k].kind = "error"}
  IN /\ Compiling(t) /\ At(t, pos[t]) = "["
     /\ ClosingBrackets(rest) # {}
     /\ nextGroup <= MaxGroups
     /\ nextGroup' = NextGroup(nextGroup)
     /\ IF failed # {} THEN Reject(t, selectors[Min(failed)].error)
        ELSE Emit(t, Grouped(selectors, nextGroup), pos[t] + end)

\* parseBare: whatever is left, unvalidated
ParseBare(t) ==
  /\ Compiling(t) /\ At(t, pos[t]) \notin {".", "[", "*"}
  /\ Emit(t, <<KeyToken(Name(t, pos[t]), 0)>>, NameEnd(t, pos[t]))
  /\ UNCHANGED nextGroup

Compiled(t) ==
  /\ status[t] = "compiling" /\ pos[t] >= Length(t)
  /\ status' = [status EXCEPT ![t] = "compiled"]
  /\ UNCHANGED <<text, func, pos, tokens, origin, nextGroup>>

Compile(t) ==
  \/ Start(t) \/ ParseDescendant(t) \/ ParseWildcard(t) \/ ParseDot(t)
  \/ ParseUnmatched(t) \/ ParseBracket(t) \/ ParseBare(t) \/ Compiled(t)

CompileSpec == CompileInit /\ [][\E t \in Threads : Compile(t)]_cvars

-----------------------------------------------------------------------------

\* The counters and the tokens of every call are well formed.
CompileTypeOK ==
  /\ text \in [Threads -> Seq(Lexemes)]
  /\ func \in [Threads -> FunctionTypes]
  /\ pos \in [Threads -> Nat]
  /\ \A t \in Threads : Len(origin[t]) = Len(tokens[t])
  /\ status \in [Threads -> {"called", "compiling", "compiled"} \cup ParseErrors]
  /\ nextGroup \in 1..MaxGroups + 1

\* Two tokens of one path have the same group exactly if the parser emitted them
\* for the same bracket, whatever the other threads compile meanwhile: otherwise
\* two segments would be taken for one union (fetch_add in parseEmbeddedBracket).
GroupsApart ==
  \A t \in Threads : \A j, k \in 1..Len(tokens[t]) :
    tokens[t][j].group > 0 =>
      (tokens[t][j].group = tokens[t][k].group <=> origin[t][j] = origin[t][k])

=============================================================================
