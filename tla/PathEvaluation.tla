---------------------------- MODULE PathEvaluation ----------------------------
(***************************************************************************)
(* JSONPath::evaluate and evaluateSingle on a compiled path: the tokens    *)
(* are applied from left to right to a working list of values.  A thread   *)
(* compiles its path and evaluates it once.                                *)
(*                                                                         *)
(* A token other than ".." takes one step.  A ".." runs the iterative      *)
(* descent of RecursiveDescent on every value of the list, one pop of its  *)
(* stack at a time.                                                        *)
(***************************************************************************)
EXTENDS PathCompile, Descendants

CONSTANT
  Docs   \* the documents each thread may evaluate its path on

ASSUME DocsAssumption == DOMAIN Docs = Threads /\ \A t \in Threads : Docs[t] \subseteq Json

VARIABLES
  phase,     \* where the evaluation is
  api,       \* the function called: evaluate or evaluateSingle
  doc,       \* the document
  i,         \* 0-based index of the next token
  working,   \* the working list
  multi,     \* a token that may select several values was applied
  source,    \* ".." : the values the descent has still to start from
  stack,     \* ".." : RecursiveDescent's stack; its last element is on top
  out,       \* ".." : the values found so far
  result     \* the value returned

evars == <<phase, api, doc, i, working, multi, source, stack, out, result>>
vars == <<cvars, evars>>

Apis == {"evaluate", "evaluateSingle"}

-----------------------------------------------------------------------------
(* Helpers of the evaluator *)

TokenAt(t, n) == tokens[t][n + 1]
TokenCount(t) == Len(tokens[t])

\* The values that every element of values contributes, one after the other.
FanOut(tk, values) == FlattenSeq([n \in 1..Len(values) |-> Selected(tk, values[n])])

\* Mutant: a value in place of one that is missing.
DefiniteOrNull(toks, root) ==
  LET Step(cur, tk) == LET found == Selected(tk, cur)
                       IN IF found = <<>> THEN Null ELSE found[1]
  IN FoldLeft(Step, root, Tail(toks))

\* evaluateDefiniteValue: Undefined if a key or an index is missing
DefiniteValue(toks, root) ==
  LET Step(cur, tk) == LET found == Selected(tk, cur)
                       IN IF found = <<>> THEN Undefined ELSE found[1]
  IN FoldLeft(Step, root, Tail(toks))

\* detectUnionTokens: the selectors from token n on, up to the first token that
\* is none ...
SelectorRun(t, n) ==
  LET stop == Min({m \in n + 1..TokenCount(t) : m = TokenCount(t) \/ ~IsSelectorToken(TokenAt(t, m))})
  IN n..stop - 1

\* ... which are a union if they are two or more, all of one group.
IsUnion(t, n) ==
  LET run == SelectorRun(t, n)
  IN /\ IsSelectorToken(TokenAt(t, n)) /\ Cardinality(run) > 1 /\ TokenAt(t, n).group > 0
     /\ \A m \in run : TokenAt(t, m).group = TokenAt(t, n).group

\* processUnionTokens: selector by selector, each applied to the whole list
UnionOf(t, n, values) ==
  LET run == SelectorRun(t, n)
  IN FlattenSeq([m \in 1..Cardinality(run) |-> FanOut(TokenAt(t, n + m - 1), values)])

\* collectKeysFromTokens: the run of keys from token n on
KeyRunEnd(t, n) ==
  Min({m \in n..TokenCount(t) : m = TokenCount(t) \/ TokenAt(t, m).kind # "Key"})

\* processBranchUniqueSelection: a leaf selects the value of its only key, or
\* the objects with all its keys; otherwise every key is selected from every object.
BranchUnique(t, n, values) ==
  LET run == [m \in 1..KeyRunEnd(t, n) - n |-> TokenAt(t, n + m - 1)]
      HasAll(v) == IsObject(v) /\ \A m \in 1..Len(run) : HasMember(v, run[m].key)
      isLeaf == n + 1 = TokenCount(t)
      From(v) == IF isLeaf /\ Len(run) > 1 THEN IF HasAll(v) THEN <<v>> ELSE <<>>
                 ELSE FlattenSeq([m \in 1..Len(run) |-> SelectKey(run[m], v)])
  IN FlattenSeq([m \in 1..Len(values) |-> From(values[m])])

Squash(nodes, many) == IF many \/ Len(nodes) # 1 THEN Array(nodes) ELSE nodes[1]

Numbers(v) == {e \in Children(v) : e.kind = "double"}

ApplyTrailing(f, v) ==
  IF f = "None" THEN v
  ELSE IF f = "Length"
  THEN Num(IF IsArray(v) THEN Size(v) ELSE IF IsObject(v) THEN Cardinality(DOMAIN v.members) ELSE 0)
  ELSE IF ~IsArray(v) \/ Numbers(v) = {} THEN Undefined
  ELSE CHOOSE best \in Numbers(v) :
         \A e \in Numbers(v) : IF f = "Min" THEN best.num <= e.num ELSE best.num >= e.num

\* detail::evaluate and detail::evaluateSingle, on the final node list
Returned(t, call, nodes, many) ==
  LET value == ApplyTrailing(func[t], Squash(nodes, many))
  IN IF call = "evaluateSingle" THEN value
     ELSE IF func[t] = "None" THEN Array(nodes)
     ELSE IF IsUndefined(value) \/ IsNull(value) THEN EmptyArray
     ELSE Array(<<value>>)

-----------------------------------------------------------------------------

EvalInit ==
  /\ phase = [t \in Threads |-> "idle"]
  /\ api = [t \in Threads |-> "evaluate"]
  /\ doc = [t \in Threads |-> Null]
  /\ i = [t \in Threads |-> 0]
  /\ working = [t \in Threads |-> <<>>]
  /\ multi = [t \in Threads |-> FALSE]
  /\ source = [t \in Threads |-> <<>>]
  /\ stack = [t \in Threads |-> <<>>]
  /\ out = [t \in Threads |-> <<>>]
  /\ result = [t \in Threads |-> Undefined]

Init == CompileInit /\ EvalInit

Return(t, call, nodes, many) ==
  /\ phase' = [phase EXCEPT ![t] = "done"]
  /\ result' = [result EXCEPT ![t] = Returned(t, call, nodes, many)]
  /\ UNCHANGED <<i, working, multi, source, stack, out>>

\* The path is definite: one value or none, looked up directly.  (With a trailing
\* function evaluateTokenStream finds the same in evaluateDefinite; a missing
\* value is an empty array for evaluateSingle, too.)
EvaluateDefinite(t) ==
  /\ status[t] = "compiled" /\ phase[t] = "idle" /\ Definite(tokens[t])
  /\ \E d \in Docs[t], a \in Apis :
       LET found == DefiniteValue(tokens[t], d)
       IN /\ doc' = [doc EXCEPT ![t] = d]
          /\ api' = [api EXCEPT ![t] = a]
          /\ Return(t, a, IF IsUndefined(found) THEN <<>> ELSE <<found>>, FALSE)
  /\ UNCHANGED cvars

\* evaluateTokenStream, up to its loop
EvaluateStream(t) ==
  /\ status[t] = "compiled" /\ phase[t] = "idle" /\ ~Definite(tokens[t])
  /\ \E d \in Docs[t], a \in Apis :
       /\ doc' = [doc EXCEPT ![t] = d]
       /\ api' = [api EXCEPT ![t] = a]
       /\ working' = [working EXCEPT ![t] = <<d>>]
  /\ i' = [i EXCEPT ![t] = 1]
  /\ phase' = [phase EXCEPT ![t] = "token"]
  /\ UNCHANGED <<cvars, multi, source, stack, out, result>>

AtToken(t) == phase[t] = "token" /\ working[t] # <<>> /\ i[t] < TokenCount(t)
AfterDescent(t) == TokenAt(t, i[t] - 1).kind = "Recursive"

\* The token, or run of tokens, before token next leaves values behind.
Advance(t, values, next, many) ==
  /\ working' = [working EXCEPT ![t] = values]
  /\ i' = [i EXCEPT ![t] = next]
  /\ multi' = [multi EXCEPT ![t] = @ \/ many]
  /\ UNCHANGED <<cvars, phase, api, doc, source, stack, out, result>>

ApplyUnion(t) ==
  LET run == SelectorRun(t, i[t])
  IN /\ AtToken(t) /\ IsUnion(t, i[t])
     /\ Advance(t, UnionOf(t, i[t], working[t]), i[t] + Cardinality(run),
                \E m \in run : AddsMultiplicity(TokenAt(t, m)))

\* The loop's increment comes on top of the end of the run.
ApplyBranchUnique(t) ==
  /\ AtToken(t) /\ ~IsUnion(t, i[t])
  /\ AfterDescent(t) /\ TokenAt(t, i[t]).kind = "Key"
  /\ Advance(t, BranchUnique(t, i[t], working[t]), KeyRunEnd(t, i[t]) + 1, FALSE)

ApplySelector(t) ==
  /\ AtToken(t) /\ IsSelectorToken(TokenAt(t, i[t])) /\ ~IsUnion(t, i[t])
  /\ ~(AfterDescent(t) /\ TokenAt(t, i[t]).kind = "Key")
  /\ Advance(t, FanOut(TokenAt(t, i[t]), working[t]), i[t] + 1,
             AddsMultiplicity(TokenAt(t, i[t])))

Descending(t) == phase[t] = "descent"

BeginDescent(t) ==
  /\ AtToken(t) /\ TokenAt(t, i[t]).kind = "Recursive"
  /\ phase' = [phase EXCEPT ![t] = "descent"]
  /\ source' = [source EXCEPT ![t] = working[t]]
  /\ out' = [out EXCEPT ![t] = <<>>]
  /\ UNCHANGED <<cvars, api, doc, i, working, multi, stack, result>>

\* evaluateAll: the stack is cleared and the next value pushed ...
DescendFrom(t) ==
  /\ Descending(t) /\ stack[t] = <<>> /\ source[t] # <<>>
  /\ stack' = [stack EXCEPT ![t] = <<Head(source[t])>>]
  /\ source' = [source EXCEPT ![t] = Tail(@)]
  /\ UNCHANGED <<cvars, phase, api, doc, i, working, multi, out, result>>

\* Mutant: the children are pushed first to last.
PushedInOrder(rest, v) == rest \o ChildValues(v)

\* ... and each value popped is emitted and replaced by its children.
Pushed(rest, v) == rest \o Reverse(ChildValues(v))

PopStack(t) ==
  /\ Descending(t) /\ stack[t] # <<>>
  /\ out' = [out EXCEPT ![t] = Append(@, Last(stack[t]))]
  /\ stack' = [stack EXCEPT ![t] = Pushed(Front(@), Last(@))]
  /\ UNCHANGED <<cvars, phase, api, doc, i, working, multi, source, result>>

EndDescent(t) ==
  /\ Descending(t) /\ stack[t] = <<>> /\ source[t] = <<>>
  /\ phase' = [phase EXCEPT ![t] = "token"]
  /\ working' = [working EXCEPT ![t] = out[t]]
  /\ i' = [i EXCEPT ![t] = @ + 1]
  /\ multi' = [multi EXCEPT ![t] = TRUE]
  /\ UNCHANGED <<cvars, api, doc, source, stack, out, result>>

\* Past the last token, or with nothing left; then multi does not matter.
Finish(t) ==
  /\ phase[t] = "token"
  /\ working[t] = <<>> \/ i[t] >= TokenCount(t)
  /\ Return(t, api[t], working[t], multi[t])
  /\ UNCHANGED <<cvars, api, doc>>

Evaluate(t) ==
  \/ EvaluateDefinite(t) \/ EvaluateStream(t)
  \/ ApplyUnion(t) \/ ApplyBranchUnique(t) \/ ApplySelector(t)
  \/ BeginDescent(t) \/ DescendFrom(t) \/ PopStack(t) \/ EndDescent(t)
  \/ Finish(t)

Next == \E t \in Threads : (Compile(t) /\ UNCHANGED evars) \/ Evaluate(t)

Spec == Init /\ [][Next]_vars

-----------------------------------------------------------------------------

\* The loop counters stay in range, the buffers of the descent are used by the
\* descent only, and a call returns only once its path is compiled.
TypeOK ==
  /\ CompileTypeOK
  /\ phase \in [Threads -> {"idle", "token", "descent", "done"}]
  /\ api \in [Threads -> Apis]
  /\ i \in [Threads -> Nat]
  /\ multi \in [Threads -> BOOLEAN]
  /\ \A t \in Threads :
       /\ phase[t] # "idle" => status[t] = "compiled"
       /\ phase[t] \in {"token", "descent"} => i[t] \in 1..TokenCount(t) + 1
       /\ phase[t] # "descent" => source[t] = <<>> /\ stack[t] = <<>>

\* The descent emits every value once and in document order: at any moment, what
\* it has emitted, what is on its stack and what it has still to start from make
\* up the descendants of the working list (RecursiveDescent::evaluateAll).
DescendsInOrder ==
  \A t \in Threads :
    phase[t] = "descent" =>
      out[t] \o PreorderOfAll(Reverse(stack[t])) \o PreorderOfAll(source[t]) = PreorderOfAll(working[t])

=============================================================================
