------------------------------ MODULE PointerOps ------------------------------
(***************************************************************************)
(* JSON Pointer tokens, what one loop iteration of the evaluator and of    *)
(* the writer decides, and the two walks as functions of their arguments.  *)
(* The per-iteration operators are shared with module JSONPointer, which   *)
(* runs the same loops one iteration per step; EvaluatePointer and         *)
(* WritePointer say what a whole call computes, level by level.            *)
(***************************************************************************)
EXTENDS JsonValue

CONSTANT U16Max   \* the largest std::uint16_t: 65535 in the code, smaller in a model

ASSUME U16MaxAssumption == U16Max \in Nat \ {0}

NoError == "none"

\* An error as the library reports it: code and Error::detail.
Failure(code, detail) == [ok |-> FALSE, code |-> code, detail |-> detail]
Success(value) == [ok |-> TRUE, value |-> value]

-----------------------------------------------------------------------------
(* Tokens: kind Index additionally carries the number; key is always the   *)
(* decoded text, so that every token can name an object member.            *)

TokenType == [kind : {"Key", "Index"}, index : Nat, key : STRING]

Token(kind, index, key) == [kind |-> kind, index |-> index, key |-> key]

IsIndex(tk) == tk.kind = "Index"

IsAppendToken(tk) == tk.kind = "Key" /\ tk.key = "-"

\* What JSONPointer::to_string writes for the token (escaping is injective
\* and left out): an Index token is re-encoded from its number.
CanonicalText(tk) == IF IsIndex(tk) THEN ToString(tk.index) ELSE tk.key

-----------------------------------------------------------------------------
(* One iteration of evaluatePointerImpl *)

\* The error of applying tk inside current, or NoError.
EvalStepError(current, tk) ==
  CASE IsObject(current) ->
         IF HasMember(current, tk.key) THEN NoError ELSE "KeyNotFound"
    [] IsArray(current) ->
         IF ~IsIndex(tk) THEN "TypeMismatchArray"
         ELSE IF tk.index < Size(current) THEN NoError ELSE "IndexOutOfRange"
    [] OTHER -> "TypeMismatchObject"

\* stepObject / stepArray: the child that tk addresses.
EvalStep(current, tk) ==
  IF IsObject(current) THEN current.members[tk.key] ELSE ElementAt(current, tk.index)

-----------------------------------------------------------------------------
(* One iteration of writePointer *)

WriteOps == {"Add", "Replace", "Remove"}

MakeCreatedContainer(tk) ==
  IF (IsIndex(tk) /\ tk.index = 0) \/ IsAppendToken(tk) THEN EmptyArray ELSE EmptyObject

\* The container an iteration works on: a JSON null counts as absent when
\* intermediates may be created.
Materialise(current, tk, create) ==
  IF IsNull(current) /\ create THEN MakeCreatedContainer(tk) ELSE current

\* PathStep::resolvedIndex: the array position tk denotes, -1 for a member.
ResolvedIndex(cur, tk) ==
  IF IsObject(cur) THEN -1 ELSE IF IsIndex(tk) THEN tk.index ELSE Size(cur)

Exists(cur, tk) ==
  IF IsObject(cur) THEN HasMember(cur, tk.key) ELSE ResolvedIndex(cur, tk) < Size(cur)

\* The error of descending through tk (an inner token), or NoError.
DescendError(cur, tk, create) ==
  CASE IsObject(cur) -> IF Exists(cur, tk) \/ create THEN NoError ELSE "KeyNotFound"
    [] IsArray(cur) ->
         IF ~IsIndex(tk) /\ ~IsAppendToken(tk) THEN "TypeMismatchArray"
         ELSE IF Exists(cur, tk) \/ (create /\ ResolvedIndex(cur, tk) = Size(cur))
              THEN NoError
              ELSE "IndexOutOfRange"
    [] OTHER -> "TypeMismatchObject"

\* The error of applying op at tk (the last token), or NoError.
LeafError(cur, tk, op) ==
  CASE IsObject(cur) -> IF op = "Add" \/ Exists(cur, tk) THEN NoError ELSE "KeyNotFound"
    [] IsArray(cur) ->
         IF ~IsIndex(tk) /\ ~IsAppendToken(tk) THEN "TypeMismatchArray"
         ELSE IF Exists(cur, tk) \/ (op = "Add" /\ ResolvedIndex(cur, tk) = Size(cur))
              THEN NoError
              ELSE "IndexOutOfRange"
    [] OTHER -> "TypeMismatchObject"

\* The value the next iteration sees below tk.
Child(cur, tk, next) ==
  IF ~Exists(cur, tk) THEN MakeCreatedContainer(next)
  ELSE IF IsObject(cur) THEN cur.members[tk.key]
  ELSE ElementAt(cur, ResolvedIndex(cur, tk))

\* Mutants: add keeps an existing member; add in an array overwrites.
LeafKeepsMember(cur, tk, op, value) ==
  IF IsObject(cur)
  THEN IF op = "Remove" THEN RemoveMember(cur, tk.key)
       ELSE IF HasMember(cur, tk.key) THEN cur ELSE InsertMember(cur, tk.key, value)
  ELSE InsertElement(cur, ResolvedIndex(cur, tk), value)

LeafOverwrites(cur, tk, op, value) ==
  LET pos == ResolvedIndex(cur, tk) IN
  IF IsObject(cur)
  THEN IF op = "Remove" THEN RemoveMember(cur, tk.key) ELSE InsertMember(cur, tk.key, value)
  ELSE IF op = "Remove" THEN RemoveElement(cur, pos)
  ELSE IF pos = Size(cur) THEN InsertElement(cur, pos, value) ELSE ReplaceElement(cur, pos, value)

\* The container after the operation at its leaf token.
LeafEdit(cur, tk, op, value) ==
  LET pos == ResolvedIndex(cur, tk) IN
  IF IsObject(cur)
  THEN IF op = "Remove" THEN RemoveMember(cur, tk.key) ELSE InsertMember(cur, tk.key, value)
  ELSE CASE op = "Add" -> InsertElement(cur, pos, value)
         [] op = "Replace" -> ReplaceElement(cur, pos, value)
         [] op = "Remove" -> RemoveElement(cur, pos)

\* What WriteOp::Remove returns; Undefined for the other operations.
RemovedValue(cur, tk, op) ==
  IF op = "Remove" THEN Child(cur, tk, tk) ELSE Undefined

\* Mutant: a child is inserted, not replaced.
ReattachInserts(container, tk, resolvedIndex, child) ==
  IF resolvedIndex < 0 THEN InsertMember(container, tk.key, child)
  ELSE InsertElement(container, resolvedIndex, child)

\* One iteration of unwind: assign the changed child into its parent.
Reattach(container, tk, resolvedIndex, child) ==
  IF resolvedIndex < 0 THEN InsertMember(container, tk.key, child)
  ELSE IF resolvedIndex = Size(container)
       THEN Array(Append(container.elements, child))
       ELSE ReplaceElement(container, resolvedIndex, child)

\* Undefined would remove an object member: it is stored as JSON null.
NewValue(value) == IF IsUndefined(value) THEN Null ELSE value

\* The failing token index of an error, saturated to 16 bits.
ClampTokenIndex(i) == IF i > U16Max THEN U16Max ELSE i

-----------------------------------------------------------------------------
(* The two walks as functions of a whole call. *)

\* evaluatePointerImpl, for the pointers its 16-bit loop counter can index:
\* one iteration after the result of the iterations before it.
EvalAfter(prev, tk, i) ==
  IF ~prev.ok THEN prev
  ELSE IF EvalStepError(prev.value, tk) # NoError
       THEN Failure(EvalStepError(prev.value, tk), ClampTokenIndex(i))
       ELSE Success(EvalStep(prev.value, tk))

EvalWalk(tokens, root) ==
  LET walk[j \in 0..Len(tokens)] ==
        IF j = 0 THEN Success(root) ELSE EvalAfter(walk[j - 1], tokens[j], j - 1)
  IN walk

EvaluatePointer(tokens, root) == EvalWalk(tokens, root)[Len(tokens)]

\* writePointer's descent: the containers of the levels so far, or the first
\* error, after which no iteration happens.
DescendAfter(prev, tokens, j, root, op, create) ==
  LET cur == Materialise(IF j = 1 THEN root
                         ELSE Child(Last(prev.value), tokens[j - 1], tokens[j]),
                         tokens[j], create)
      err == IF j = Len(tokens) THEN LeafError(cur, tokens[j], op)
             ELSE DescendError(cur, tokens[j], create)
  IN IF ~prev.ok THEN prev
     ELSE IF err # NoError THEN Failure(err, ClampTokenIndex(j - 1))
     ELSE Success(Append(prev.value, cur))

DescentWalk(tokens, root, op, create) ==
  LET walk[j \in 0..Len(tokens)] ==
        IF j = 0 THEN Success(<<>>)
        ELSE DescendAfter(walk[j - 1], tokens, j, root, op, create)
  IN walk

Descent(tokens, root, op, create) == DescentWalk(tokens, root, op, create)[Len(tokens)]

\* unwind: the new levels, from the leaf up, and so the new root, given the
\* containers of the descent.
RebuildLevels(tokens, spine, op, value) ==
  LET n == Len(tokens)
      new[j \in 1..n] ==
        IF j = n THEN LeafEdit(spine[j], tokens[j], op, value)
        ELSE Reattach(spine[j], tokens[j], ResolvedIndex(spine[j], tokens[j]), new[j + 1])
  IN new

Rebuild(tokens, spine, op, value) == RebuildLevels(tokens, spine, op, value)[1]

WriteAlong(tokens, root, value, op, descent) ==
  IF descent.ok
  THEN [root |-> Rebuild(tokens, descent.value, op, NewValue(value)),
        result |-> Success(RemovedValue(Last(descent.value), Last(tokens), op))]
  ELSE [root |-> root, result |-> descent]

\* writePointer: the new root and the result of the call.  On failure the
\* root is returned as it was.
WritePointer(tokens, root, value, op, create) ==
  IF tokens # <<>>
  THEN WriteAlong(tokens, root, value, op, Descent(tokens, root, op, create))
  ELSE IF op = "Remove"
       THEN [root |-> root, result |-> Failure("CannotRemoveRoot", 0)]
       ELSE [root |-> NewValue(value), result |-> Success(Undefined)]

=============================================================================
