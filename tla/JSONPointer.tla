----------------------------- MODULE JSONPointer -----------------------------
(***************************************************************************)
(* A caller's session with the JSON Pointer API on one JSON variable: any  *)
(* sequence of evaluate / add / replace / remove / set calls, each run one *)
(* loop iteration per step.                                                *)
(*                                                                         *)
(* A write is the two-phase walk of writePointer: a read-only descent that *)
(* validates the whole path (DescendObject, DescendArray, LeafObject,      *)
(* LeafArray, WalkFails), the bottom-up rebuild of the spine (Unwind), and *)
(* the assignment back into the caller's variable (Commit), which for a    *)
(* QJsonDocument, QJsonObject or QJsonArray may still refuse the result.   *)
(*                                                                         *)
(* written is a history variable: where the last successful add, replace   *)
(* or set put its value, and the rebuilt containers above it.  It records  *)
(* what the code did and is read by no action.                             *)
(***************************************************************************)
EXTENDS PointerOps

CONSTANTS
  Json,       \* the JSON values documents start from
  Values,     \* the values that calls pass
  Pointers,   \* the compiled pointers callers use: sequences of tokens
  MaxCalls    \* bound on the number of calls of a session

VARIABLES
  holder,     \* C++ type of the caller's variable, fixed: selects the overload
  doc,        \* its content
  pc,         \* where the current call is
  call,       \* the current call's arguments
  i,          \* loop counter of the walk
  current,    \* local `current`
  path,       \* local std::vector<PathStep>
  rebuilt,    \* values of the local `child` of unwind, by level
  removed,    \* local `removed`
  outcome,    \* result of the last finished call
  calls,      \* number of calls made
  written     \* history: the last successful add, replace or set

vars == <<holder, doc, pc, call, i, current, path, rebuilt, removed, outcome, calls, written>>

Holders == {"value", "document", "object", "array"}

ASSUME JsonAssumption == DownwardClosed(Json) /\ Null \in Json /\ Undefined \notin Json
ASSUME ValuesAssumption == Values \subseteq Json \cup {Undefined}
ASSUME PointersAssumption == Pointers \subseteq Seq(TokenType)
ASSUME MaxCallsAssumption == MaxCalls \in Nat

NotWritten == [known |-> FALSE]

\* What a variable of each type can hold.  A null QJsonDocument unwraps to
\* JSON null.
Holds(h, v) ==
  CASE h = "object" -> IsObject(v)
    [] h = "array" -> IsArray(v)
    [] h = "document" -> IsContainer(v) \/ IsNull(v)
    [] OTHER -> ~IsUndefined(v)

\* No result yet.
Pending == [ok |-> FALSE, code |-> NoError, detail |-> 0]

NoCall == [op |-> "none", tokens |-> <<>>, value |-> Undefined, create |-> FALSE]

Init ==
  /\ holder \in Holders
  /\ doc \in {v \in Json : Holds(holder, v)}
  /\ pc = "idle"
  /\ call = NoCall
  /\ i = 0
  /\ current = Null
  /\ path = <<>>
  /\ rebuilt = <<>>
  /\ removed = Undefined
  /\ outcome = Pending
  /\ calls = 0
  /\ written = NotWritten

-----------------------------------------------------------------------------
(* Calls *)

\* Mutant: path is not cleared between calls.
BeginKeepsPath(op, tokens, value, create) ==
  /\ pc = "idle"
  /\ calls < MaxCalls
  /\ calls' = calls + 1
  /\ call' = [op |-> op, tokens |-> tokens, value |-> NewValue(value), create |-> create]
  /\ pc' = IF op = "Evaluate" THEN "eval" ELSE "walk"
  /\ i' = 0
  /\ current' = doc
  /\ rebuilt' = <<>>
  /\ removed' = Undefined
  /\ outcome' = Pending
  /\ UNCHANGED <<holder, doc, path, written>>

Begin(op, tokens, value, create) ==
  /\ pc = "idle"
  /\ calls < MaxCalls
  /\ calls' = calls + 1
  /\ call' = [op |-> op, tokens |-> tokens, value |-> NewValue(value), create |-> create]
  /\ pc' = IF op = "Evaluate" THEN "eval" ELSE "walk"
  /\ i' = 0
  /\ current' = doc
  /\ path' = <<>>
  /\ rebuilt' = <<>>
  /\ removed' = Undefined
  /\ outcome' = Pending
  /\ UNCHANGED <<holder, doc, written>>

CallEvaluate(tokens) == Begin("Evaluate", tokens, Undefined, FALSE)
CallAdd(tokens, value) == Begin("Add", tokens, value, FALSE)
CallReplace(tokens, value) == Begin("Replace", tokens, value, FALSE)
CallRemove(tokens) == Begin("Remove", tokens, Null, FALSE)
CallSet(tokens, value, create) == Begin("Add", tokens, value, create)

Return(result) ==
  /\ outcome' = result
  /\ pc' = "idle"

-----------------------------------------------------------------------------
(* evaluatePointerImpl: one loop iteration, or the return after the loop.  *)
(* The counter is a std::uint16_t and wraps.                               *)

EvalIterate ==
  /\ pc = "eval"
  /\ i < Len(call.tokens)
  /\ EvalStepError(current, call.tokens[i + 1]) = NoError
  /\ current' = EvalStep(current, call.tokens[i + 1])
  /\ i' = (i + 1) % (U16Max + 1)
  /\ UNCHANGED <<holder, doc, pc, call, path, rebuilt, removed, outcome, calls, written>>

\* Mutant: the failing token is counted from 1.
EvalFailsOneBased ==
  /\ pc = "eval"
  /\ i < Len(call.tokens)
  /\ EvalStepError(current, call.tokens[i + 1]) # NoError
  /\ Return(Failure(EvalStepError(current, call.tokens[i + 1]), i + 1))
  /\ UNCHANGED <<holder, doc, call, i, current, path, rebuilt, removed, calls, written>>

EvalFails ==
  /\ pc = "eval"
  /\ i < Len(call.tokens)
  /\ EvalStepError(current, call.tokens[i + 1]) # NoError
  /\ Return(Failure(EvalStepError(current, call.tokens[i + 1]), i))
  /\ UNCHANGED <<holder, doc, call, i, current, path, rebuilt, removed, calls, written>>

EvalReturns ==
  /\ pc = "eval"
  /\ i >= Len(call.tokens)
  /\ Return(Success(current))
  /\ UNCHANGED <<holder, doc, call, i, current, path, rebuilt, removed, calls, written>>

-----------------------------------------------------------------------------
(* writePointer: the descent *)

Tk == call.tokens[i + 1]
Leaf == i + 1 = Len(call.tokens)
Cur == Materialise(current, Tk, call.create)

StepError ==
  IF Leaf THEN LeafError(Cur, Tk, call.op) ELSE DescendError(Cur, Tk, call.create)

PathStep == [container |-> Cur, token |-> Tk, resolvedIndex |-> ResolvedIndex(Cur, Tk)]

\* The empty pointer: the root always exists and cannot be removed.
WriteRoot ==
  /\ pc = "walk"
  /\ call.tokens = <<>>
  /\ IF call.op = "Remove"
     THEN /\ Return(Failure("CannotRemoveRoot", 0))
          /\ UNCHANGED rebuilt
     ELSE /\ rebuilt' = [j \in {1} |-> call.value]
          /\ pc' = "unwind"
          /\ UNCHANGED outcome
  /\ UNCHANGED <<holder, doc, call, i, current, path, removed, calls, written>>

Descend ==
  /\ pc = "walk"
  /\ i + 1 < Len(call.tokens)
  /\ DescendError(Cur, Tk, call.create) = NoError
  /\ path' = Append(path, PathStep)
  /\ current' = Child(Cur, Tk, call.tokens[i + 2])
  /\ i' = i + 1
  /\ UNCHANGED <<holder, doc, pc, call, rebuilt, removed, outcome, calls, written>>

DescendObject == Descend /\ IsObject(Cur)
DescendArray == Descend /\ IsArray(Cur)

\* The leaf token: edit a copy of the container and start the unwind.  For
\* the history, the leaf's own step is recorded on path and the value below
\* the leaf container in rebuilt; unwind reads neither.
EditLeaf ==
  /\ pc = "walk"
  /\ i + 1 = Len(call.tokens)
  /\ LeafError(Cur, Tk, call.op) = NoError
  /\ path' = Append(path, PathStep)
  /\ rebuilt' = [j \in {i + 1, i + 2} |->
                   IF j = i + 1 THEN LeafEdit(Cur, Tk, call.op, call.value) ELSE call.value]
  /\ removed' = RemovedValue(Cur, Tk, call.op)
  /\ pc' = "unwind"
  /\ UNCHANGED <<holder, doc, call, i, current, outcome, calls, written>>

LeafObject == EditLeaf /\ IsObject(Cur)
LeafArray == EditLeaf /\ IsArray(Cur)

\* Every early return of the loop: nothing has been assigned yet.
WalkFails ==
  /\ pc = "walk"
  /\ call.tokens # <<>>
  /\ StepError # NoError
  /\ Return(Failure(StepError, ClampTokenIndex(i)))
  /\ UNCHANGED <<holder, doc, call, i, current, path, rebuilt, removed, calls, written>>

-----------------------------------------------------------------------------
(* writePointer: unwind, and the commit of the public overloads *)

\* Mutant: the loop does not go up a level.
UnwindStays ==
  /\ pc = "unwind"
  /\ i > 0
  /\ rebuilt' = [j \in {i} \cup DOMAIN rebuilt |->
                   IF j = i THEN Reattach(path[i].container, path[i].token,
                                          path[i].resolvedIndex, rebuilt[i + 1])
                   ELSE rebuilt[j]]
  /\ UNCHANGED <<holder, doc, pc, call, i, current, path, removed, outcome, calls, written>>

\* One iteration of unwind: level i is rebuilt around level i + 1.
Unwind ==
  /\ pc = "unwind"
  /\ i > 0
  /\ rebuilt' = [j \in {i} \cup DOMAIN rebuilt |->
                   IF j = i
                   THEN Reattach(path[i].container, path[i].token, path[i].resolvedIndex,
                                 rebuilt[i + 1])
                   ELSE rebuilt[j]]
  /\ i' = i - 1
  /\ UNCHANGED <<holder, doc, pc, call, current, path, removed, outcome, calls, written>>

\* Mutant: the kind of the new root is checked too late.
CommitBeforeCheck ==
  /\ pc = "unwind"
  /\ i = 0
  /\ doc' = rebuilt[1]
  /\ Return(IF Holds(holder, rebuilt[1]) THEN Success(removed) ELSE Failure("RootTypeMismatch", 0))
  /\ UNCHANGED <<holder, call, i, current, path, rebuilt, removed, calls, written>>

\* writeTypedRoot, writeDocument, or the plain QJsonValue& overload: the
\* rebuilt root is assigned only if the caller's variable can hold it.
Commit ==
  /\ pc = "unwind"
  /\ i = 0
  /\ LET root == rebuilt[1] IN
     IF Holds(holder, root)
     THEN /\ doc' = root
          /\ Return(Success(removed))
          /\ written' = IF call.op = "Remove" THEN NotWritten
                        ELSE [known |-> TRUE, path |-> path, spine |-> rebuilt,
                              value |-> call.value]
     ELSE /\ Return(Failure(IF holder = "document" THEN "DocumentRootNotContainer"
                            ELSE "RootTypeMismatch", 0))
          /\ UNCHANGED <<doc, written>>
  /\ UNCHANGED <<holder, call, i, current, path, rebuilt, removed, calls>>

-----------------------------------------------------------------------------

Call ==
  \E tokens \in Pointers :
    \/ CallEvaluate(tokens)
    \/ \E value \in Values : CallAdd(tokens, value)
    \/ \E value \in Values : CallReplace(tokens, value)
    \/ CallRemove(tokens)
    \/ \E value \in Values, create \in BOOLEAN : CallSet(tokens, value, create)

Step ==
  \/ EvalIterate \/ EvalFails \/ EvalReturns
  \/ WriteRoot \/ DescendObject \/ DescendArray \/ LeafObject \/ LeafArray \/ WalkFails
  \/ Unwind \/ Commit

Next == Call \/ Step

Spec == Init /\ [][Next]_vars

\* A call runs to its end on the caller's thread; the caller need not call.
FairSpec == Spec /\ WF_vars(Step)

-----------------------------------------------------------------------------
(* Properties *)

\* Types: the counter stays inside the pointer, the path holds one step per
\* level walked, and the rebuilt levels are the ones below the counter.
TypeOK ==
  /\ holder \in Holders
  /\ pc \in {"idle", "eval", "walk", "unwind"}
  /\ call.op \in WriteOps \cup {"Evaluate", "none"}
  /\ call.tokens \in Seq(TokenType)
  /\ call.create \in BOOLEAN
  /\ ~IsUndefined(call.value) \/ call.op = "none"
  /\ i \in 0..Len(call.tokens)
  /\ pc \in {"walk", "unwind"} => i < Len(call.tokens) \/ call.tokens = <<>>
  /\ pc = "walk" => Len(path) = i
  /\ pc = "unwind" => /\ Len(path) = Len(call.tokens)
                      /\ DOMAIN rebuilt = i + 1 .. Len(call.tokens) + 1
  /\ calls \in 0..MaxCalls

\* The caller's variable always holds a value its C++ type can hold: a typed
\* root keeps its container kind and a document never holds a scalar.
HolderKind == Holds(holder, doc)

\* "All write methods provide the strong guarantee: on error the document is
\* left untouched" (JSONPointer.hpp): the variable changes only in the step in
\* which a write returns success.
StrongGuarantee == [][doc' # doc => pc' = "idle" /\ outcome'.ok /\ call.op \in WriteOps]_vars

\* tokens address the location that a write resolved to the steps of where:
\* by index inside an array (so the position an append "-" resolved to), by
\* name inside an object.
Addresses(tokens, where) ==
  /\ Len(tokens) = Len(where)
  /\ \A j \in 1..Len(where) :
       IF where[j].resolvedIndex >= 0
       THEN IsIndex(tokens[j]) /\ tokens[j].index = where[j].resolvedIndex
       ELSE tokens[j].key = where[j].token.key

\* Read your writes: evaluating a pointer to the location of the last
\* successful add, replace or set yields the value that was written, whatever
\* containers were created, extended or shifted on the way down.
ReadYourWrite ==
  (/\ pc = "idle"
   /\ call.op = "Evaluate"
   /\ written.known
   /\ Addresses(call.tokens, written.path)) => outcome = Success(written.value)

\* container holds x where a step of a write's path resolved to.
HoldsAt(container, where, x) ==
  IF where.resolvedIndex >= 0
  THEN /\ IsArray(container)
       /\ where.resolvedIndex < Size(container)
       /\ ElementAt(container, where.resolvedIndex) = x
  ELSE /\ IsObject(container)
       /\ HasMember(container, where.token.key)
       /\ container.members[where.token.key] = x

\* The levels of spine from level lo hold each other along the steps of where.
Linked(spine, where, lo) ==
  \A j \in lo..Len(where) : HoldsAt(spine[j], where[j], spine[j + 1])

\* Why ReadYourWrite holds.  Each step on the path was taken without an error;
\* the rebuilt levels hold each other, down to the value; they still do, as the
\* caller's variable, after the commit; and an evaluation of the same location
\* walks down exactly these levels.
PathInv ==
  pc \in {"walk", "unwind"} =>
    \A j \in 1..Len(path) :
      LET cur == path[j].container
          tk == call.tokens[j]
      IN /\ path[j].token = tk
         /\ path[j].resolvedIndex = ResolvedIndex(cur, tk)
         /\ IF j < Len(call.tokens) THEN DescendError(cur, tk, call.create) = NoError
            ELSE LeafError(cur, tk, call.op) = NoError
UnwindInv ==
  (pc = "unwind" /\ call.op # "Remove") =>
    /\ rebuilt[Len(path) + 1] = call.value
    /\ Linked(rebuilt, path, i + 1)
WrittenInv ==
  written.known =>
    /\ doc = written.spine[1]
    /\ written.spine[Len(written.path) + 1] = written.value
    /\ Linked(written.spine, written.path, 1)
EvalInv ==
  (pc = "eval" /\ written.known /\ Addresses(call.tokens, written.path)) =>
    current = written.spine[i + 1]
ReadBackInv == PathInv /\ UnwindInv /\ WrittenInv /\ EvalInv

\* set() with createIntermediates is "mkdir -p": from a null root it creates
\* every container the pointer needs and no non-empty pointer can fail.
MkdirFromNull ==
  [][(/\ pc # "idle" /\ pc' = "idle"
      /\ call.create /\ doc = Null /\ call.tokens # <<>>) => outcome'.ok]_vars

\* p is walked apart from the written path at level j.
Diverges(p, j) ==
  /\ \A k \in 1..j - 1 : Addresses(<<p[k]>>, <<path[k]>>)
  /\ ~Addresses(<<p[j]>>, <<path[j]>>)

\* Where an element is after the write op at position pos of its array:
\* inserting or removing an element shifts the ones after it.
Moved(t, op, pos) ==
  IF IsIndex(t) /\ pos >= 0 /\ t.index >= pos
  THEN IF op = "Add" THEN [t EXCEPT !.index = @ + 1]
       ELSE IF op = "Remove" /\ t.index > pos THEN [t EXCEPT !.index = @ - 1]
       ELSE t
  ELSE t

\* Where p's location is, if p shares the written path up to level j.
Shifted(p, j) ==
  IF j = Len(path) THEN [p EXCEPT ![j] = Moved(@, call.op, path[j].resolvedIndex)] ELSE p

\* A write touches only its own location: every pointer that leaves the written
\* path resolves after the commit to what it resolved to before (at its shifted
\* index when the write inserted into or removed from an array), and what did
\* not exist beside the path still does not.  Locations the write inserted
\* before (same index) count as beside it.
FrameAtCommit ==
  (pc = "unwind" /\ i = 0 /\ pc' = "idle" /\ outcome'.ok) =>
    \A p \in Pointers : \A j \in 1..Len(path) :
      LET apart == \/ Diverges(p, j)
                   \/ /\ \A k \in 1..j : Addresses(<<p[k]>>, <<path[k]>>)
                      /\ j = Len(path) /\ call.op = "Add" /\ path[j].resolvedIndex >= 0
          before == EvaluatePointer(p, doc)
          after == EvaluatePointer(Shifted(p, j), doc')
      IN j <= Len(p) /\ apart =>
           IF before.ok THEN after = before ELSE ~after.ok
FrameUntouched == [][FrameAtCommit]_vars

\* Every call returns.
CallsReturn == (pc # "idle") ~> (pc = "idle")

\* Each call takes effect as one atomic step of PointerAPI, at the step in which
\* it returns: loop by loop, writePointer and evaluatePointerImpl compute
\* WritePointer and EvaluatePointer, and return.
API == INSTANCE PointerAPI WITH busy <- (pc # "idle")
ImplementsAPI == API!Spec

=============================================================================
