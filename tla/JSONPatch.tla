------------------------------ MODULE JSONPatch ------------------------------
(***************************************************************************)
(* Applying a compiled RFC 6902 patch.  applyOps runs the operations in    *)
(* order against a working copy of the caller's document, one operation    *)
(* per step here; apply() returns the patched copy, applyInPlace() assigns *)
(* it back on success only.  The pointer operations are the whole-call     *)
(* functions of PointerOps.                                                *)
(***************************************************************************)
EXTENDS PointerOps, JsonTrees

CONSTANTS
  Documents,         \* the documents patches are applied to
  Patches,           \* the compiled patches: sequences of operations
  DeepEquals(_, _)   \* jsonDeepEquals (module JsonEquality)

VARIABLES
  holder,    \* C++ type of the caller's variable: selects the overload
  doc,       \* its content
  pc,        \* "idle", "applying", or "done" when the one call has returned
  inPlace,   \* applyInPlace rather than apply
  patch,     \* the patch being applied: m_ops
  n,         \* loop counter of applyOps: operations applied so far
  root,      \* working copy
  outcome    \* result of the call

vars == <<holder, doc, pc, inPlace, patch, n, root, outcome>>

Kinds == {"Add", "Copy", "Move", "Remove", "Replace", "Test"}
Holders == {"value", "document", "object", "array"}

ASSUME DefinedAssumption == Undefined \notin Json
ASSUME DocumentsAssumption == Documents \subseteq Json

\* An operation as compile() leaves it; only "add", "replace" and "test" have a
\* value of their own.
ASSUME PatchesAssumption ==
  \A p \in Patches :
    /\ Len(p) \in Nat
    /\ \A k \in 1..Len(p) : /\ p[k].kind \in Kinds
                          /\ p[k].path \in Seq(TokenType) /\ p[k].from \in Seq(TokenType)
                          /\ p[k].value \in Json \cup {Undefined}

\* apply() takes a value or a document, applyInPlace() anything but a value.
Overload(h, ip) == IF ip THEN h # "value" ELSE h \in {"value", "document"}

Holds(h, v) ==
  CASE h = "object" -> IsObject(v)
    [] h = "array" -> IsArray(v)
    [] h = "document" -> IsContainer(v) \/ IsNull(v)
    [] OTHER -> ~IsUndefined(v)

Pending == Failure(NoError, 0)

Init ==
  /\ holder \in Holders
  /\ doc \in {v \in Documents : Holds(holder, v)}
  /\ pc = "idle"
  /\ inPlace = FALSE
  /\ patch = <<>>
  /\ n = 0
  /\ root = doc
  /\ outcome = Pending

Apply(p, ip) ==
  /\ pc = "idle"
  /\ Overload(holder, ip)
  /\ pc' = "applying"
  /\ inPlace' = ip
  /\ patch' = p
  /\ n' = 0
  /\ root' = doc
  /\ UNCHANGED <<holder, doc, outcome>>

-----------------------------------------------------------------------------
(* One iteration of applyOps. *)

Op == patch[n + 1]

\* Mutant: operations are counted from 1.
AtOpOneBased(index) == IF index + 1 > U16Max THEN U16Max ELSE index + 1

\* atOp: the operation index, saturated.  MoveIntoOwnDescendant and TestFailed
\* are built with a plain static_cast<std::uint16_t> instead.
AtOp(index) == IF index > U16Max THEN U16Max ELSE index
CastOp(index) == index % (U16Max + 1)

Running(kind) == pc = "applying" /\ n < Len(patch) /\ Op.kind = kind

\* Mutants: the caller's document is the working copy; the loop does not advance.
ContinueInPlace(newRoot) ==
  /\ root' = newRoot
  /\ doc' = IF inPlace /\ Holds(holder, newRoot) THEN newRoot ELSE doc
  /\ n' = n + 1
  /\ UNCHANGED <<holder, pc, inPlace, patch, outcome>>

ContinueStays(newRoot) ==
  /\ root' = newRoot
  /\ UNCHANGED <<holder, doc, pc, inPlace, patch, n, outcome>>

\* The operation succeeded, or ends the call with an error.
Continue(newRoot) ==
  /\ root' = newRoot
  /\ n' = n + 1
  /\ UNCHANGED <<holder, doc, pc, inPlace, patch, outcome>>

Fail(code, detail) ==
  /\ outcome' = Failure(code, detail)
  /\ pc' = "done"
  /\ UNCHANGED <<holder, doc, inPlace, patch, n, root>>

\* Continue with what a pointer write returned, or rewrite its error.
Written(w) ==
  IF w.result.ok THEN Continue(w.root) ELSE Fail(w.result.code, AtOp(n))

ApplyAdd == Running("Add") /\ Written(WritePointer(Op.path, root, Op.value, "Add", FALSE))

ApplyReplace ==
  Running("Replace") /\ Written(WritePointer(Op.path, root, Op.value, "Replace", FALSE))

ApplyRemove == Running("Remove") /\ Written(WritePointer(Op.path, root, Null, "Remove", FALSE))

ApplyCopy ==
  /\ Running("Copy")
  /\ LET source == EvaluatePointer(Op.from, root) IN
     IF source.ok
     THEN Written(WritePointer(Op.path, root, source.value, "Add", FALSE))
     ELSE Fail(source.code, AtOp(n))

\* isProperPrefixOf: compares the canonical strings at a '/' boundary.
IsProperPrefixOf(from, path) ==
  /\ Len(from) < Len(path)
  /\ \A j \in 1..Len(from) : CanonicalText(from[j]) = CanonicalText(path[j])

\* Mutant: the moved value stays where it was.
MoveWithoutRemove ==
  /\ Running("Move")
  /\ IF IsProperPrefixOf(Op.from, Op.path)
     THEN Fail("MoveIntoOwnDescendant", CastOp(n))
     ELSE LET taken == EvaluatePointer(Op.from, root) IN
          IF taken.ok THEN Written(WritePointer(Op.path, root, taken.value, "Add", FALSE))
          ELSE Fail(taken.code, AtOp(n))

ApplyMove ==
  /\ Running("Move")
  /\ IF IsProperPrefixOf(Op.from, Op.path)
     THEN Fail("MoveIntoOwnDescendant", CastOp(n))
     ELSE LET taken == WritePointer(Op.from, root, Null, "Remove", FALSE) IN
          IF taken.result.ok
          THEN Written(WritePointer(Op.path, taken.root, taken.result.value, "Add", FALSE))
          ELSE Fail(taken.result.code, AtOp(n))

ApplyTest ==
  /\ Running("Test")
  /\ LET found == EvaluatePointer(Op.path, root) IN
     IF ~found.ok THEN Fail(found.code, AtOp(n))
     ELSE IF DeepEquals(found.value, Op.value) THEN Continue(root)
     ELSE Fail("TestFailed", CastOp(n))

\* After the last operation: apply() returns the patched value, or a new
\* document if one can hold it; applyInPlace() assigns it.
Finish ==
  /\ pc = "applying"
  /\ n = Len(patch)
  /\ pc' = "done"
  /\ IF Holds(holder, root)
     THEN /\ outcome' = Success(root)
          /\ doc' = IF inPlace THEN root ELSE doc
     ELSE /\ outcome' = Failure(IF holder = "document" THEN "DocumentRootNotContainer"
                                ELSE "RootTypeMismatch", 0)
          /\ UNCHANGED doc
  /\ UNCHANGED <<holder, inPlace, patch, n, root>>

Step ==
  \/ ApplyAdd \/ ApplyReplace \/ ApplyRemove \/ ApplyCopy \/ ApplyMove \/ ApplyTest
  \/ Finish

Next == (\E p \in Patches, ip \in BOOLEAN : Apply(p, ip)) \/ Step

Spec == Init /\ [][Next]_vars

\* applyOps runs on the caller's thread: the loop goes on until it returns.
\* This is WF_vars(Step), with the condition under which Step is enabled
\* written out, because TLC evaluates ENABLED of nested calls very slowly.
FairSpec == Spec /\ ([]<>(pc # "applying") \/ []<><<Step>>_vars)

-----------------------------------------------------------------------------
(* Properties *)

TypeOK ==
  /\ holder \in Holders
  /\ pc \in {"idle", "applying", "done"}
  /\ inPlace \in BOOLEAN
  /\ \A k \in 1..Len(patch) : patch[k].kind \in Kinds
  /\ n \in 0..Len(patch)

\* "On error the input is never partially patched" (JSONPatch.hpp): the
\* caller's variable changes only in the step that reports success, and then
\* holds exactly the returned result, of a kind its type can hold.
Atomic == [][doc' # doc => /\ inPlace /\ pc' = "done"
                          /\ outcome' = Success(doc') /\ Holds(holder, doc')]_vars

\* "Error::detail holds the index of the failing operation" (JSONPatch.hpp),
\* as far as 16 bits can say it.
ErrorNamesOp ==
  (pc = "done" /\ ~outcome.ok /\ outcome.code \notin {"DocumentRootNotContainer", "RootTypeMismatch"})
    => outcome.detail = IF n > U16Max THEN U16Max ELSE n

\* Adding at path overwrites an object member of v (or the root).
Overwrites(path, v) ==
  /\ EvaluatePointer(path, v).ok
  /\ path = <<>> \/ IsObject(EvaluatePointer(Front(path), v).value)

\* A move neither loses nor duplicates data: unless it overwrites a member, the
\* moved-to location holds what the moved-from location held, and with the
\* moved value taken out again the document is what remove(from) left.
MoveConserves ==
  [][(ApplyMove /\ pc' = "applying") =>
       LET op == Op
           mid == WritePointer(op.from, root, Null, "Remove", FALSE).root
           back == WritePointer(op.path, root', Null, "Remove", FALSE)
       IN (op.path # <<>> /\ ~IsAppendToken(Last(op.path))) =>
            /\ EvaluatePointer(op.path, root') = EvaluatePointer(op.from, root)
            /\ ~Overwrites(op.path, mid) => back.result.ok /\ back.root = mid]_vars

\* Patches that undo themselves, if nothing is overwritten: add p, remove p;
\* move a b, move b a.
Undoes(p) ==
  /\ Len(p) = 2
  /\ \/ p[1].kind = "Add" /\ p[2].kind = "Remove" /\ p[1].path = p[2].path
     \/ /\ p[1].kind = "Move" /\ p[2].kind = "Move"
        /\ p[1].path = p[2].from /\ p[1].from = p[2].path

\* An operation and its inverse restore the document exactly: element shifts
\* on insertion and removal cancel out, no member is left behind.
FirstOverwrites(p, v) ==
  Overwrites(p[1].path, IF p[1].kind = "Move"
                        THEN WritePointer(p[1].from, v, Null, "Remove", FALSE).root ELSE v)
UndoRestores ==
  (pc = "done" /\ outcome.ok /\ ~inPlace /\ Undoes(patch) /\ ~FirstOverwrites(patch, doc))
    => outcome.value = doc

\* A "test" passes only if the document holds the tested value, members in any
\* order: "numbers compare numerically" (ADR-008).
TestMeansEqual ==
  [][(ApplyTest /\ pc' = "applying") => EvaluatePointer(Op.path, root).value = Op.value]_vars

\* Every application finishes.
ApplyFinishes == (pc = "applying") ~> (pc = "done")

=============================================================================
