--------------------------- MODULE JSONPatchProofs ---------------------------
(***************************************************************************)
(* Theorems about JSONPatch and MergePatch, for any documents, patches and *)
(* comparison of values.  That a failing patch leaves no trace needs no    *)
(* invariant: only the last step of a call touches the caller's variable.  *)
(* That an error names its operation does: it was true when the call       *)
(* failed, and the counter has stood still since.  That moves conserve     *)
(* data and inverse operations restore the document rests on the lemmas of *)
(* PointerOpsProofs about the levels of a write, and on the working copy   *)
(* staying a well-formed value.  What a merge patch means is shown key by  *)
(* key along the path that reads the result.                               *)
(***************************************************************************)
EXTENDS MergeSemantics, PointerOpsProofs

\* Every operation of a patch has an index that 16 bits can hold.  Beyond it
\* the plain casts of MoveIntoOwnDescendant and TestFailed start over at 0.
FitsCounter == \A p \in Patches : Len(p) <= U16Max + 1

\* The patch in hand is one of the patches, or the call has not been made.
PatchKnown == patch \in Patches \/ patch = <<>>

\* One iteration of applyOps.
LoopStep ==
  ApplyAdd \/ ApplyReplace \/ ApplyRemove \/ ApplyCopy \/ ApplyMove \/ ApplyTest

-----------------------------------------------------------------------------
(* What an operation can do to the loop. *)

\* An operation either goes on with a new working copy, or ends the call with
\* its own index, saturated or cast, in the error.
LEMMA LoopStepForm ==
  ASSUME LoopStep
  PROVE  /\ pc = "applying" /\ n < Len(patch)
         /\ \/ \E newRoot : Continue(newRoot)
            \/ \E code : Fail(code, AtOp(n)) \/ Fail(code, CastOp(n))
  <1>1. CASE ApplyAdd
    BY <1>1 DEF ApplyAdd, Running, Written
  <1>2. CASE ApplyReplace
    BY <1>2 DEF ApplyReplace, Running, Written
  <1>3. CASE ApplyRemove
    BY <1>3 DEF ApplyRemove, Running, Written
  <1>4. CASE ApplyCopy
    BY <1>4 DEF ApplyCopy, Running, Written
  <1>5. CASE ApplyMove
    BY <1>5 DEF ApplyMove, Running, Written
  <1>6. CASE ApplyTest
    BY <1>6 DEF ApplyTest, Running
  <1> QED
    BY <1>1, <1>2, <1>3, <1>4, <1>5, <1>6 DEF LoopStep

\* As long as the index fits 16 bits both conversions return it.
LEMMA IndexFits ==
  ASSUME TypeOK, PatchKnown, FitsCounter, n < Len(patch)
  PROVE  AtOp(n) = n /\ CastOp(n) = n /\ n <= U16Max
  <1>1. U16Max \in Nat
    BY U16MaxAssumption
  <1>2. patch \in Patches /\ Len(patch) \in Nat /\ n \in Nat
    <2>1. CASE patch \in Patches
      BY <2>1, PatchesAssumption DEF TypeOK
    <2>2. CASE patch = <<>>
      BY <2>2 DEF TypeOK
    <2> QED
      BY <2>1, <2>2 DEF PatchKnown
  <1>3. n <= U16Max
    BY <1>1, <1>2 DEF FitsCounter
  <1>4. n % (U16Max + 1) = n
    BY <1>1, <1>2, <1>3
  <1> QED
    BY <1>1, <1>2, <1>3, <1>4 DEF AtOp, CastOp

-----------------------------------------------------------------------------
(* The loop: the counter stays within the operations of the patch in hand. *)

\* The loop has not begun, and no error is reported.
LEMMA InitHolds ==
  ASSUME Init
  PROVE  TypeOK /\ PatchKnown /\ ErrorNamesOp
  <1>1. Len(patch) = 0 /\ n \in 0..Len(patch)
    BY DEF Init
  <1>2. \A k \in 1..Len(patch) : patch[k].kind \in Kinds
    BY <1>1
  <1> QED
    BY <1>1, <1>2 DEF Init, TypeOK, PatchKnown, ErrorNamesOp

\* Going on keeps the counter in range; a call that ends leaves it.
LEMMA NextKeepsTypes ==
  ASSUME TypeOK, PatchKnown, [Next]_vars
  PROVE  TypeOK' /\ PatchKnown'
  <1>1. ASSUME NEW p \in Patches, NEW ip \in BOOLEAN, Apply(p, ip)
        PROVE  TypeOK' /\ PatchKnown'
    <2>1. Len(p) \in Nat /\ \A k \in 1..Len(p) : p[k].kind \in Kinds
      BY PatchesAssumption
    <2> QED
      BY <1>1, <2>1 DEF TypeOK, PatchKnown, Apply
  <1>2. ASSUME LoopStep
        PROVE  TypeOK' /\ PatchKnown'
    <2>1. n < Len(patch)
      BY <1>2, LoopStepForm
    <2>2. CASE \E newRoot : Continue(newRoot)
      <3>1. Len(patch) \in Nat
        BY PatchesAssumption DEF PatchKnown
      <3>2. n + 1 \in 0..Len(patch)
        BY <2>1, <3>1 DEF TypeOK
      <3> QED
        BY <2>2, <3>2 DEF TypeOK, PatchKnown, Continue
    <2>3. CASE \E code : Fail(code, AtOp(n)) \/ Fail(code, CastOp(n))
      BY <2>3 DEF TypeOK, PatchKnown, Fail
    <2> QED
      BY <1>2, <2>2, <2>3, LoopStepForm
  <1>3. ASSUME Finish
        PROVE  TypeOK' /\ PatchKnown'
    BY <1>3 DEF TypeOK, PatchKnown, Finish
  <1>4. CASE UNCHANGED vars
    BY <1>4 DEF vars, TypeOK, PatchKnown
  <1> QED
    BY <1>1, <1>2, <1>3, <1>4 DEF Next, Step, LoopStep

\* The loop counter never passes the operations of the patch in hand, which is
\* what applyOps relies on when it reads them.
THEOREM PatchTypes == Spec => []TypeOK
  <1>1. Init => TypeOK /\ PatchKnown
    BY InitHolds
  <1>2. TypeOK /\ PatchKnown /\ [Next]_vars => (TypeOK /\ PatchKnown)'
    BY NextKeepsTypes
  <1> QED
    BY <1>1, <1>2, PTL DEF Spec

-----------------------------------------------------------------------------
(* Errors name the operation. *)

\* A call that fails reports its counter, which then stands still.
LEMMA NextKeepsError ==
  ASSUME FitsCounter, TypeOK, PatchKnown, ErrorNamesOp, [Next]_vars
  PROVE  ErrorNamesOp'
  <1>1. CASE \E p \in Patches, ip \in BOOLEAN : Apply(p, ip)
    BY <1>1 DEF ErrorNamesOp, Apply
  <1>2. CASE LoopStep
    <2>1. pc = "applying" /\ n < Len(patch)
      BY <1>2, LoopStepForm
    <2>2. AtOp(n) = n /\ CastOp(n) = n /\ n <= U16Max
      BY <2>1, IndexFits
    <2>3. CASE \E newRoot : Continue(newRoot)
      BY <2>1, <2>3 DEF ErrorNamesOp, Continue
    <2>4. CASE \E code : Fail(code, AtOp(n)) \/ Fail(code, CastOp(n))
      <3>1. PICK code : Fail(code, n)
        BY <2>2, <2>4
      <3>2. n' = n /\ outcome'.detail = n
        BY <3>1 DEF Fail, Failure
      <3>3. n \in Int /\ U16Max \in Int
        BY <2>1, <2>2, U16MaxAssumption, PatchesAssumption DEF TypeOK, PatchKnown
      <3>4. ~(n > U16Max)
        BY <2>2, <3>3
      <3> QED
        BY <3>2, <3>4 DEF ErrorNamesOp
    <2> QED
      BY <1>2, <2>3, <2>4, LoopStepForm
  <1>3. CASE Finish
    <2>1. CASE Holds(holder, root)
      BY <1>3, <2>1 DEF Finish, Success, ErrorNamesOp
    <2>2. CASE ~Holds(holder, root)
      BY <1>3, <2>2 DEF Finish, Failure, ErrorNamesOp
    <2> QED
      BY <2>1, <2>2
  <1>4. CASE UNCHANGED vars
    BY <1>4 DEF vars, ErrorNamesOp
  <1> QED
    BY <1>1, <1>2, <1>3, <1>4 DEF Next, Step, LoopStep

\* The error of a failed patch holds the index of the failing operation, if
\* every index fits 16 bits (applyOps, atOp).
THEOREM ErrorNamesItsOp == FitsCounter /\ Spec => []ErrorNamesOp
  <1> SUFFICES ASSUME FitsCounter
               PROVE  Spec => []ErrorNamesOp
    OBVIOUS
  <1> DEFINE IInv == TypeOK /\ PatchKnown /\ ErrorNamesOp
  <1>1. Init => IInv
    BY InitHolds
  <1>2. IInv /\ [Next]_vars => IInv'
    BY NextKeepsTypes, NextKeepsError
  <1>3. IInv => ErrorNamesOp
    OBVIOUS
  <1> QED
    BY <1>1, <1>2, <1>3, PTL DEF Spec

-----------------------------------------------------------------------------
(* All or nothing. *)

\* "On error the input is never partially patched" (JSONPatch.hpp): of all
\* steps of a call only the successful return of applyInPlace writes the
\* caller's variable.
THEOREM PatchIsAtomic == Spec => Atomic
  <1> DEFINE A == doc' # doc => /\ inPlace /\ pc' = "done"
                                /\ outcome' = Success(doc') /\ Holds(holder, doc')
  <1>1. [Next]_vars => [A]_vars
    <2> SUFFICES ASSUME [Next]_vars, doc' # doc
                 PROVE  A
      BY DEF vars
    <2>1. ~UNCHANGED vars
      BY DEF vars
    <2>2. ~(\E p \in Patches, ip \in BOOLEAN : Apply(p, ip))
      BY DEF Apply
    <2>3. ~LoopStep
      <3> SUFFICES ASSUME LoopStep
                   PROVE  doc' = doc
        OBVIOUS
      <3> QED
        BY LoopStepForm DEF Continue, Fail
    <2>4. Finish
      BY <2>1, <2>2, <2>3 DEF Next, Step, LoopStep
    <2>5. Holds(holder, root)
      BY <2>4 DEF Finish
    <2>6. inPlace /\ doc' = root /\ pc' = "done" /\ outcome' = Success(root)
      BY <2>4, <2>5 DEF Finish
    <2> QED
      BY <2>5, <2>6
  <1> QED
    BY <1>1, PTL DEF Spec, Atomic

-----------------------------------------------------------------------------
(* What writes do to well-formed documents. *)

\* A JSON null is well formed, and stored as it is.
LEMMA NullJson == IsJson(Null) /\ NewValue(Null) = Null
<1>1. WellShaped(Null) /\ Children(Null) = {} /\ ~IsUndefined(Null)
  BY DEF WellShaped, Children, Null, IsUndefined, IsObject, IsArray
<1> QED BY <1>1, JsonFold DEF NewValue

\* A write to a well-formed document leaves one.
LEMMA WriteKeepsJson ==
  ASSUME NEW tokens \in Seq(TokenType), NEW v, IsJson(v), NEW op \in WriteOps,
         NEW x, IsJson(NewValue(x)), PlainWrite(tokens, v, x, op).result.ok
  PROVE  IsJson(PlainWrite(tokens, v, x, op).root)
<1>1. CASE tokens = <<>>
  BY <1>1 DEF WritePointer, PlainWrite
<1>2. CASE tokens # <<>>
  <2>1. PICK s, r : /\ IsWrite(tokens, v, NewValue(x), op, s, r)
                    /\ PlainWrite(tokens, v, x, op).root = r[1]
    BY <1>2, WriteLevels
  <2>2. 1 \in 1..Len(tokens)
    BY <1>2, EmptySeq
  <2> QED BY <1>2, <2>1, <2>2, RebuiltJson
<1> QED BY <1>1, <1>2

\* A removal returns what a read found, and adding that again gives the document
\* back.
LEMMA RemoveThenAdd ==
  ASSUME NEW tokens \in Seq(TokenType), NEW v, IsJson(v),
         PlainWrite(tokens, v, Null, "Remove").result.ok
  PROVE  LET w == PlainWrite(tokens, v, Null, "Remove")
             x == w.result.value
         IN /\ tokens # <<>>
            /\ EvaluatePointer(tokens, v) = Success(x)
            /\ IsJson(x) /\ NewValue(x) = x /\ IsJson(w.root)
            /\ PlainWrite(tokens, w.root, x, "Add").root = v
<1> DEFINE w == PlainWrite(tokens, v, Null, "Remove")
           x == w.result.value
           k == Len(tokens)
<1>1. tokens # <<>>
  BY DEF WritePointer, PlainWrite, Failure
<1>2. k \in Nat \ {0} /\ k \in 1..k /\ 1 \in 1..k /\ tokens[k] \in TokenType
  BY <1>1, EmptySeq, ElementOfSeq
<1>3. IsJson(Null) /\ NewValue(Null) = Null
  BY NullJson
<1>4. PICK s, r : /\ IsWrite(tokens, v, Null, "Remove", s, r)
                  /\ w = [root |-> r[1],
                          result |-> Success(RemovedValue(s[k], Last(tokens), "Remove"))]
  BY <1>1, <1>3, WriteLevels
<1>5. x = RemovedValue(s[k], tokens[k], "Remove") /\ w.root = r[1]
  BY <1>4 DEF Success, Last
<1> HIDE DEF w, x
<1>6. /\ \A j \in 1..k : IsJson(s[j]) /\ IsJson(r[j])
      /\ Chain(tokens, s) /\ \A j \in 1..k - 1 : Steps(s[j], tokens[j])
  BY <1>1, <1>3, <1>4, RebuiltJson DEF WriteOps
<1>7. /\ Steps(s[k], tokens[k]) /\ x = EvalStep(s[k], tokens[k])
      /\ IsWrite(tokens, r[1], x, "Add", r, s)
  BY <1>1, <1>3, <1>4, <1>5, RemoveReversed
<1>8. s[1] = v
  BY <1>2, <1>4 DEF IsWrite, IsDescent
<1>9. EvaluatePointer(tokens, v) = Success(x)
  BY <1>1, <1>6, <1>7, <1>8, EvalChain
<1>10. IsJson(x) /\ NewValue(x) = x
  BY <1>2, <1>6, <1>7, StepsWhere, JsonUnfold DEF NewValue
<1>11. IsJson(r[1])
  BY <1>2, <1>6
<1>12. PlainWrite(tokens, r[1], x, "Add").root = s[1]
  BY <1>1, <1>7, <1>10, <1>11, LevelsWrite
<1> QED BY <1>1, <1>5, <1>8, <1>9, <1>10, <1>11, <1>12 DEF w, x

\* What was added is there; and unless it overwrote a member, removing it returns
\* it and gives the document back.
LEMMA AddThenRemove ==
  ASSUME NEW tokens \in Seq(TokenType), tokens # <<>>, NEW v, IsJson(v),
         NEW x, IsJson(NewValue(x)), PlainWrite(tokens, v, x, "Add").result.ok
  PROVE  LET u == PlainWrite(tokens, v, x, "Add").root
             back == PlainWrite(tokens, u, Null, "Remove")
             Removable == ~IsAppendToken(Last(tokens)) \/ back.result.ok
         IN /\ IsJson(u)
            /\ ~IsAppendToken(Last(tokens)) => EvaluatePointer(tokens, u) = Success(NewValue(x))
            /\ Removable /\ ~Overwrites(tokens, v) =>
                 back.result.ok /\ back.root = v /\ back.result.value = NewValue(x)
<1> DEFINE y == NewValue(x)
           k == Len(tokens)
           tk == tokens[k]
           u == PlainWrite(tokens, v, x, "Add").root
           back == PlainWrite(tokens, u, Null, "Remove")
<1>1. k \in Nat \ {0} /\ k \in 1..k /\ 1 \in 1..k /\ tk \in TokenType /\ Last(tokens) = tk
  BY EmptySeq, ElementOfSeq DEF Last
<1>2. PICK s, r : IsWrite(tokens, v, y, "Add", s, r) /\ u = r[1]
  BY WriteLevels
<1> HIDE DEF u, y
<1>3. /\ \A j \in 1..k : IsJson(s[j]) /\ IsJson(r[j])
      /\ Chain(tokens, s) /\ Chain(tokens, r)
      /\ \A j \in 1..k - 1 : Steps(s[j], tokens[j]) /\ Steps(r[j], tokens[j])
  BY <1>2, RebuiltJson DEF WriteOps, y
<1>4. s[1] = v /\ LeafError(s[k], tk, "Add") = NoError /\ r[k] = LeafEdit(s[k], tk, "Add", y)
  BY <1>1, <1>2 DEF IsWrite, IsDescent, Accepts, IsRebuilt, Rebuilt
<1>5. IsJson(u)
  BY <1>1, <1>2, <1>3
<1>6. ~IsAppendToken(tk) \/ LeafError(r[k], tk, "Remove") = NoError
        => Steps(r[k], tk) /\ EvalStep(r[k], tk) = y
  <2> DEFINE e == LeafEdit(s[k], tk, "Add", y)
             undone == LeafEdit(e, tk, "Remove", Null) = s[k]
  <2>1. ~IsAppendToken(tk) \/ LeafError(e, tk, "Remove") = NoError
          => Steps(e, tk) /\ EvalStep(e, tk) = y
             /\ (~(IsObject(s[k]) /\ HasMember(s[k], tk.key)) => undone)
    BY <1>1, <1>3, <1>4, AddAtLeaf DEF y
  <2> QED BY <1>4, <2>1
<1>7. ~IsAppendToken(tk) => EvaluatePointer(tokens, u) = Success(y)
  BY <1>2, <1>3, <1>6, EvalChain
<1>8. ASSUME back.result.ok
      PROVE  LeafError(r[k], tk, "Remove") = NoError
  <2>1. PICK p, q : IsWrite(tokens, u, NewValue(Null), "Remove", p, q)
    BY <1>5, <1>8, WriteLevels
  <2>2. p[1] = r[1] /\ Chain(tokens, p)
    BY <1>1, <1>2, <2>1 DEF IsWrite, IsDescent, Chain
  <2>3. p[k] = r[k]
    BY <1>1, <1>3, <2>2, SameChain
  <2> QED BY <1>1, <2>1, <2>3 DEF IsWrite, IsDescent, Accepts
<1>9. ASSUME IsObject(s[k]) /\ HasMember(s[k], tk.key)
      PROVE  Overwrites(tokens, v)
  <2>1. Steps(s[k], tk)
    BY <1>1, <1>3, <1>9, StepsWhere
  <2>2. /\ EvaluatePointer(Front(tokens), v) = Success(s[k])
        /\ EvaluatePointer(tokens, v) = Success(EvalStep(s[k], tk))
    BY <1>3, <1>4, <2>1, EvalChain
  <2> QED BY <1>9, <2>2 DEF Overwrites, Success
<1>10. ASSUME ~IsAppendToken(tk) \/ back.result.ok, ~Overwrites(tokens, v)
       PROVE  back.result.ok /\ back.root = v /\ back.result.value = y
  <2>1. ~IsAppendToken(tk) \/ LeafError(r[k], tk, "Remove") = NoError
    BY <1>8, <1>10
  <2>2. IsJson(Null) /\ NewValue(Null) = Null
    BY NullJson
  <2>3. IsWrite(tokens, u, Null, "Remove", r, s)
    BY <1>2, <1>9, <1>10, <2>1, AddReversed DEF y
  <2>4. back = [root |-> s[1], result |-> Success(RemovedValue(r[k], Last(tokens), "Remove"))]
    BY <1>5, <2>2, <2>3, LevelsWrite
  <2>5. RemovedValue(r[k], tk, "Remove") = y
    <3>1. /\ RemovedValue(r[k], tk, "Remove") = EvalStep(r[k], tk)
      BY <1>5, <2>2, <2>3, RemoveReversed
    <3> QED BY <1>6, <2>1, <3>1
  <2> QED BY <1>1, <1>4, <2>4, <2>5 DEF Success
<1> QED BY <1>1, <1>5, <1>7, <1>10 DEF u, y

\* The working copies that a write, a copy, a move and any operation leave if
\* they succeed.
Wrote(tokens, v, x, op, u) ==
  PlainWrite(tokens, v, x, op).result.ok /\ u = PlainWrite(tokens, v, x, op).root

Copied(op, v, u) ==
  LET source == EvaluatePointer(op.from, v) IN
  source.ok /\ Wrote(op.path, v, source.value, "Add", u)

Moved(op, v, u) ==
  LET taken == PlainWrite(op.from, v, Null, "Remove") IN
  taken.result.ok /\ Wrote(op.path, taken.root, taken.result.value, "Add", u)

After(op, v, u) ==
  \/ op.kind \in {"Add", "Replace"} /\ Wrote(op.path, v, op.value, op.kind, u)
  \/ op.kind = "Remove" /\ Wrote(op.path, v, Null, "Remove", u)
  \/ op.kind = "Copy" /\ Copied(op, v, u)
  \/ op.kind = "Move" /\ Moved(op, v, u)
  \/ op.kind = "Test" /\ u = v

\* The two ways an iteration of the loop ends.
Succeeds ==
  n' = n + 1 /\ After(Op, root, root') /\ UNCHANGED <<holder, doc, pc, inPlace, patch, outcome>>

Fails ==
  pc' = "done" /\ ~outcome'.ok /\ UNCHANGED <<holder, doc, inPlace, patch, n, root>>

\* What a write returned is the working copy, or its error ends the call.
LEMMA WrittenIs ==
  ASSUME NEW tokens, NEW v, NEW x, NEW op,
         Written(WritePointer(tokens, v, x, op, FALSE))
  PROVE  \/ /\ Wrote(tokens, v, x, op, root')
            /\ n' = n + 1 /\ UNCHANGED <<holder, doc, pc, inPlace, patch, outcome>>
         \/ Fails
<1> DEFINE w == PlainWrite(tokens, v, x, op)
<1>1. Written(w)
  BY DEF PlainWrite
<1> HIDE DEF w
<1>2. CASE w.result.ok
  BY <1>1, <1>2 DEF Written, Continue, Wrote, w
<1>3. CASE ~w.result.ok
  BY <1>1, <1>3 DEF Written, Fail, Fails, Failure
<1> QED BY <1>2, <1>3

\* Every operation succeeds with its result, or fails.
LEMMA LoopStepIs ==
  ASSUME LoopStep
  PROVE  Succeeds \/ Fails
<1>1. CASE ApplyAdd
  <2>1. Op.kind = "Add" /\ Written(WritePointer(Op.path, root, Op.value, "Add", FALSE))
    BY <1>1 DEF ApplyAdd, Running
  <2>2. Wrote(Op.path, root, Op.value, "Add", root') => After(Op, root, root')
    BY <2>1 DEF After
  <2> QED BY <2>1, <2>2, WrittenIs DEF Succeeds
<1>2. CASE ApplyReplace
  <2>1. Op.kind = "Replace" /\ Written(WritePointer(Op.path, root, Op.value, "Replace", FALSE))
    BY <1>2 DEF ApplyReplace, Running
  <2>2. Wrote(Op.path, root, Op.value, "Replace", root') => After(Op, root, root')
    BY <2>1 DEF After
  <2> QED BY <2>1, <2>2, WrittenIs DEF Succeeds
<1>3. CASE ApplyRemove
  <2>1. Op.kind = "Remove" /\ Written(WritePointer(Op.path, root, Null, "Remove", FALSE))
    BY <1>3 DEF ApplyRemove, Running
  <2>2. Wrote(Op.path, root, Null, "Remove", root') => After(Op, root, root')
    BY <2>1 DEF After
  <2> QED BY <2>1, <2>2, WrittenIs DEF Succeeds
<1>4. CASE ApplyCopy
  <2> DEFINE source == EvaluatePointer(Op.from, root)
  <2>1. Op.kind = "Copy"
    BY <1>4 DEF ApplyCopy, Running
  <2>2. CASE source.ok
    <3>1. Written(WritePointer(Op.path, root, source.value, "Add", FALSE))
      BY <1>4, <2>2 DEF ApplyCopy
    <3>2. Wrote(Op.path, root, source.value, "Add", root') => After(Op, root, root')
      BY <2>1, <2>2 DEF After, Copied
    <3> QED BY <3>1, <3>2, WrittenIs DEF Succeeds
  <2>3. CASE ~source.ok
    BY <1>4, <2>3 DEF ApplyCopy, Fail, Failure, Fails
  <2> QED BY <2>2, <2>3
<1>5. CASE ApplyMove
  <2> DEFINE taken == WritePointer(Op.from, root, Null, "Remove", FALSE)
  <2>1. Op.kind = "Move"
    BY <1>5 DEF ApplyMove, Running
  <2>2. CASE IsProperPrefixOf(Op.from, Op.path)
    BY <1>5, <2>2 DEF ApplyMove, Fail, Failure, Fails
  <2>3. CASE ~IsProperPrefixOf(Op.from, Op.path) /\ taken.result.ok
    <3>1. Written(WritePointer(Op.path, taken.root, taken.result.value, "Add", FALSE))
      BY <1>5, <2>3 DEF ApplyMove
    <3>2. Wrote(Op.path, taken.root, taken.result.value, "Add", root') => After(Op, root, root')
      BY <2>1, <2>3 DEF After, Moved, PlainWrite
    <3> QED BY <3>1, <3>2, WrittenIs DEF Succeeds
  <2>4. CASE ~IsProperPrefixOf(Op.from, Op.path) /\ ~taken.result.ok
    BY <1>5, <2>4 DEF ApplyMove, Fail, Failure, Fails
  <2> QED BY <2>2, <2>3, <2>4
<1>6. CASE ApplyTest
  <2>1. Op.kind = "Test"
    BY <1>6 DEF ApplyTest, Running
  <2>2. CASE Continue(root)
    BY <2>1, <2>2 DEF Continue, Succeeds, After
  <2>3. CASE \E code, detail : Fail(code, detail)
    BY <2>3 DEF Fail, Failure, Fails
  <2> QED BY <1>6, <2>2, <2>3 DEF ApplyTest
<1> QED BY <1>1, <1>2, <1>3, <1>4, <1>5, <1>6 DEF LoopStep

-----------------------------------------------------------------------------
(* The working copy is a well-formed value throughout. *)

\* The working copy and the caller's variable are well formed.
RootJson == IsJson(root) /\ IsJson(doc)

\* What an operation writes is well formed.
LEMMA OperandJson ==
  ASSUME NEW x \in Json \cup {Undefined}
  PROVE  IsJson(NewValue(x))
<1>1. CASE x \in Json
  <2>1. IsJson(x)
    BY <1>1, JsonAssumption, DefinedAssumption DEF IsJson
  <2> QED BY <2>1, JsonUnfold DEF NewValue
<1>2. CASE x = Undefined
  BY <1>2, NullJson DEF NewValue, IsUndefined, Undefined
<1> QED BY <1>1, <1>2

\* The operation in hand is one that a patch may hold.
LEMMA OpTypes ==
  ASSUME TypeOK, PatchKnown, n < Len(patch)
  PROVE  /\ Op.kind \in Kinds /\ Op.path \in Seq(TokenType) /\ Op.from \in Seq(TokenType)
         /\ IsJson(NewValue(Op.value))
<1>1. patch \in Patches
  BY DEF PatchKnown, TypeOK
<1>2. n + 1 \in 1..Len(patch)
  BY <1>1, PatchesAssumption DEF TypeOK
<1>3. /\ Op.kind \in Kinds /\ Op.path \in Seq(TokenType) /\ Op.from \in Seq(TokenType)
      /\ Op.value \in Json \cup {Undefined}
  BY <1>1, <1>2, PatchesAssumption DEF Op
<1> QED BY <1>3, OperandJson

\* An operation that succeeds leaves a well-formed value.
LEMMA AfterJson ==
  ASSUME NEW op, op.kind \in Kinds, op.path \in Seq(TokenType), op.from \in Seq(TokenType),
         IsJson(NewValue(op.value)), NEW v, IsJson(v), NEW u, After(op, v, u)
  PROVE  IsJson(u)
<1>1. CASE op.kind \in {"Add", "Replace"}
  BY <1>1, WriteKeepsJson DEF After, Wrote, WriteOps
<1>2. CASE op.kind = "Remove"
  BY <1>2, WriteKeepsJson, NullJson DEF After, Wrote, WriteOps
<1>3. CASE op.kind = "Copy"
  <2> DEFINE x == EvaluatePointer(op.from, v).value
  <2>1. EvaluatePointer(op.from, v).ok /\ Wrote(op.path, v, x, "Add", u)
    BY <1>3 DEF After, Copied
  <2>2. IsJson(x)
    BY <2>1, EvalJson
  <2>3. IsJson(NewValue(x))
    BY <2>2, NullJson DEF NewValue
  <2> QED BY <2>1, <2>3, WriteKeepsJson DEF Wrote, WriteOps
<1>4. CASE op.kind = "Move"
  <2> DEFINE w == PlainWrite(op.from, v, Null, "Remove")
  <2>1. w.result.ok /\ Wrote(op.path, w.root, w.result.value, "Add", u)
    BY <1>4 DEF After, Moved
  <2>2. IsJson(NewValue(w.result.value)) /\ IsJson(w.root)
    BY <2>1, RemoveThenAdd
  <2> QED BY <2>1, <2>2, WriteKeepsJson DEF Wrote, WriteOps
<1>5. CASE op.kind = "Test"
  BY <1>5 DEF After
<1> QED BY <1>1, <1>2, <1>3, <1>4, <1>5 DEF Kinds

\* The working copy and the caller's variable stay well formed.
LEMMA NextKeepsJson ==
  ASSUME TypeOK, PatchKnown, RootJson, [Next]_vars
  PROVE  RootJson'
<1>1. CASE \E p \in Patches, ip \in BOOLEAN : Apply(p, ip)
  BY <1>1 DEF Apply, RootJson
<1>2. CASE LoopStep
  <2>1. CASE Succeeds
    <3>1. n < Len(patch)
      BY <1>2, LoopStepForm
    <3>2. IsJson(root')
      BY <2>1, <3>1, OpTypes, AfterJson DEF Succeeds, RootJson
    <3> QED BY <2>1, <3>2 DEF Succeeds, RootJson
  <2>2. CASE Fails
    BY <2>2 DEF Fails, RootJson
  <2> QED BY <1>2, <2>1, <2>2, LoopStepIs
<1>3. CASE Finish
  BY <1>3 DEF Finish, RootJson
<1>4. CASE UNCHANGED vars
  BY <1>4 DEF vars, RootJson
<1> QED BY <1>1, <1>2, <1>3, <1>4 DEF Next, Step, LoopStep

\* Every document is well formed.
LEMMA InitJson ==
  ASSUME Init
  PROVE  RootJson
BY JsonAssumption, DefinedAssumption, DocumentsAssumption DEF Init, RootJson, IsJson

-----------------------------------------------------------------------------
(* A move neither loses nor duplicates. *)

\* What a move that succeeds leaves, of a well-formed document.
LEMMA MovedIs ==
  ASSUME NEW op, op.path \in Seq(TokenType), op.from \in Seq(TokenType), op.path # <<>>,
         NEW v, IsJson(v), NEW u, Moved(op, v, u)
  PROVE  LET mid == PlainWrite(op.from, v, Null, "Remove").root
             back == PlainWrite(op.path, u, Null, "Remove")
             Removable == ~IsAppendToken(Last(op.path)) \/ back.result.ok
         IN /\ ~IsAppendToken(Last(op.path)) =>
                 EvaluatePointer(op.path, u) = EvaluatePointer(op.from, v)
            /\ Removable /\ ~Overwrites(op.path, mid) =>
                 /\ back.result.ok /\ back.root = mid
                 /\ PlainWrite(op.from, mid, back.result.value, "Add").root = v
<1> DEFINE taken == PlainWrite(op.from, v, Null, "Remove")
           x == taken.result.value
           mid == taken.root
           back == PlainWrite(op.path, u, Null, "Remove")
<1>1. taken.result.ok /\ Wrote(op.path, mid, x, "Add", u)
  BY DEF Moved
<1>2. /\ EvaluatePointer(op.from, v) = Success(x)
      /\ IsJson(x) /\ NewValue(x) = x /\ IsJson(mid)
      /\ PlainWrite(op.from, mid, x, "Add").root = v
  BY <1>1, RemoveThenAdd
<1>3. u = PlainWrite(op.path, mid, x, "Add").root /\ PlainWrite(op.path, mid, x, "Add").result.ok
  BY <1>1 DEF Wrote
<1> HIDE DEF taken, x, mid
<1>4. /\ ~IsAppendToken(Last(op.path)) => EvaluatePointer(op.path, u) = Success(x)
      /\ (~IsAppendToken(Last(op.path)) \/ back.result.ok) /\ ~Overwrites(op.path, mid) =>
           back.result.ok /\ back.root = mid /\ back.result.value = x
  BY <1>2, <1>3, AddThenRemove
<1> QED BY <1>2, <1>4 DEF taken, x, mid

\* A move neither loses nor duplicates data: the moved-to location holds what the
\* moved-from location held, and unless the move overwrote a member, taking it out
\* again leaves what the removal left (applyOps, MoveOp).
THEOREM MovesConserve == Spec => MoveConserves
<1> DEFINE IInv == TypeOK /\ PatchKnown /\ RootJson
           A == (ApplyMove /\ pc' = "applying") =>
                  LET op == Op
                      mid == WritePointer(op.from, root, Null, "Remove", FALSE).root
                      back == WritePointer(op.path, root', Null, "Remove", FALSE)
                  IN (op.path # <<>> /\ ~IsAppendToken(Last(op.path))) =>
                       /\ EvaluatePointer(op.path, root') = EvaluatePointer(op.from, root)
                       /\ ~Overwrites(op.path, mid) => back.result.ok /\ back.root = mid
<1>1. Init => IInv
  BY InitHolds, InitJson
<1>2. IInv /\ [Next]_vars => IInv'
  BY NextKeepsTypes, NextKeepsJson
<1>3. IInv /\ [Next]_vars => [A]_vars
  <2> SUFFICES ASSUME IInv, ApplyMove, pc' = "applying", Op.path # <<>>, ~IsAppendToken(Last(Op.path))
               PROVE  LET mid == PlainWrite(Op.from, root, Null, "Remove").root
                          back == PlainWrite(Op.path, root', Null, "Remove")
                      IN /\ EvaluatePointer(Op.path, root') = EvaluatePointer(Op.from, root)
                         /\ ~Overwrites(Op.path, mid) => back.result.ok /\ back.root = mid
    BY DEF PlainWrite
  <2>1. LoopStep /\ Op.kind = "Move"
    BY DEF LoopStep, ApplyMove, Running
  <2>2. Succeeds
    BY <2>1, LoopStepIs DEF Fails
  <2>3. Moved(Op, root, root')
    BY <2>1, <2>2 DEF Succeeds, After
  <2>4. Op.path \in Seq(TokenType) /\ Op.from \in Seq(TokenType) /\ IsJson(root)
    BY <2>1, LoopStepForm, OpTypes DEF RootJson
  <2> QED BY <2>3, <2>4, MovedIs
<1> QED
  BY <1>1, <1>2, <1>3, PTL DEF Spec, MoveConserves

-----------------------------------------------------------------------------
(* An operation and its inverse. *)

\* A call that returned success applied every operation, and returned the
\* working copy.
DoneIsRoot == (pc = "done" /\ outcome.ok) => n = Len(patch) /\ outcome = Success(root)

\* Only the end of the loop reports success.
LEMMA NextKeepsDone ==
  ASSUME DoneIsRoot, [Next]_vars
  PROVE  DoneIsRoot'
<1>1. CASE \E p \in Patches, ip \in BOOLEAN : Apply(p, ip)
  BY <1>1 DEF Apply, DoneIsRoot
<1>2. CASE LoopStep
  <2>1. pc = "applying"
    BY <1>2, LoopStepForm
  <2>2. CASE Succeeds
    BY <2>1, <2>2 DEF Succeeds, DoneIsRoot
  <2>3. CASE Fails
    BY <2>3 DEF Fails, DoneIsRoot
  <2> QED BY <1>2, <2>2, <2>3, LoopStepIs
<1>3. CASE Finish
  <2>1. CASE Holds(holder, root)
    BY <1>3, <2>1 DEF Finish, DoneIsRoot
  <2>2. CASE ~Holds(holder, root)
    BY <1>3, <2>2 DEF Finish, Failure, DoneIsRoot
  <2> QED BY <2>1, <2>2
<1>4. CASE UNCHANGED vars
  BY <1>4 DEF vars, DoneIsRoot
<1> QED BY <1>1, <1>2, <1>3, <1>4 DEF Next, Step, LoopStep

\* Where a call stands that applies a patch which undoes itself: at the document,
\* after the first operation on it, or at the document again.
Undoing ==
  ~inPlace /\ Undoes(patch) /\ ~FirstOverwrites(patch, doc) =>
    /\ n = 0 => root = doc
    /\ n = 1 => After(patch[1], doc, root)
    /\ n = 2 => root = doc

\* The second operation of such a patch takes back the first.
LEMMA SecondUndoes ==
  ASSUME NEW p \in Patches, Undoes(p), NEW v, IsJson(v), ~FirstOverwrites(p, v),
         NEW u, After(p[1], v, u), NEW w, After(p[2], u, w)
  PROVE  w = v
<1>1. /\ p[1].path \in Seq(TokenType) /\ p[1].from \in Seq(TokenType)
      /\ p[1].value \in Json \cup {Undefined}
  BY PatchesAssumption, 1 \in 1..2 DEF Undoes
<1>2. CASE p[1].kind = "Add" /\ p[2].kind = "Remove" /\ p[1].path = p[2].path
  <2>1. Wrote(p[1].path, v, p[1].value, "Add", u) /\ Wrote(p[1].path, u, Null, "Remove", w)
    BY <1>2 DEF After
  <2>2. p[1].path # <<>>
    BY <2>1 DEF Wrote, PlainWrite, WritePointer, Failure
  <2>3. ~Overwrites(p[1].path, v)
    BY <1>2 DEF FirstOverwrites
  <2>4. IsJson(NewValue(p[1].value))
    BY <1>1, OperandJson
  <2> QED BY <1>1, <2>1, <2>2, <2>3, <2>4, AddThenRemove DEF Wrote
<1>3. CASE /\ p[1].kind = "Move" /\ p[2].kind = "Move"
           /\ p[1].path = p[2].from /\ p[1].from = p[2].path
  <2> DEFINE mid == PlainWrite(p[1].from, v, Null, "Remove").root
             back == PlainWrite(p[1].path, u, Null, "Remove")
  <2>1. Moved(p[1], v, u)
    BY <1>3 DEF After
  <2>2. back.result.ok /\ Wrote(p[1].from, back.root, back.result.value, "Add", w)
    BY <1>3 DEF After, Moved
  <2>3. p[1].path # <<>>
    BY <2>2 DEF PlainWrite, WritePointer, Failure
  <2>4. ~Overwrites(p[1].path, mid)
    BY <1>3 DEF FirstOverwrites, PlainWrite
  <2>5. back.root = mid /\ PlainWrite(p[1].from, mid, back.result.value, "Add").root = v
    BY <1>1, <2>1, <2>2, <2>3, <2>4, MovedIs
  <2> QED BY <2>2, <2>5 DEF Wrote
<1> QED BY <1>2, <1>3 DEF Undoes

\* The first operation leaves its result, the second takes it back.
LEMMA NextKeepsUndoing ==
  ASSUME TypeOK, PatchKnown, RootJson, Undoing, [Next]_vars
  PROVE  Undoing'
<1>1. CASE \E p \in Patches, ip \in BOOLEAN : Apply(p, ip)
  BY <1>1 DEF Apply, Undoing
<1>2. CASE LoopStep
  <2>1. n < Len(patch)
    BY <1>2, LoopStepForm
  <2>2. CASE Succeeds
    <3> SUFFICES ASSUME ~inPlace, Undoes(patch), ~FirstOverwrites(patch, doc)
                 PROVE  /\ n' = 1 => After(patch[1], doc, root')
                        /\ n' = 2 => root' = doc
                        /\ n' # 0
      <4>1. inPlace' = inPlace /\ patch' = patch /\ doc' = doc
        BY <2>2 DEF Succeeds
      <4> QED BY <4>1 DEF Undoing, Undoes, FirstOverwrites
    <3>1. n \in 0..1 /\ patch \in Patches
      <4>1. Len(patch) = 2
        BY DEF Undoes
      <4> QED BY <2>1, <4>1 DEF TypeOK, PatchKnown
    <3>2. n' = n + 1 /\ After(patch[n + 1], root, root')
      BY <2>2 DEF Succeeds, Op
    <3>3. CASE n = 0
      BY <3>2, <3>3 DEF Undoing
    <3>4. CASE n = 1
      <4>1. After(patch[1], doc, root) /\ After(patch[2], root, root')
        BY <3>2, <3>4 DEF Undoing
      <4>2. IsJson(doc)
        BY DEF RootJson
      <4>3. root' = doc
        BY <3>1, <4>1, <4>2, SecondUndoes, Zenon
      <4> QED BY <3>2, <3>4, <4>3
    <3> QED BY <3>1, <3>3, <3>4
  <2>3. CASE Fails
    BY <2>3 DEF Fails, Undoing
  <2> QED BY <1>2, <2>2, <2>3, LoopStepIs
<1>3. CASE Finish
  <2>1. ~inPlace => doc' = doc
    BY <1>3 DEF Finish
  <2> QED BY <1>3, <2>1 DEF Finish, Undoing
<1>4. CASE UNCHANGED vars
  BY <1>4 DEF vars, Undoing
<1> QED BY <1>1, <1>2, <1>3, <1>4 DEF Next, Step, LoopStep

\* An operation and its inverse restore the document exactly, if nothing is
\* overwritten: element shifts cancel out, no member is left behind (applyOps).
THEOREM UndoRestored == Spec => []UndoRestores
<1> DEFINE IInv == TypeOK /\ PatchKnown /\ RootJson /\ DoneIsRoot /\ Undoing
<1>1. Init => IInv
  <2>1. Init => DoneIsRoot
    BY DEF Init, DoneIsRoot
  <2>2. Init => Undoing
    <3>1. Init => Len(patch) = 0
      BY DEF Init
    <3> QED BY <3>1 DEF Undoing, Undoes
  <2> QED BY <2>1, <2>2, InitHolds, InitJson
<1>2. IInv /\ [Next]_vars => IInv'
  BY NextKeepsTypes, NextKeepsJson, NextKeepsDone, NextKeepsUndoing
<1>3. IInv => UndoRestores
  BY DEF DoneIsRoot, Undoing, UndoRestores, Undoes, Success
<1> QED
  BY <1>1, <1>2, <1>3, PTL DEF Spec

-----------------------------------------------------------------------------
(* The recursion of merge_patch: it ends, because a patch is finitely nested. *)

Targets == Json \cup {Undefined}

\* What a patch makes of a target, the merges of its members being f.
MergeWith(f, pt, tg) ==
  IF ~IsObject(pt) THEN pt
  ELSE Object([q \in (DOMAIN MembersOf(tg) \ RemovedBy(pt)) \cup SetBy(pt) |->
                 IF q \notin SetBy(pt) THEN MembersOf(tg)[q]
                 ELSE f[pt.members[q]][MemberOf(tg, q)]])

MergesOnce(f) == [pt \in Json |-> [tg \in Targets |-> MergeWith(f, pt, tg)]]

\* f and g merge patches nested less than k deep in the same way.
AgreeBelow(f, g, k) == \A pt \in Json : Nesting[pt] < k => f[pt] = g[pt]

\* A member of a patch is a patch that is nested less deeply.
LEMMA PatchMember ==
  ASSUME NEW pt \in Json, IsObject(pt), NEW q \in DOMAIN pt.members
  PROVE  pt.members[q] \in Json /\ Nesting[pt.members[q]] < Nesting[pt]
<1>1. pt.members[q] \in Children(pt)
  BY DEF Children
<1> QED BY <1>1, JsonAssumption, NestingAssumption DEF DownwardClosed

\* The merge of a patch needs the merges of patches nested less deeply only.
LEMMA OnceFromBelow ==
  ASSUME NEW f, NEW g, NEW pt \in Json, AgreeBelow(f, g, Nesting[pt])
  PROVE  MergesOnce(f)[pt] = MergesOnce(g)[pt]
<1>1. ASSUME NEW tg \in Targets
      PROVE  MergeWith(f, pt, tg) = MergeWith(g, pt, tg)
  <2>1. CASE ~IsObject(pt)
    BY <2>1 DEF MergeWith
  <2>2. CASE IsObject(pt)
    <3>1. \A q \in SetBy(pt) : f[pt.members[q]] = g[pt.members[q]]
      <4>1. \A q \in SetBy(pt) : q \in DOMAIN pt.members
        BY DEF SetBy
      <4> QED BY <2>2, <4>1, PatchMember DEF AgreeBelow
    <3> QED BY <2>2, <3>1 DEF MergeWith
  <2> QED BY <2>1, <2>2
<1> QED BY <1>1 DEF MergesOnce

\* Unrolling the recursion once carries an agreement one level up.
LEMMA OnceAgree ==
  ASSUME NEW k \in Nat, NEW f, NEW g, AgreeBelow(f, g, k)
  PROVE  AgreeBelow(MergesOnce(f), MergesOnce(g), k + 1)
<1> SUFFICES ASSUME NEW pt \in Json, Nesting[pt] < k + 1
             PROVE  MergesOnce(f)[pt] = MergesOnce(g)[pt]
  BY DEF AgreeBelow
<1>1. \A x \in Json : Nesting[x] \in Nat
  BY NestingAssumption
<1>2. AgreeBelow(f, g, Nesting[pt])
  BY <1>1 DEF AgreeBelow
<1> QED BY <1>2, OnceFromBelow

\* f is the merge, as far as patches nested less than k deep go.
MergesBelow(f, k) == AgreeBelow(f, MergesOnce(f), k)

\* Two of these agree.
LEMMA MergesBelowUnique ==
  ASSUME NEW m \in Nat, NEW f, NEW g, MergesBelow(f, m), MergesBelow(g, m)
  PROVE  AgreeBelow(f, g, m)
<1> DEFINE S == {k \in 0..m : AgreeBelow(f, g, k)}
<1>0. \A x \in Json : Nesting[x] \in Nat
  BY NestingAssumption
<1>1. 0 \in S
  BY <1>0 DEF AgreeBelow
<1>2. ASSUME NEW k \in 0..m, k \in S, k < m
      PROVE  k + 1 \in S
  <2>1. AgreeBelow(MergesOnce(f), MergesOnce(g), k + 1)
    BY <1>2, OnceAgree
  <2>2. \A pt \in Json : Nesting[pt] < k + 1 => Nesting[pt] < m
    BY <1>0, <1>2
  <2>3. AgreeBelow(f, g, k + 1)
    BY <2>1, <2>2 DEF MergesBelow, AgreeBelow
  <2>4. k + 1 \in 0..m
    BY <1>2
  <2> QED BY <2>3, <2>4
<1>3. 0..m \subseteq S
  <2> HIDE DEF S
  <2> QED BY <1>1, <1>2, Upwards
<1>4. m \in S
  <2>1. m \in 0..m
    OBVIOUS
  <2> HIDE DEF S
  <2> QED BY <1>3, <2>1
<1> QED BY <1>4

\* There is one for every depth ...
LEMMA MergesBelowExists ==
  ASSUME NEW m \in Nat
  PROVE  \E f : MergesBelow(f, m)
<1> DEFINE S == {k \in 0..m : \E f : MergesBelow(f, k)}
<1>1. 0 \in S
  <2>1. \A x \in Json : Nesting[x] \in Nat
    BY NestingAssumption
  <2>2. MergesBelow(0, 0)
    BY <2>1 DEF MergesBelow, AgreeBelow
  <2> QED BY <2>2
<1>2. ASSUME NEW k \in 0..m, k \in S, k < m
      PROVE  k + 1 \in S
  <2>1. PICK f : MergesBelow(f, k)
    BY <1>2
  <2>2. MergesBelow(MergesOnce(f), k + 1)
    BY <2>1, OnceAgree DEF MergesBelow
  <2>3. k + 1 \in 0..m
    BY <1>2
  <2> QED BY <2>2, <2>3
<1>3. 0..m \subseteq S
  <2> HIDE DEF S
  <2> QED BY <1>1, <1>2, Upwards
<1> QED BY <1>3

\* ... so that the merge of every patch exists and is what its recursion says.
LEMMA MergeUnfolds ==
  ASSUME NEW pt \in Json, NEW tg \in Targets
  PROVE  MergeInto[pt][tg] = MergeWith(MergeInto, pt, tg)
<1> DEFINE Upto(m) == CHOOSE f : MergesBelow(f, m)
           h == [p \in Json |-> Upto(Nesting[p] + 1)[p]]
<1>0. \A p \in Json : Nesting[p] \in Nat
  BY NestingAssumption
<1>1. ASSUME NEW m \in Nat
      PROVE  MergesBelow(Upto(m), m)
  BY MergesBelowExists
<1> HIDE DEF Upto
<1>2. ASSUME NEW m \in Nat
      PROVE  AgreeBelow(h, Upto(m), m)
  <2> SUFFICES ASSUME NEW p \in Json, Nesting[p] < m
               PROVE  h[p] = Upto(m)[p]
    BY DEF AgreeBelow
  <2> DEFINE k == Nesting[p] + 1
  <2>1. k \in Nat /\ k <= m /\ Nesting[p] < k
    BY <1>0
  <2>2. h[p] = Upto(k)[p]
    OBVIOUS
  <2> HIDE DEF k, h
  <2>3. MergesBelow(Upto(k), k) /\ MergesBelow(Upto(m), m)
    BY <1>1, <2>1
  <2>4. MergesBelow(Upto(m), k)
    BY <1>0, <2>1, <2>3 DEF MergesBelow, AgreeBelow
  <2>5. AgreeBelow(Upto(k), Upto(m), k)
    BY <2>1, <2>3, <2>4, MergesBelowUnique
  <2> QED BY <2>1, <2>2, <2>5 DEF AgreeBelow
<1>3. ASSUME NEW p \in Json
      PROVE  h[p] = MergesOnce(h)[p]
  <2> DEFINE k == Nesting[p] + 1
             f == Upto(k)
  <2>1. k \in Nat /\ Nesting[p] < k /\ Nesting[p] \in Nat
    BY <1>0
  <2>2. AgreeBelow(h, f, k) /\ MergesBelow(f, k)
    BY <1>1, <1>2, <2>1
  <2> HIDE DEF f, h
  <2>3. h[p] = f[p] /\ f[p] = MergesOnce(f)[p]
    BY <2>1, <2>2 DEF MergesBelow, AgreeBelow
  <2>4. AgreeBelow(h, f, Nesting[p])
    BY <1>0, <2>1, <2>2 DEF AgreeBelow
  <2>5. MergesOnce(h)[p] = MergesOnce(f)[p]
    BY <2>4, OnceFromBelow
  <2> QED BY <2>3, <2>5
<1>4. h = MergesOnce(h)
  <2>1. h = [p \in Json |-> h[p]]
    OBVIOUS
  <2>2. MergesOnce(h) = [p \in Json |-> MergesOnce(h)[p]]
    <3> HIDE DEF h
    <3> QED BY DEF MergesOnce
  <2> HIDE DEF h
  <2> QED BY <1>3, <2>1, <2>2
<1>5. MergeInto = CHOOSE f : f = MergesOnce(f)
  BY DEF MergeInto, MergesOnce, MergeWith, Targets
<1>6. MergeInto = MergesOnce(MergeInto)
  <2> HIDE DEF h
  <2> QED BY <1>4, <1>5
<1>7. MergesOnce(MergeInto)[pt][tg] = MergeWith(MergeInto, pt, tg)
  <2> DEFINE f == MergeInto
  <2> HIDE DEF f
  <2>1. MergesOnce(f)[pt][tg] = MergeWith(f, pt, tg)
    BY DEF MergesOnce
  <2> QED BY <2>1 DEF f
<1> QED BY <1>6, <1>7

-----------------------------------------------------------------------------
(* Reading along a path of keys. *)

\* A path of keys is a key and a path of keys.
LEMMA KeyPathTail ==
  ASSUME NEW path \in KeyPaths, path # <<>>
  PROVE  /\ path \in Seq(TokenType) /\ Tail(path) \in KeyPaths
         /\ Len(path) \in Nat \ {0} /\ Len(Tail(path)) = Len(path) - 1
         /\ path[1] \in TokenType /\ path[1].kind = "Key"
         /\ \A j \in 1..Len(Tail(path)) : Tail(path)[j] = path[j + 1]
<1>1. path \in Seq(TokenType) /\ Len(path) \in Nat \ {0}
  BY EmptySeq, LenProperties DEF KeyPaths
<1>2. /\ Tail(path) \in Seq(TokenType) /\ Len(Tail(path)) = Len(path) - 1
      /\ \A j \in 1..Len(Tail(path)) : Tail(path)[j] = path[j + 1]
  BY <1>1, HeadTailProperties
<1>3. 1 \in 1..Len(path) /\ \A j \in 1..Len(Tail(path)) : j + 1 \in 1..Len(path)
  BY <1>1, <1>2
<1>4. Tail(path) \in KeyPaths
  BY <1>2, <1>3 DEF KeyPaths
<1>5. path[1] \in TokenType
  BY <1>1, <1>3, ElementOfSeq
<1> QED BY <1>1, <1>2, <1>3, <1>4, <1>5 DEF KeyPaths

\* Reading nothing finds the value itself.
LEMMA ReadNothing ==
  ASSUME NEW v
  PROVE  EvaluatePointer(<<>>, v) = Success(v)
<1>1. Len(<<>>) = 0 /\ Len(<<>>) \in Nat
  OBVIOUS
<1>2. IsEvalWalk(EvalWalk(<<>>, v), <<>>, v, 0)
  BY <1>1, EvalWalkUnfolds
<1> QED BY <1>1, <1>2 DEF EvaluatePointer, IsEvalWalk

\* A key leads into an object that has it, and nowhere else.
LEMMA KeySteps ==
  ASSUME NEW v, NEW tk, tk.kind = "Key"
  PROVE  /\ EvalStepError(v, tk) = NoError <=> IsObject(v) /\ HasMember(v, tk.key)
         /\ IsObject(v) => EvalStep(v, tk) = v.members[tk.key]
<1>1. ~IsIndex(tk)
  BY DEF IsIndex
<1>2. CASE IsObject(v)
  <2>1. ~IsArray(v) /\ (EvalStep(v, tk) = v.members[tk.key])
    BY <1>2 DEF IsObject, IsArray, EvalStep
  <2> QED BY <1>2, <2>1 DEF EvalStepError, NoError
<1>3. CASE ~IsObject(v)
  BY <1>1, <1>3 DEF EvalStepError, NoError
<1> QED BY <1>2, <1>3

\* A read is its first step, and a read of what that leads to.
LEMMA ReadFirst ==
  ASSUME NEW path \in KeyPaths, path # <<>>, NEW v
  PROVE  IF IsObject(v) /\ path[1].key \in DOMAIN v.members
         THEN SameFound(EvaluatePointer(path, v),
                        EvaluatePointer(Tail(path), v.members[path[1].key]))
         ELSE ~EvaluatePointer(path, v).ok
<1> DEFINE m == Len(path)
           w == EvalWalk(path, v)
           t == Tail(path)
           x == v.members[path[1].key]
           u == EvalWalk(t, x)
<1>1. m \in Nat \ {0} /\ Len(t) = m - 1 /\ Len(t) \in Nat /\ path[1].kind = "Key"
  BY KeyPathTail
<1>2. IsEvalWalk(w, path, v, m) /\ IsEvalWalk(u, t, x, m - 1)
  BY <1>1, EvalWalkUnfolds
<1> HIDE DEF w, u
<1>3. w[0] = Success(v) /\ \A k \in 1..m : w[k] = EvalAfter(w[k - 1], path[k], k - 1)
  BY <1>1, <1>2 DEF IsEvalWalk
<1>4. u[0] = Success(x) /\ \A k \in 1..m - 1 : u[k] = EvalAfter(u[k - 1], t[k], k - 1)
  <2>1. 0 \in 0..m - 1 /\ \A k \in 1..m - 1 : k \in 0..m - 1 /\ k # 0
    BY <1>1
  <2> HIDE DEF m, t, x
  <2> QED BY <1>2, <2>1 DEF IsEvalWalk
<1>5. \A k \in 1..m - 1 : t[k] = path[k + 1]
  BY <1>1, KeyPathTail
<1> HIDE DEF t, x
<1>6. w[1] = EvalAfter(Success(v), path[1], 0)
  BY <1>1, <1>3
<1>7. EvaluatePointer(path, v) = w[m] /\ EvaluatePointer(t, x) = u[m - 1]
  BY <1>1 DEF EvaluatePointer, w, u
<1>8. CASE IsObject(v) /\ path[1].key \in DOMAIN v.members
  <2> DEFINE S == {k \in 0..m - 1 : SameFound(w[k + 1], u[k])}
  <2>1. EvalStepError(v, path[1]) = NoError /\ EvalStep(v, path[1]) = x
    BY <1>1, <1>8, KeySteps DEF HasMember, x
  <2>2. w[1] = Success(x)
    BY <1>6, <2>1 DEF EvalAfter, Success
  <2>3. 0 \in S
    BY <1>1, <1>4, <2>2 DEF SameFound
  <2>4. ASSUME NEW k \in 0..m - 1, k \in S, k < m - 1
        PROVE  k + 1 \in S
    <3>1. /\ k + 1 \in 1..m - 1 /\ (k + 1) - 1 = k /\ k + 1 \in 0..m - 1
          /\ (k + 1) + 1 \in 1..m /\ ((k + 1) + 1) - 1 = k + 1
      BY <1>1, <2>4
    <3> DEFINE tk == path[(k + 1) + 1]
               a == w[k + 1]
               b == u[k]
    <3>2. w[(k + 1) + 1] = EvalAfter(a, tk, k + 1)
      BY <1>3, <3>1
    <3>3. u[k + 1] = EvalAfter(b, tk, k)
      BY <1>4, <1>5, <3>1
    <3>4. SameFound(a, b)
      BY <2>4
    <3> HIDE DEF tk, a, b
    <3>5. SameFound(EvalAfter(a, tk, k + 1), EvalAfter(b, tk, k))
      <4>1. CASE ~a.ok
        BY <3>4, <4>1 DEF EvalAfter, SameFound
      <4>2. CASE a.ok /\ EvalStepError(a.value, tk) # NoError
        BY <3>4, <4>2 DEF EvalAfter, SameFound, Failure
      <4>3. CASE a.ok /\ EvalStepError(a.value, tk) = NoError
        BY <3>4, <4>3 DEF EvalAfter, SameFound, Success
      <4> QED BY <4>1, <4>2, <4>3
    <3>6. SameFound(w[(k + 1) + 1], u[k + 1])
      BY <3>2, <3>3, <3>5
    <3> QED BY <3>1, <3>6
  <2>5. 0..(m - 1) \subseteq S
    <3>1. m - 1 \in Nat
      BY <1>1
    <3> HIDE DEF S, m
    <3> QED BY <2>3, <2>4, <3>1, Upwards
  <2>6. m - 1 \in S /\ (m - 1) + 1 = m
    <3>1. m - 1 \in 0..(m - 1) /\ (m - 1) + 1 = m
      BY <1>1
    <3> HIDE DEF S, m
    <3> QED BY <2>5, <3>1
  <2>7. SameFound(w[m], u[m - 1])
    BY <2>6
  <2> QED BY <1>7, <1>8, <2>7 DEF t, x
<1>9. CASE ~(IsObject(v) /\ path[1].key \in DOMAIN v.members)
  <2>1. EvalStepError(v, path[1]) # NoError
    BY <1>1, <1>9, KeySteps DEF HasMember
  <2>2. ~w[1].ok
    BY <1>6, <2>1 DEF EvalAfter, Success, Failure
  <2>3. \A k \in 1..m : ~w[k - 1].ok => w[k] = w[k - 1]
    BY <1>3 DEF EvalAfter
  <2>4. m \in Nat /\ 1 \in 0..m
    BY <1>1
  <2>5. w[m] = w[1]
    <3> HIDE DEF m
    <3> QED BY <2>2, <2>3, <2>4, FailureStays
  <2>6. ~EvaluatePointer(path, v).ok
    BY <1>7, <2>2, <2>5
  <2> QED BY <1>9, <2>6
<1> QED BY <1>8, <1>9

\* What follows the first key, and what it ends in.
LEMMA SubSeqOfTail ==
  ASSUME NEW path \in KeyPaths, path # <<>>, NEW a \in Nat \ {0}, NEW b \in 0..Len(path) - 1
  PROVE  SubSeq(path, a + 1, b + 1) = SubSeq(Tail(path), a, b)
<1> DEFINE t == Tail(path)
           s1 == SubSeq(path, a + 1, b + 1)
           s2 == SubSeq(t, a, b)
<1>1. /\ path \in Seq(TokenType) /\ t \in Seq(TokenType) /\ Len(path) \in Nat \ {0}
      /\ Len(t) = Len(path) - 1 /\ \A j \in 1..Len(t) : t[j] = path[j + 1]
  BY KeyPathTail DEF KeyPaths
<1>2. /\ a + 1 \in Int /\ b + 1 \in Int /\ a \in Int /\ b \in Int
      /\ \A j \in a + 1..b + 1 : j \in 1..Len(path)
      /\ \A j \in a..b : j \in 1..Len(t)
      /\ \A j \in 1..b - a + 1 : a + j - 1 \in 1..Len(t) /\ (a + 1) + j - 1 = (a + j - 1) + 1
      /\ b - a + 1 = (b + 1) - (a + 1) + 1 /\ (a <= b <=> a + 1 <= b + 1)
  BY <1>1
<1>3. \A j \in a + 1..b + 1 : path[j] \in TokenType
  BY <1>1, <1>2, ElementOfSeq
<1>4. \A j \in a..b : t[j] \in TokenType
  BY <1>1, <1>2, ElementOfSeq
<1> HIDE DEF t
<1>5. /\ s1 \in Seq(TokenType) /\ Len(s1) = IF a <= b THEN b - a + 1 ELSE 0
      /\ \A j \in 1..b - a + 1 : s1[j] = path[(a + 1) + j - 1]
  <2>1. /\ SubSeq(path, a + 1, b + 1) \in Seq(TokenType)
        /\ Len(SubSeq(path, a + 1, b + 1)) = IF a + 1 <= b + 1 THEN (b + 1) - (a + 1) + 1 ELSE 0
        /\ \A j \in 1..(b + 1) - (a + 1) + 1 : SubSeq(path, a + 1, b + 1)[j] = path[(a + 1) + j - 1]
    BY <1>2, <1>3, SubSeqProperties
  <2> QED BY <1>2, <2>1
<1>6. /\ s2 \in Seq(TokenType) /\ Len(s2) = IF a <= b THEN b - a + 1 ELSE 0
      /\ \A j \in 1..b - a + 1 : s2[j] = t[a + j - 1]
  <2>1. a \in Int /\ b \in Int
    BY <1>2
  <2> HIDE DEF s1
  <2> QED BY <1>4, <2>1, SubSeqProperties
<1> HIDE DEF s1, s2
<1>7. \A j \in 1..Len(s1) : j \in 1..b - a + 1
  BY <1>2, <1>5
<1>8. \A j \in 1..Len(s1) : s1[j] = s2[j]
  BY <1>1, <1>2, <1>5, <1>6, <1>7
<1>9. s1 = s2
  BY <1>5, <1>6, <1>8, SeqEqual
<1> QED BY <1>9 DEF s1, s2, t

\* Reading part of a path: nothing of it, all of it, ...
LEMMA UntilEnds ==
  ASSUME NEW path \in KeyPaths, NEW v
  PROVE  /\ ReadUntil(v, path, 0) = Success(v)
         /\ ReadUntil(v, path, Len(path)) = EvaluatePointer(path, v)
<1>1. SubSeq(path, 1, 0) = <<>>
  BY SubSeqEmpty
<1>2. SubSeq(path, 1, Len(path)) = path
  BY SubSeqFull DEF KeyPaths
<1> QED BY <1>1, <1>2, ReadNothing DEF ReadUntil

\* ... and at least its first key.
LEMMA UntilFirst ==
  ASSUME NEW path \in KeyPaths, path # <<>>, NEW k \in 1..Len(path), NEW v
  PROVE  IF IsObject(v) /\ path[1].key \in DOMAIN v.members
         THEN SameFound(ReadUntil(v, path, k),
                        ReadUntil(v.members[path[1].key], Tail(path), k - 1))
         ELSE ~ReadUntil(v, path, k).ok
<1> DEFINE s == SubSeq(path, 1, k)
<1>1. path \in Seq(TokenType) /\ Len(path) \in Nat \ {0}
  BY KeyPathTail
<1>2. \A j \in 1..k : j \in 1..Len(path) /\ 1 + j - 1 = j /\ path[j] \in TokenType
  BY <1>1, ElementOfSeq
<1>3. s \in Seq(TokenType) /\ Len(s) = k /\ \A j \in 1..k : s[j] = path[j]
  <2>1. 1 \in Int /\ k \in Int /\ 1 <= k /\ k - 1 + 1 = k
    BY <1>1
  <2>2. /\ s \in Seq(TokenType) /\ Len(s) = IF 1 <= k THEN k - 1 + 1 ELSE 0
        /\ \A j \in 1..k - 1 + 1 : s[j] = path[1 + j - 1]
    BY <1>2, <2>1, SubSeqProperties
  <2> QED BY <1>2, <2>1, <2>2
<1>4. s \in KeyPaths /\ s # <<>> /\ s[1] = path[1]
  <2>1. 1 \in 1..k /\ k # 0
    BY <1>1
  <2>2. Len(s) # 0
    BY <1>3, <2>1
  <2> HIDE DEF s
  <2>3. \A j \in 1..Len(s) : s[j].kind = "Key"
    BY <1>2, <1>3 DEF KeyPaths
  <2>4. s \in KeyPaths
    BY <1>3, <2>3 DEF KeyPaths
  <2>5. s # <<>>
    BY <2>2
  <2> QED BY <1>3, <2>1, <2>4, <2>5
<1>5. Tail(s) = SubSeq(Tail(path), 1, k - 1)
  <2>1. 1 \in 1..Len(path) /\ k \in 1..Len(path) /\ k - 1 \in 0..Len(path) - 1 /\ (k - 1) + 1 = k
    BY <1>1
  <2>2. Tail(s) = SubSeq(path, 1 + 1, k)
    BY <1>1, <2>1, HeadTailOfSubSeq
  <2>3. SubSeq(path, 1 + 1, (k - 1) + 1) = SubSeq(Tail(path), 1, k - 1)
    BY <2>1, SubSeqOfTail
  <2> QED BY <2>1, <2>2, <2>3
<1> HIDE DEF s
<1>6. IF IsObject(v) /\ s[1].key \in DOMAIN v.members
      THEN SameFound(EvaluatePointer(s, v), EvaluatePointer(Tail(s), v.members[s[1].key]))
      ELSE ~EvaluatePointer(s, v).ok
  BY <1>4, ReadFirst
<1>7. IF IsObject(v) /\ path[1].key \in DOMAIN v.members
      THEN SameFound(EvaluatePointer(s, v),
                     EvaluatePointer(SubSeq(Tail(path), 1, k - 1), v.members[path[1].key]))
      ELSE ~EvaluatePointer(s, v).ok
  BY <1>4, <1>5, <1>6
<1> QED BY <1>7 DEF ReadUntil, s

-----------------------------------------------------------------------------
(* What is read in the merged value. *)

Merged(pt, tg) == MergeInto[pt][tg]

\* What is merged into a member is a target.
LEMMA MemberTarget ==
  ASSUME NEW tg \in Targets, NEW q
  PROVE  MemberOf(tg, q) \in Targets
<1>1. CASE IsObject(tg) /\ q \in DOMAIN tg.members
  <2>1. tg \in Json
    BY <1>1 DEF Targets, Undefined, IsObject
  <2>2. tg.members[q] \in Json
    BY <1>1, <2>1, PatchMember
  <2> QED BY <1>1, <2>2 DEF MemberOf, MembersOf, Targets
<1>2. CASE ~(IsObject(tg) /\ q \in DOMAIN tg.members)
  <2>1. q \notin DOMAIN MembersOf(tg)
    BY <1>2 DEF MembersOf
  <2> QED BY <2>1 DEF MemberOf, Targets
<1> QED BY <1>1, <1>2

\* An object merges into an object, member by member.
LEMMA MergedObject ==
  ASSUME NEW pt \in Json, IsObject(pt), NEW tg \in Targets
  PROVE  /\ IsObject(Merged(pt, tg))
         /\ DOMAIN Merged(pt, tg).members = (DOMAIN MembersOf(tg) \ RemovedBy(pt)) \cup SetBy(pt)
         /\ \A q \in DOMAIN Merged(pt, tg).members :
              Merged(pt, tg).members[q] = IF q \notin SetBy(pt) THEN MembersOf(tg)[q]
                                          ELSE Merged(pt.members[q], MemberOf(tg, q))
<1> DEFINE D == (DOMAIN MembersOf(tg) \ RemovedBy(pt)) \cup SetBy(pt)
           f == [q \in D |-> IF q \notin SetBy(pt) THEN MembersOf(tg)[q]
                             ELSE Merged(pt.members[q], MemberOf(tg, q))]
<1>1. Merged(pt, tg) = Object(f)
  BY MergeUnfolds DEF MergeWith, Merged
<1>2. DOMAIN f = D /\ \A q \in D : f[q] = IF q \notin SetBy(pt) THEN MembersOf(tg)[q]
                                          ELSE Merged(pt.members[q], MemberOf(tg, q))
  OBVIOUS
<1> HIDE DEF f
<1>3. Object(f).members = f /\ IsObject(Object(f))
  BY DEF Object, IsObject
<1> QED BY <1>1, <1>2, <1>3

\* A patch that is no object replaces the target wholesale.
LEMMA ReadsWholesale ==
  ASSUME NEW pt \in Json, ~IsObject(pt), NEW tg \in Targets, NEW path \in KeyPaths
  PROVE  ReadsAsMerged(tg, pt, Merged(pt, tg), path)
<1> DEFINE spoken == Spoken(pt, path)
           k0 == Min(spoken)
<1>1. Len(path) \in Nat /\ path \in Seq(TokenType)
  BY LenProperties DEF KeyPaths
<1>2. ReadUntil(pt, path, 0).ok /\ ReadUntil(pt, path, 0).value = pt
  BY UntilEnds DEF Success
<1>3. 0 \in spoken /\ spoken \subseteq Nat
  BY <1>1, <1>2 DEF Spoken
<1>4. k0 = 0
  <2> HIDE DEF spoken
  <2>1. k0 \in spoken /\ k0 <= 0
    BY <1>3, MinOfNat, MinLeast
  <2> HIDE DEF k0
  <2> QED BY <1>3, <2>1
<1>5. Merged(pt, tg) = pt
  BY MergeUnfolds DEF Merged, MergeWith
<1>6. SubSeq(path, 0 + 1, Len(path)) = path
  <2>1. 0 + 1 = 1
    OBVIOUS
  <2> QED BY <1>1, <2>1, SubSeqFull
<1>7. /\ ReadUntil(pt, path, k0).value = pt /\ ~(k0 > 0)
      /\ SubSeq(path, k0 + 1, Len(path)) = path
  BY <1>2, <1>4, <1>6
<1>8. spoken # {}
  BY <1>3
<1> HIDE DEF spoken, k0
<1> QED BY <1>5, <1>7, <1>8 DEF ReadsAsMerged, SameFound, spoken, k0

\* The root of the merged value is an object if the patch is.
LEMMA ReadsRoot ==
  ASSUME NEW pt \in Json, IsObject(pt), NEW tg \in Targets
  PROVE  ReadsAsMerged(tg, pt, Merged(pt, tg), <<>>)
<1>1. <<>> \in KeyPaths /\ Len(<<>>) = 0
  BY EmptySeq DEF KeyPaths
<1>2. ReadUntil(pt, <<>>, 0) = Success(pt) /\ EvaluatePointer(<<>>, pt) = Success(pt)
  BY <1>1, UntilEnds, ReadNothing
<1>3. Spoken(pt, <<>>) = {}
  <2>1. \A k \in 0..0 : k = 0
    OBVIOUS
  <2> QED BY <1>1, <1>2, <2>1 DEF Spoken, Success
<1>4. IsObject(Merged(pt, tg)) /\ EvaluatePointer(<<>>, Merged(pt, tg)) = Success(Merged(pt, tg))
  BY MergedObject, ReadNothing
<1> QED BY <1>2, <1>3, <1>4 DEF ReadsAsMerged, Success

\* An object speaks nowhere before the first key.
LEMMA SpokenLater ==
  ASSUME NEW pt, IsObject(pt), NEW path \in KeyPaths, path # <<>>
  PROVE  /\ 0 \notin Spoken(pt, path)
         /\ Spoken(pt, path) \subseteq 1..Len(path)
         /\ path[1].key \notin DOMAIN pt.members => Spoken(pt, path) = {}
<1>1. Len(path) \in Nat \ {0}
  BY KeyPathTail
<1>2. 0 \notin Spoken(pt, path)
  BY UntilEnds DEF Spoken, Success
<1>3. \A k \in 0..Len(path) : k # 0 => k \in 1..Len(path)
  BY <1>1
<1>4. Spoken(pt, path) \subseteq 1..Len(path)
  BY <1>2, <1>3 DEF Spoken
<1>5. path[1].key \notin DOMAIN pt.members => \A k \in 1..Len(path) : ~ReadUntil(pt, path, k).ok
  BY UntilFirst
<1>6. path[1].key \notin DOMAIN pt.members => Spoken(pt, path) = {}
  BY <1>4, <1>5 DEF Spoken
<1> QED BY <1>2, <1>4, <1>6

\* What the patch does not mention is the target's.
LEMMA ReadsOwn ==
  ASSUME NEW pt \in Json, IsObject(pt), NEW tg \in Targets, NEW path \in KeyPaths, path # <<>>,
         path[1].key \notin DOMAIN pt.members
  PROVE  ReadsAsMerged(tg, pt, Merged(pt, tg), path)
<1> DEFINE q == path[1].key
           mg == Merged(pt, tg)
<1>1. Spoken(pt, path) = {} /\ ~EvaluatePointer(path, pt).ok
  BY SpokenLater, ReadFirst
<1>2. q \notin SetBy(pt) /\ q \notin RemovedBy(pt)
  BY DEF SetBy, RemovedBy
<1>3. /\ IsObject(mg) /\ (q \in DOMAIN mg.members <=> q \in DOMAIN MembersOf(tg))
      /\ q \in DOMAIN mg.members => mg.members[q] = MembersOf(tg)[q]
  BY <1>2, MergedObject
<1> HIDE DEF mg
<1>4. q \in DOMAIN MembersOf(tg) <=> IsObject(tg) /\ q \in DOMAIN tg.members
  BY DEF MembersOf
<1>5. CASE q \in DOMAIN MembersOf(tg)
  <2>1. mg.members[q] = tg.members[q] /\ IsObject(tg) /\ q \in DOMAIN tg.members
    BY <1>3, <1>4, <1>5 DEF MembersOf
  <2>2. SameFound(EvaluatePointer(path, mg), EvaluatePointer(Tail(path), tg.members[q]))
    BY <1>3, <1>5, <2>1, ReadFirst
  <2>3. SameFound(EvaluatePointer(path, tg), EvaluatePointer(Tail(path), tg.members[q]))
    BY <2>1, ReadFirst
  <2>4. SameFound(EvaluatePointer(path, mg), EvaluatePointer(path, tg))
    BY <2>2, <2>3 DEF SameFound
  <2> QED BY <1>1, <2>4 DEF ReadsAsMerged, mg
<1>6. CASE q \notin DOMAIN MembersOf(tg)
  <2>1. ~EvaluatePointer(path, mg).ok
    BY <1>3, <1>6, ReadFirst
  <2>2. ~EvaluatePointer(path, tg).ok
    BY <1>4, <1>6, ReadFirst
  <2>3. SameFound(EvaluatePointer(path, mg), EvaluatePointer(path, tg))
    BY <2>1, <2>2 DEF SameFound
  <2> QED BY <1>1, <2>3 DEF ReadsAsMerged, mg
<1> QED BY <1>5, <1>6

\* A member that is null in the patch is not in the merged value.
LEMMA ReadsRemoved ==
  ASSUME NEW pt \in Json, IsObject(pt), NEW tg \in Targets, NEW path \in KeyPaths, path # <<>>,
         path[1].key \in RemovedBy(pt)
  PROVE  ReadsAsMerged(tg, pt, Merged(pt, tg), path)
<1> DEFINE q == path[1].key
           mg == Merged(pt, tg)
           spoken == Spoken(pt, path)
           k0 == Min(spoken)
<1>1. q \in DOMAIN pt.members /\ IsNull(pt.members[q]) /\ q \notin SetBy(pt)
  BY DEF RemovedBy, SetBy
<1>2. Len(path) \in Nat \ {0} /\ Tail(path) \in KeyPaths
  BY KeyPathTail
<1>3. 1 \in 1..Len(path) /\ 1 - 1 = 0
  BY <1>2
<1>4. SameFound(ReadUntil(pt, path, 1), Success(pt.members[q]))
  <2>1. SameFound(ReadUntil(pt, path, 1), ReadUntil(pt.members[q], Tail(path), 1 - 1))
    BY <1>1, <1>3, UntilFirst
  <2> QED BY <1>2, <1>3, <2>1, UntilEnds
<1>5. ReadUntil(pt, path, 1).ok /\ IsNull(ReadUntil(pt, path, 1).value)
  BY <1>1, <1>4 DEF SameFound, Success
<1>6. 1 \in spoken /\ spoken \subseteq Nat /\ 0 \notin spoken
  <2>1. spoken \subseteq Nat /\ 0 \notin spoken
    BY <1>2, SpokenLater
  <2>2. 1 \in 0..Len(path)
    BY <1>2
  <2>3. ~IsObject(ReadUntil(pt, path, 1).value)
    BY <1>5 DEF IsNull, IsObject
  <2> QED BY <1>5, <2>1, <2>2, <2>3 DEF Spoken
<1>7. k0 = 1
  <2> HIDE DEF spoken
  <2>1. k0 \in spoken /\ k0 <= 1
    BY <1>6, MinOfNat, MinLeast
  <2> HIDE DEF k0
  <2> QED BY <1>6, <2>1
<1>8. IsObject(mg) /\ q \notin DOMAIN mg.members
  BY <1>1, MergedObject
<1> HIDE DEF mg
<1>9. ~EvaluatePointer(path, mg).ok
  BY <1>8, ReadFirst
<1>10. spoken # {} /\ IsNull(ReadUntil(pt, path, k0).value) /\ k0 > 0
  BY <1>5, <1>6, <1>7
<1> HIDE DEF spoken, k0
<1> QED BY <1>9, <1>10 DEF ReadsAsMerged, spoken, k0, mg

\* A member that the patch sets is what the patch makes of the target's.
LEMMA ReadsInside ==
  ASSUME NEW pt \in Json, IsObject(pt), NEW tg \in Targets, NEW path \in KeyPaths, path # <<>>,
         path[1].key \in SetBy(pt),
         ReadsAsMerged(MemberOf(tg, path[1].key), pt.members[path[1].key],
                       Merged(pt.members[path[1].key], MemberOf(tg, path[1].key)), Tail(path))
  PROVE  ReadsAsMerged(tg, pt, Merged(pt, tg), path)
<1> DEFINE q == path[1].key
           t == Tail(path)
           m == Len(path)
           inner == pt.members[q]
           own == MemberOf(tg, q)
           mg == Merged(pt, tg)
           mi == Merged(inner, own)
           outerSpoken == Spoken(pt, path)
           innerSpoken == Spoken(inner, t)
           i0 == Min(innerSpoken)
           o0 == Min(outerSpoken)
<1>1. q \in DOMAIN pt.members /\ q \notin RemovedBy(pt) /\ ~IsNull(inner)
  BY DEF RemovedBy, SetBy
<1>2. m \in Nat \ {0} /\ t \in KeyPaths /\ Len(t) = m - 1 /\ t \in Seq(TokenType)
  BY KeyPathTail DEF KeyPaths
<1>3. IsObject(mg) /\ q \in DOMAIN mg.members /\ mg.members[q] = mi
  BY MergedObject
<1> HIDE DEF mg, mi
<1>4. SameFound(EvaluatePointer(path, mg), EvaluatePointer(t, mi))
  BY <1>3, ReadFirst
<1>5. SameFound(EvaluatePointer(path, pt), EvaluatePointer(t, inner))
  BY <1>1, ReadFirst
<1>6. \A k \in 1..m : SameFound(ReadUntil(pt, path, k), ReadUntil(inner, t, k - 1))
  BY <1>1, UntilFirst
<1>7. \A k \in 0..m - 1 : k + 1 \in outerSpoken <=> k \in innerSpoken
  <2> SUFFICES ASSUME NEW k \in 0..m - 1
               PROVE  k + 1 \in outerSpoken <=> k \in innerSpoken
    OBVIOUS
  <2>1. k + 1 \in 1..m /\ (k + 1) - 1 = k /\ k + 1 \in 0..m /\ k \in 0..Len(t)
    BY <1>2
  <2>2. SameFound(ReadUntil(pt, path, k + 1), ReadUntil(inner, t, k))
    BY <1>6, <2>1
  <2> HIDE DEF t, inner
  <2> QED BY <2>1, <2>2 DEF Spoken, SameFound
<1>8. outerSpoken \subseteq 1..m /\ innerSpoken \subseteq 0..m - 1
  <2>1. innerSpoken \subseteq 0..Len(t)
    BY DEF Spoken
  <2> QED BY <1>2, <2>1, SpokenLater
<1>9. CASE innerSpoken # {}
  <2>1. i0 \in innerSpoken /\ \A k \in innerSpoken : i0 <= k
    <3>1. innerSpoken \subseteq Nat
      BY <1>2, <1>8
    <3> HIDE DEF innerSpoken
    <3> QED BY <1>9, <3>1, MinOfNat, MinLeast
  <2>2. i0 \in 0..m - 1 /\ i0 + 1 \in outerSpoken
    <3> HIDE DEF innerSpoken, outerSpoken, i0
    <3> QED BY <1>7, <1>8, <2>1
  <2>3. o0 \in outerSpoken /\ o0 <= i0 + 1
    <3>1. outerSpoken \subseteq Nat
      BY <1>2, <1>8
    <3> HIDE DEF outerSpoken, i0
    <3> QED BY <2>2, <3>1, MinOfNat, MinLeast
  <2>4. o0 = i0 + 1
    <3> HIDE DEF innerSpoken, outerSpoken, i0, o0, m
    <3>1. o0 \in 1..m
      BY <1>8, <2>3
    <3>2. o0 - 1 \in 0..m - 1 /\ (o0 - 1) + 1 = o0
      BY <1>2, <3>1
    <3>3. o0 - 1 \in innerSpoken
      BY <1>7, <2>3, <3>2
    <3>4. i0 <= o0 - 1
      BY <2>1, <3>3
    <3> QED BY <1>2, <2>2, <2>3, <3>1, <3>4
  <2>5. /\ i0 + 1 \in 1..m /\ (i0 + 1) - 1 = i0 /\ i0 + 1 \in Nat \ {0} /\ i0 + 1 > 0
        /\ m - 1 \in 0..m - 1 /\ (m - 1) + 1 = m /\ i0 \in Nat
    <3> HIDE DEF i0, m
    <3> QED BY <1>2, <2>2
  <2>6. /\ ReadUntil(pt, path, o0).value = ReadUntil(inner, t, i0).value
        /\ ReadUntil(inner, t, i0).ok
    <3>1. SameFound(ReadUntil(pt, path, i0 + 1), ReadUntil(inner, t, i0))
      <4> HIDE DEF i0, m, t, inner
      <4> QED BY <1>6, <2>5
    <3>2. ReadUntil(inner, t, i0).ok
      <4> HIDE DEF i0
      <4> QED BY <2>1 DEF Spoken
    <3> HIDE DEF i0, o0, t, inner
    <3> QED BY <2>4, <3>1, <3>2 DEF SameFound
  <2>7. SubSeq(path, o0 + 1, Len(path)) = SubSeq(t, i0 + 1, Len(t))
    <3> DEFINE a == i0 + 1
    <3>1. SubSeq(path, a + 1, (m - 1) + 1) = SubSeq(Tail(path), a, m - 1)
      <4>1. a \in Nat \ {0} /\ m - 1 \in 0..Len(path) - 1
        BY <2>5
      <4> HIDE DEF a, m
      <4> QED BY <4>1, SubSeqOfTail
    <3>2. o0 = a /\ (m - 1) + 1 = Len(path) /\ Len(t) = m - 1
      BY <1>2, <2>4, <2>5
    <3> HIDE DEF a, o0
    <3> QED BY <3>1, <3>2 DEF a
  <2>8. IF IsNull(ReadUntil(inner, t, i0).value) /\ i0 > 0 THEN ~EvaluatePointer(t, mi).ok
        ELSE SameFound(EvaluatePointer(t, mi),
                       EvaluatePointer(SubSeq(t, i0 + 1, Len(t)), ReadUntil(inner, t, i0).value))
    BY <1>9 DEF ReadsAsMerged, mi
  <2>9. IsNull(ReadUntil(inner, t, i0).value) => i0 > 0
    <3>1. CASE i0 = 0
      <4>1. ReadUntil(inner, t, 0).value = inner
        <5> HIDE DEF inner
        <5> QED BY <1>2, UntilEnds DEF Success
      <4> HIDE DEF i0, inner
      <4> QED BY <1>1, <3>1, <4>1
    <3>2. CASE i0 # 0
      <4> HIDE DEF i0
      <4> QED BY <2>5, <3>2
    <3> QED BY <3>1, <3>2
  <2>10. outerSpoken # {} /\ o0 > 0
    <3> HIDE DEF i0, o0, outerSpoken, m
    <3> QED BY <2>3, <2>4, <2>5
  <2> DEFINE said == ReadUntil(inner, t, i0).value
             rest == EvaluatePointer(SubSeq(t, i0 + 1, Len(t)), said)
             found == EvaluatePointer(path, mg)
  <2>11. IF IsNull(said) THEN ~found.ok ELSE SameFound(found, rest)
    <3> DEFINE below == EvaluatePointer(t, mi)
    <3>1. IF IsNull(said) THEN ~below.ok ELSE SameFound(below, rest)
      BY <2>8, <2>9
    <3>2. SameFound(found, below)
      BY <1>4
    <3> HIDE DEF said, rest, found, below
    <3> QED BY <3>1, <3>2 DEF SameFound
  <2>12. /\ ReadUntil(pt, path, o0).value = said
         /\ EvaluatePointer(SubSeq(path, o0 + 1, Len(path)), ReadUntil(pt, path, o0).value) = rest
    BY <2>6, <2>7
  <2> HIDE DEF said, rest, found, outerSpoken, o0
  <2> QED BY <2>10, <2>11, <2>12 DEF ReadsAsMerged, found, outerSpoken, o0, mg
<1>10. CASE innerSpoken = {}
  <2>1. outerSpoken = {}
    <3>1. ASSUME NEW k \in outerSpoken
          PROVE  FALSE
      <4>1. k \in 1..m
        BY <1>8
      <4>2. k - 1 \in 0..m - 1 /\ (k - 1) + 1 = k
        BY <1>2, <4>1
      <4> HIDE DEF innerSpoken, outerSpoken, m
      <4>3. k - 1 \in innerSpoken
        BY <1>7, <4>2
      <4> QED BY <1>10, <4>3
    <3> QED BY <3>1
  <2>2. IF EvaluatePointer(t, inner).ok
        THEN EvaluatePointer(t, mi).ok /\ IsObject(EvaluatePointer(t, mi).value)
        ELSE SameFound(EvaluatePointer(t, mi), EvaluatePointer(t, own))
    BY <1>10 DEF ReadsAsMerged, mi
  <2>3. CASE EvaluatePointer(t, inner).ok
    <3>1. EvaluatePointer(path, pt).ok
      BY <1>5, <2>3 DEF SameFound
    <3>2. EvaluatePointer(path, mg).ok /\ IsObject(EvaluatePointer(path, mg).value)
      BY <1>4, <2>2, <2>3 DEF SameFound
    <3> QED BY <2>1, <3>1, <3>2 DEF ReadsAsMerged, mg
  <2>4. CASE ~EvaluatePointer(t, inner).ok
    <3>1. ~EvaluatePointer(path, pt).ok
      BY <1>5, <2>4 DEF SameFound
    <3>2. t # <<>>
      <4>1. CASE t = <<>>
        <5>1. EvaluatePointer(<<>>, inner).ok
          BY ReadNothing DEF Success
        <5> QED BY <2>4, <4>1, <5>1
      <4> QED BY <4>1
    <3>3. SameFound(EvaluatePointer(t, own), EvaluatePointer(path, tg))
      <4>1. CASE IsObject(tg) /\ q \in DOMAIN tg.members
        <5>1. own = tg.members[q]
          BY <4>1 DEF MemberOf, MembersOf
        <5>2. SameFound(EvaluatePointer(path, tg), EvaluatePointer(t, tg.members[q]))
          BY <4>1, ReadFirst
        <5> HIDE DEF own, t, q
        <5> QED BY <5>1, <5>2 DEF SameFound
      <4>2. CASE ~(IsObject(tg) /\ q \in DOMAIN tg.members)
        <5>1. own = Undefined
          BY <4>2 DEF MemberOf, MembersOf
        <5>2. ~EvaluatePointer(t, Undefined).ok
          <6>1. ~IsObject(Undefined)
            BY DEF Undefined, IsObject
          <6> HIDE DEF t
          <6> QED BY <1>2, <3>2, <6>1, ReadFirst
        <5>3. ~EvaluatePointer(path, tg).ok
          BY <4>2, ReadFirst
        <5> HIDE DEF own, t
        <5> QED BY <5>1, <5>2, <5>3 DEF SameFound
      <4> QED BY <4>1, <4>2
    <3>4. SameFound(EvaluatePointer(path, mg), EvaluatePointer(path, tg))
      <4> HIDE DEF t, own, inner
      <4> QED BY <1>4, <2>2, <2>4, <3>3 DEF SameFound
    <3> QED BY <2>1, <3>1, <3>4 DEF ReadsAsMerged, mg
  <2> QED BY <2>3, <2>4
<1> QED BY <1>9, <1>10

\* At every place, by the length of the path to it.
LEMMA MergedReads ==
  ASSUME NEW pt \in Json, NEW tg \in Targets, NEW path \in KeyPaths
  PROVE  ReadsAsMerged(tg, pt, Merged(pt, tg), path)
<1> DEFINE m == Len(path)
           S == {k \in 0..m : \A p \in KeyPaths, x \in Json, y \in Targets :
                                Len(p) = k => ReadsAsMerged(y, x, Merged(x, y), p)}
<1>1. m \in Nat
  BY LenProperties DEF KeyPaths
<1>2. 0 \in S
  <2> SUFFICES ASSUME NEW p \in KeyPaths, NEW x \in Json, NEW y \in Targets, Len(p) = 0
               PROVE  ReadsAsMerged(y, x, Merged(x, y), p)
    BY <1>1
  <2>1. p = <<>>
    BY EmptySeq DEF KeyPaths
  <2> QED BY <2>1, ReadsRoot, ReadsWholesale
<1>3. ASSUME NEW k \in 0..m, k \in S, k < m
      PROVE  k + 1 \in S
  <2>1. ASSUME NEW p \in KeyPaths, NEW x \in Json, NEW y \in Targets, Len(p) = k + 1
        PROVE  ReadsAsMerged(y, x, Merged(x, y), p)
    <3> DEFINE q == p[1].key
    <3>1. p # <<>>
      BY <1>1, <2>1, EmptySeq
    <3>2. Tail(p) \in KeyPaths /\ Len(Tail(p)) = k
      BY <1>1, <2>1, <3>1, KeyPathTail
    <3>3. CASE ~IsObject(x)
      BY <3>3, ReadsWholesale
    <3>4. CASE IsObject(x) /\ q \notin DOMAIN x.members
      BY <3>1, <3>4, ReadsOwn
    <3>5. CASE IsObject(x) /\ q \in RemovedBy(x)
      BY <3>1, <3>5, ReadsRemoved
    <3>6. CASE IsObject(x) /\ q \in SetBy(x)
      <4>1. x.members[q] \in Json /\ MemberOf(y, q) \in Targets
        <5>1. q \in DOMAIN x.members
          BY <3>6 DEF SetBy
        <5> QED BY <3>6, <5>1, PatchMember, MemberTarget
      <4>2. ReadsAsMerged(MemberOf(y, q), x.members[q], Merged(x.members[q], MemberOf(y, q)), Tail(p))
        <5>1. \A b \in KeyPaths, c \in Json, d \in Targets :
                Len(b) = k => ReadsAsMerged(d, c, Merged(c, d), b)
          BY <1>3
        <5> HIDE DEF q, S
        <5> QED BY <3>2, <4>1, <5>1
      <4> QED BY <3>1, <3>6, <4>2, ReadsInside
    <3>7. q \in DOMAIN x.members => q \in RemovedBy(x) \/ q \in SetBy(x)
      BY DEF SetBy
    <3> QED BY <3>3, <3>4, <3>5, <3>6, <3>7
  <2>2. k + 1 \in 0..m
    BY <1>1, <1>3
  <2> QED BY <2>1, <2>2
<1>4. 0..m \subseteq S
  <2> HIDE DEF S, m
  <2> QED BY <1>1, <1>2, <1>3, Upwards
<1>5. m \in S
  <2>1. m \in 0..m
    BY <1>1
  <2> HIDE DEF S, m
  <2> QED BY <1>4, <2>1
<1>6. \A p \in KeyPaths, x \in Json, y \in Targets :
        Len(p) = m => ReadsAsMerged(y, x, Merged(x, y), p)
  BY <1>5
<1> HIDE DEF S
<1> QED BY <1>6

\* Whatever a patch that a document can hold makes of a value, a document can
\* hold.
LEMMA MergeFits ==
  ASSUME NEW pt \in Json, NEW tg \in Targets, Holds("document", pt)
  PROVE  MergeDocuments(tg, pt) = Merge(tg, pt)
<1>1. ~IsUndefined(pt) /\ Merge(tg, pt) = Merged(pt, tg) /\ (IsContainer(pt) \/ IsNull(pt))
  <2>1. IsContainer(pt) \/ IsNull(pt)
    BY DEF Holds
  <2>2. ~IsUndefined(pt)
    BY <2>1 DEF IsContainer, IsNull, IsUndefined, IsObject, IsArray
  <2> QED BY <2>1, <2>2 DEF Merge, Merged
<1>2. CASE IsObject(pt)
  <2>1. IsContainer(Merge(tg, pt))
    BY <1>1, <1>2, MergedObject DEF IsContainer
  <2> QED BY <2>1 DEF MergeDocuments
<1>3. CASE ~IsObject(pt)
  <2>1. Merge(tg, pt) = pt
    BY <1>1, <1>3, MergeUnfolds DEF Merged, MergeWith
  <2> QED BY <1>1, <2>1 DEF MergeDocuments
<1> QED BY <1>2, <1>3

\* Before the call, the document is one of the documents.
Untouched == pc = "idle" => doc \in Documents

\* Nothing returns to the state before the call.
LEMMA NextKeepsUntouched ==
  ASSUME Untouched, [Next]_vars
  PROVE  Untouched'
<1>1. CASE LoopStep
  BY <1>1, LoopStepForm DEF Untouched, Continue, Fail
<1>2. CASE Finish
  BY <1>2 DEF Finish, Untouched
<1>3. CASE \E p \in Patches, ip \in BOOLEAN : Apply(p, ip)
  BY <1>3 DEF Apply, Untouched
<1>4. CASE UNCHANGED vars
  BY <1>4 DEF vars, Untouched
<1> QED BY <1>1, <1>2, <1>3, <1>4 DEF Next, Step, LoopStep

\* A merge patch removes, replaces and merges members as documented, at every
\* place of the result, and the overload for documents loses nothing
\* (merge_patch).
THEOREM MergesMeant == Spec => []MergesAsMeant
<1>1. Init => Untouched
  BY DEF Init, Untouched
<1>2. Untouched /\ [Next]_vars => Untouched'
  BY NextKeepsUntouched
<1>3. Untouched => MergesAsMeant
  <2> SUFFICES ASSUME Untouched, pc = "idle", NEW pt \in Documents
               PROVE  /\ \A path \in Paths : ReadsAsMerged(doc, pt, Merge(doc, pt), path)
                      /\ Holds("document", pt) => MergeDocuments(doc, pt) = Merge(doc, pt)
    BY DEF MergesAsMeant
  <2>1. pt \in Json /\ doc \in Targets
    BY DocumentsAssumption DEF Untouched, Targets
  <2>2. Merge(doc, pt) = Merged(pt, doc)
    <3>1. ~IsUndefined(pt)
      BY <2>1, JsonAssumption, DefinedAssumption DEF DownwardClosed, WellShaped
    <3> QED BY <3>1 DEF Merge, Merged
  <2>3. \A path \in Paths : ReadsAsMerged(doc, pt, Merge(doc, pt), path)
    BY <2>1, <2>2, PathsAssumption, MergedReads
  <2>4. Holds("document", pt) => MergeDocuments(doc, pt) = Merge(doc, pt)
    BY <2>1, MergeFits
  <2> QED BY <2>3, <2>4
<1> QED BY <1>1, <1>2, <1>3, PTL DEF Spec

=============================================================================
