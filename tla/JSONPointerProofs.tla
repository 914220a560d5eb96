-------------------------- MODULE JSONPointerProofs --------------------------
(***************************************************************************)
(* Proofs about JSONPointer, for every set of documents, values and        *)
(* pointers and sessions of any length.                                    *)
(***************************************************************************)
EXTENDS JSONPointer, PointerOpsProofs

\* The PathStep recorded for token tk inside container c.
StepOf(c, tk) == [container |-> c, token |-> tk, resolvedIndex |-> ResolvedIndex(c, tk)]

\* Rebuilding a level of the spine: the parent holds the new child where the
\* descent went through it.
LEMMA ReattachHolds ==
  ASSUME NEW c, IsJson(c), NEW tk \in TokenType, NEW create, NEW x, IsJson(x),
         DescendError(c, tk, create) = NoError
  PROVE  /\ IsJson(Reattach(c, tk, ResolvedIndex(c, tk), x))
         /\ HoldsAt(Reattach(c, tk, ResolvedIndex(c, tk), x), StepOf(c, tk), x)
<1> DEFINE new == Reattach(c, tk, ResolvedIndex(c, tk), x)
<1>0. StepOf(c, tk).resolvedIndex = ResolvedIndex(c, tk) /\ StepOf(c, tk).token = tk
  BY DEF StepOf
<1>1. CASE IsObject(c)
  <2>1. ResolvedIndex(c, tk) = -1 /\ new = InsertMember(c, tk.key, x)
    BY <1>1 DEF ResolvedIndex, Reattach
  <2> QED
    BY <1>0, <1>1, <2>1, JsonInsertMember DEF HoldsAt, InsertMember, HasMember, Object, IsObject
<1>2. CASE IsArray(c)
  <2> DEFINE p == ResolvedIndex(c, tk)
  <2>1. p \in 0..Size(c)
    BY <1>2, ResolvedInside
  <2>2. Size(c) \in Nat
    BY <1>2, JsonElements DEF Size
  <2> HIDE DEF p
  <2>3. CASE p = Size(c)
    <3>1. new = Array(Append(c.elements, x))
      BY <2>1, <2>2, <2>3 DEF Reattach, p
    <3>2. c.elements \in Seq(Children(c) \cup {x})
      BY <1>2, JsonElements, SeqMonotonic
    <3>3. /\ Append(c.elements, x) \in Seq(Children(c) \cup {x})
          /\ Len(Append(c.elements, x)) = Len(c.elements) + 1
          /\ Append(c.elements, x)[Len(c.elements) + 1] = x
      BY <3>2, AppendProperties
    <3>4. IsJson(new)
      BY <1>2, <3>1, <3>3, JsonFromElements
    <3> QED
      BY <1>0, <2>1, <2>2, <2>3, <3>1, <3>3, <3>4
      DEF HoldsAt, Array, IsArray, Size, ElementAt, p
  <2>4. CASE p < Size(c)
    <3>1. new = ReplaceElement(c, p, x)
      BY <2>1, <2>2, <2>4 DEF Reattach, p
    <3> QED
      BY <1>0, <1>2, <2>1, <2>4, <3>1, ElementEdits DEF HoldsAt, p
  <2> QED
    BY <2>1, <2>2, <2>3, <2>4
<1> QED
  BY <1>1, <1>2, ResolvedInside DEF IsContainer

\* Editing the leaf container: it is well formed, and holds an added or
\* replaced value at the leaf's step.
LEMMA LeafEditHolds ==
  ASSUME NEW c, IsJson(c), NEW tk \in TokenType, NEW op \in WriteOps, NEW x, IsJson(x),
         LeafError(c, tk, op) = NoError
  PROVE  /\ IsJson(LeafEdit(c, tk, op, x))
         /\ op # "Remove" => HoldsAt(LeafEdit(c, tk, op, x), StepOf(c, tk), x)
<1> DEFINE new == LeafEdit(c, tk, op, x)
<1>0. StepOf(c, tk).resolvedIndex = ResolvedIndex(c, tk) /\ StepOf(c, tk).token = tk
  BY DEF StepOf
<1>1. CASE IsObject(c)
  <2>1. ResolvedIndex(c, tk) = -1
    BY <1>1 DEF ResolvedIndex
  <2>2. CASE op = "Remove"
    BY <1>1, <2>2, JsonRemoveMember DEF LeafEdit
  <2>3. CASE op # "Remove"
    <3>1. new = InsertMember(c, tk.key, x)
      BY <1>1, <2>3 DEF LeafEdit
    <3> QED
      BY <1>0, <1>1, <2>1, <3>1, JsonInsertMember DEF HoldsAt, InsertMember, HasMember, Object, IsObject
  <2> QED
    BY <2>2, <2>3
<1>2. CASE IsArray(c)
  <2> DEFINE p == ResolvedIndex(c, tk)
  <2>1. p \in 0..Size(c) /\ (op # "Add" => p < Size(c))
    BY <1>2, ResolvedInside
  <2>2. ~IsObject(c)
    BY <1>2 DEF IsObject, IsArray
  <2> HIDE DEF p
  <2>3. new = CASE op = "Add" -> InsertElement(c, p, x)
                [] op = "Replace" -> ReplaceElement(c, p, x)
                [] op = "Remove" -> RemoveElement(c, p)
    BY <2>2 DEF LeafEdit, p
  <2> HIDE DEF new
  <2>4. CASE op = "Add"
    BY <1>0, <1>2, <2>1, <2>3, <2>4, ElementEdits DEF HoldsAt, p, new
  <2>5. CASE op = "Replace"
    BY <1>0, <1>2, <2>1, <2>3, <2>5, ElementEdits DEF HoldsAt, p, new
  <2>6. CASE op = "Remove"
    BY <1>2, <2>1, <2>3, <2>6, ElementEdits DEF new
  <2> QED
    BY <2>4, <2>5, <2>6 DEF WriteOps
<1> QED
  BY <1>1, <1>2, ResolvedInside DEF IsContainer

\* Replacing a null by the container created for it keeps a value well formed.
LEMMA MaterialiseJson ==
  ASSUME NEW c, IsJson(c), NEW tk, NEW create
  PROVE  IsJson(Materialise(c, tk, create))
BY CreatedJson DEF Materialise


-----------------------------------------------------------------------------
(* Type correctness. *)

\* The arguments of a call: what Begin gives it and every step keeps.
LEMMA BeginTypes ==
  ASSUME TypeOK, Call
  PROVE  TypeOK'
<1>1. PICK op \in WriteOps \cup {"Evaluate"}, tokens \in Pointers,
           value \in Values \cup {Undefined, Null}, create \in BOOLEAN :
             Begin(op, tokens, value, create)
  BY DEF Call, CallEvaluate, CallAdd, CallReplace, CallRemove, CallSet, WriteOps
<1>2. tokens \in Seq(TokenType) /\ Len(tokens) \in Nat
  BY PointersAssumption, LenProperties
<1>3. ~IsUndefined(NewValue(value))
  BY DEF NewValue, IsUndefined, Null
<1>4. tokens # <<>> => 0 < Len(tokens)
  BY <1>2, EmptySeq
<1>5. Len(<<>>) = 0
  OBVIOUS
<1> QED
  BY <1>1, <1>2, <1>3, <1>4, <1>5, MaxCallsAssumption DEF TypeOK, Begin, WriteOps

\* Every loop iteration and every return keeps the types.
LEMMA StepTypes ==
  ASSUME TypeOK, IsSequence(path), Step
  PROVE  TypeOK' /\ IsSequence(path)'
<1>0. Len(call.tokens) \in Nat /\ (call.tokens = <<>> => Len(call.tokens) = 0)
  BY LenProperties, EmptySeq DEF TypeOK
<1>1. CASE EvalIterate
  <2>1. i' \in 0..i + 1
    BY <1>1, <1>0, U16MaxAssumption DEF EvalIterate, TypeOK
  <2> QED
    BY <1>1, <1>0, <2>1 DEF EvalIterate, TypeOK
<1>2. CASE EvalFails \/ EvalReturns \/ WalkFails
  BY <1>2, <1>0 DEF EvalFails, EvalReturns, WalkFails, Return, TypeOK
<1>3. CASE WriteRoot
  <2>1. i = 0 /\ Len(path) = 0 /\ Len(call.tokens) = 0 /\ 1..1 = {1}
    BY <1>3, <1>0 DEF WriteRoot, TypeOK
  <2>2. CASE call.op = "Remove"
    BY <1>3, <2>1, <2>2 DEF WriteRoot, Return, TypeOK
  <2>3. CASE call.op # "Remove"
    <3>1. DOMAIN rebuilt' = i + 1 .. Len(call.tokens) + 1
      BY <1>3, <2>1, <2>3 DEF WriteRoot
    <3> QED
      BY <1>3, <2>1, <2>3, <3>1 DEF WriteRoot, TypeOK
  <2> QED
    BY <2>2, <2>3
<1>4. CASE DescendObject \/ DescendArray
  <2>1. Descend
    BY <1>4 DEF DescendObject, DescendArray
  <2>2. IsSequence(path') /\ Len(path') = Len(path) + 1
    BY <2>1, AppendToSequence DEF Descend
  <2> QED
    BY <1>0, <2>1, <2>2 DEF Descend, TypeOK
<1>5. CASE LeafObject \/ LeafArray
  <2>1. EditLeaf
    BY <1>5 DEF LeafObject, LeafArray
  <2>2. IsSequence(path') /\ Len(path') = Len(path) + 1
    BY <2>1, AppendToSequence DEF EditLeaf
  <2> QED
    BY <1>0, <2>1, <2>2 DEF EditLeaf, TypeOK
<1>6. CASE Unwind
  BY <1>6, <1>0 DEF Unwind, TypeOK
<1>7. CASE Commit
  BY <1>7, <1>0 DEF Commit, Return, TypeOK
<1> QED
  BY <1>1, <1>2, <1>3, <1>4, <1>5, <1>6, <1>7 DEF Step

\* The first state, before any call, is well typed.
LEMMA InitTypes == Init => TypeOK /\ IsSequence(path)
<1> SUFFICES ASSUME Init PROVE TypeOK /\ IsSequence(path)
  OBVIOUS
<1>1. <<>> \in Seq(TokenType) /\ Len(<<>>) = 0
  BY EmptySeq
<1> QED
  BY <1>1, MaxCallsAssumption DEF Init, TypeOK, NoCall, IsSequence, Holders

\* Every step of a session, or none, keeps the types.
LEMMA NextTypes ==
  ASSUME TypeOK, IsSequence(path), [Next]_vars
  PROVE  TypeOK' /\ IsSequence(path)'
<1>1. CASE Call
  <2>1. path' = <<>> /\ <<>> \in Seq(TokenType)
    BY <1>1, EmptySeq DEF Call, CallEvaluate, CallAdd, CallReplace, CallRemove, CallSet, Begin
  <2> QED
    BY <1>1, <2>1, BeginTypes DEF IsSequence
<1>2. CASE Step
  BY <1>2, StepTypes
<1>3. CASE UNCHANGED vars
  BY <1>3 DEF vars, TypeOK
<1> QED
  BY <1>1, <1>2, <1>3 DEF Next

\* The locals of a call keep their types, whatever is called.
THEOREM TypeCorrect == Spec => []TypeOK
<1>1. Init => TypeOK /\ IsSequence(path)
  BY InitTypes
<1>2. TypeOK /\ IsSequence(path) /\ [Next]_vars => TypeOK' /\ IsSequence(path)'
  BY NextTypes
<1> QED
  BY <1>1, <1>2, PTL DEF Spec


-----------------------------------------------------------------------------
(* The variable keeps the kind its C++ type fixes, and changes only in the *)
(* step that returns success.                                              *)

\* Every step but Commit leaves the caller's variable alone.
LEMMA OnlyCommitWrites ==
  ASSUME [Next]_vars, ~Commit
  PROVE  UNCHANGED <<holder, doc, written>>
<1>1. CASE Call
  BY <1>1 DEF Call, CallEvaluate, CallAdd, CallReplace, CallRemove, CallSet, Begin
<1>2. CASE Step
  BY <1>2 DEF Step, EvalIterate, EvalFails, EvalReturns, WriteRoot, DescendObject, DescendArray,
              Descend, LeafObject, LeafArray, EditLeaf, WalkFails, Unwind
<1>3. CASE UNCHANGED vars
  BY <1>3 DEF vars
<1> QED
  BY <1>1, <1>2, <1>3 DEF Next

\* A QJsonObject stays an object, a QJsonArray an array, a document never
\* holds a scalar.
THEOREM HolderKindKept == Spec => []HolderKind
<1>1. Init => HolderKind
  BY DEF Init, HolderKind
<1>2. HolderKind /\ [Next]_vars => HolderKind'
  <2> SUFFICES ASSUME HolderKind, [Next]_vars PROVE HolderKind'
    OBVIOUS
  <2>1. CASE Commit
    BY <2>1 DEF Commit, HolderKind, Return
  <2>2. CASE ~Commit
    BY <2>2, OnlyCommitWrites DEF HolderKind
  <2> QED
    BY <2>1, <2>2
<1> QED
  BY <1>1, <1>2, PTL DEF Spec

\* The write loops belong to write calls, the evaluator's loop to evaluate.
CommitIsWrite ==
  /\ pc \in {"walk", "unwind"} => call.op \in WriteOps
  /\ pc = "eval" => call.op = "Evaluate"

\* The write loops run for write calls only, the evaluator for evaluate only.
LEMMA NextIsWrite ==
  ASSUME CommitIsWrite, [Next]_vars
  PROVE  CommitIsWrite'
<1>1. CASE Call
  BY <1>1 DEF Call, CallEvaluate, CallAdd, CallReplace, CallRemove, CallSet, Begin,
              CommitIsWrite, WriteOps
<1>2. CASE Step
  BY <1>2 DEF Step, EvalIterate, EvalFails, EvalReturns, WriteRoot, DescendObject, DescendArray,
              Descend, LeafObject, LeafArray, EditLeaf, WalkFails, Unwind, Commit, Return,
              CommitIsWrite
<1>3. CASE UNCHANGED vars
  BY <1>3 DEF vars, CommitIsWrite
<1> QED
  BY <1>1, <1>2, <1>3 DEF Next

\* The caller's variable changes only in a step that returns success.
THEOREM StrongGuaranteeHolds == Spec => StrongGuarantee
<1>1. Init => CommitIsWrite
  BY DEF Init, CommitIsWrite
<1>2. ASSUME CommitIsWrite, [Next]_vars
      PROVE  /\ CommitIsWrite'
             /\ [doc' # doc => pc' = "idle" /\ outcome'.ok /\ call.op \in WriteOps]_vars
  <2>1. CommitIsWrite'
    BY <1>2, NextIsWrite
  <2>2. CASE Commit
    BY <2>1, <2>2, <1>2 DEF Commit, Return, Success, CommitIsWrite
  <2>3. CASE ~Commit
    BY <2>1, <2>3, <1>2, OnlyCommitWrites
  <2> QED
    BY <2>2, <2>3
<1> QED
  BY <1>1, <1>2, PTL DEF Spec, StrongGuarantee

-----------------------------------------------------------------------------
(* Read your writes. *)

\* Every pointer is short enough for the evaluator's 16-bit loop counter.
FitsCounter == \A p \in Pointers : Len(p) <= U16Max

\* All values in sight are well formed.
JsonInv ==
  /\ IsJson(doc)
  /\ call.op # "none" => IsJson(call.value)
  /\ pc = "walk" => IsJson(current)
  /\ pc \in {"walk", "unwind"} => \A j \in 1..Len(path) : IsJson(path[j].container)
  /\ pc = "unwind" => \A j \in i + 1 .. Len(path) + 1 : IsJson(rebuilt[j])

Shape == TypeOK /\ IsSequence(path) /\ CommitIsWrite /\ Len(call.tokens) <= U16Max

IInv == Shape /\ JsonInv /\ ReadBackInv /\ ReadYourWrite

\* The documents and values a session starts from and passes are well formed.
LEMMA JsonOfConstants ==
  /\ \A v \in Json : IsJson(v)
  /\ \A v \in Values : IsJson(NewValue(v))
<1>1. \A v \in Json : IsJson(v)
  BY JsonAssumption DEF IsJson
<1> QED
  BY <1>1, JsonAssumption, ValuesAssumption DEF NewValue, IsUndefined, Undefined

\* The inductive invariant holds before any call.
LEMMA InitIInv == Init => IInv
<1> SUFFICES ASSUME Init PROVE IInv
  OBVIOUS
<1>1. TypeOK /\ IsSequence(path)
  BY InitTypes
<1>2. Len(<<>>) = 0
  OBVIOUS
<1>3. Shape
  BY <1>1, <1>2, U16MaxAssumption DEF Init, NoCall, Shape, CommitIsWrite
<1>4. JsonInv
  BY JsonOfConstants DEF Init, NoCall, JsonInv
<1>5. ReadBackInv /\ ReadYourWrite
  BY DEF Init, NoCall, NotWritten, ReadBackInv, PathInv, UnwindInv, WrittenInv, EvalInv, ReadYourWrite
<1> QED
  BY <1>3, <1>4, <1>5 DEF IInv

\* Starting a call.
LEMMA CallIInv ==
  ASSUME FitsCounter, IInv, Call
  PROVE  IInv'
<1>1. PICK op \in WriteOps \cup {"Evaluate"}, tokens \in Pointers,
           value \in Values \cup {Undefined, Null}, create \in BOOLEAN :
             Begin(op, tokens, value, create)
  BY DEF Call, CallEvaluate, CallAdd, CallReplace, CallRemove, CallSet, WriteOps
<1>2. IsJson(NewValue(value))
  BY JsonOfConstants, JsonAssumption DEF NewValue, IsUndefined, Undefined, Null
<1>3. Len(<<>>) = 0 /\ path' = <<>>
  BY <1>1 DEF Begin
<1>4. Shape'
  <2>1. CommitIsWrite'
    BY <1>1 DEF Begin, CommitIsWrite, WriteOps
  <2>2. IsSequence(path)'
    BY <1>3, EmptySeq DEF IsSequence
  <2> QED
    BY <1>1, <2>1, <2>2, BeginTypes DEF IInv, Shape, Begin, FitsCounter
<1>5. JsonInv'
  BY <1>1, <1>2, <1>3 DEF IInv, JsonInv, Begin
<1>6. ReadBackInv'
  <2>1. PathInv' /\ UnwindInv'
    BY <1>1, <1>3 DEF PathInv, UnwindInv, Begin
  <2>2. WrittenInv'
    BY <1>1 DEF IInv, ReadBackInv, WrittenInv, Begin
  <2>3. EvalInv'
    BY <1>1 DEF IInv, ReadBackInv, WrittenInv, EvalInv, Begin
  <2> QED
    BY <2>1, <2>2, <2>3 DEF ReadBackInv
<1>7. ReadYourWrite'
  BY <1>1 DEF ReadYourWrite, Begin
<1> QED
  BY <1>4, <1>5, <1>6, <1>7 DEF IInv

\* One iteration of the evaluator on the written location walks one level down
\* the spine that the write left, so it cannot fail.
LEMMA EvalOnSpine ==
  ASSUME IInv, pc = "eval", i < Len(call.tokens),
         written.known, Addresses(call.tokens, written.path)
  PROVE  /\ EvalStepError(current, call.tokens[i + 1]) = NoError
         /\ EvalStep(current, call.tokens[i + 1]) = written.spine[i + 2]
<1> DEFINE j == i + 1
           tk == call.tokens[j]
           where == written.path[j]
<1>0. i \in Nat /\ Len(call.tokens) \in Nat /\ Len(written.path) = Len(call.tokens)
  BY LenProperties DEF IInv, Shape, TypeOK, Addresses
<1>1. j \in 1..Len(written.path) /\ j + 1 = i + 2
  BY <1>0
<1>2. current = written.spine[j] /\ HoldsAt(written.spine[j], where, written.spine[j + 1])
  BY <1>1 DEF IInv, ReadBackInv, EvalInv, WrittenInv, Linked
<1>3. IF where.resolvedIndex >= 0 THEN IsIndex(tk) /\ tk.index = where.resolvedIndex
      ELSE tk.key = where.token.key
  BY <1>1 DEF Addresses
<1> HIDE DEF j, tk, where
<1>4. CASE where.resolvedIndex >= 0
  BY <1>1, <1>2, <1>3, <1>4
  DEF HoldsAt, EvalStepError, EvalStep, IsArray, IsObject, tk, j
<1>5. CASE ~(where.resolvedIndex >= 0)
  BY <1>1, <1>2, <1>3, <1>5
  DEF HoldsAt, EvalStepError, EvalStep, HasMember, IsArray, IsObject, tk, j
<1> QED
  BY <1>4, <1>5

\* The counter does not wrap while it stays below its modulus.
LEMMA ModSmall ==
  ASSUME NEW k \in Nat \ {0}, NEW n \in Nat, n < k
  PROVE  n % k = n
BY SMTT(30)

\* An iteration, an error or the return of the evaluator.
LEMMA EvalIInv ==
  ASSUME IInv, EvalIterate \/ EvalFails \/ EvalReturns
  PROVE  IInv'
<1>0. i \in Nat /\ Len(call.tokens) \in Nat /\ Len(call.tokens) <= U16Max /\ i \in 0..Len(call.tokens)
  BY LenProperties DEF IInv, Shape, TypeOK
<1>1. Step
  BY DEF Step
<1>2. Shape'
  BY <1>1, StepTypes DEF IInv, Shape, CommitIsWrite, EvalIterate, EvalFails, EvalReturns, Return
<1>3. JsonInv'
  BY DEF IInv, JsonInv, EvalIterate, EvalFails, EvalReturns, Return
<1>4. PathInv' /\ UnwindInv' /\ WrittenInv'
  BY DEF IInv, ReadBackInv, PathInv, UnwindInv, WrittenInv, EvalIterate, EvalFails, EvalReturns, Return
<1>5. CASE EvalIterate
  <2>1. i' = i + 1
    <3>1. i + 1 < U16Max + 1 /\ i + 1 \in Nat /\ U16Max + 1 \in Nat \ {0}
      BY <1>0, <1>5, U16MaxAssumption DEF EvalIterate
    <3> QED
      BY <1>5, <3>1, ModSmall DEF EvalIterate
  <2>2. EvalInv'
    <3>1. SUFFICES ASSUME written.known, Addresses(call.tokens, written.path)
                   PROVE  current' = written.spine[i' + 1]
      BY <1>5 DEF EvalIterate, EvalInv
    <3>2. i' + 1 = i + 2
      BY <1>0, <2>1
    <3> QED
      BY <1>5, <3>1, <3>2, EvalOnSpine DEF EvalIterate
  <2>3. ReadYourWrite'
    BY <1>5 DEF EvalIterate, ReadYourWrite
  <2> QED
    BY <1>2, <1>3, <1>4, <2>2, <2>3 DEF IInv, ReadBackInv
<1>6. CASE EvalFails
  <2>1. EvalInv'
    BY <1>6 DEF EvalFails, Return, EvalInv
  <2>2. ReadYourWrite'
    BY <1>6, EvalOnSpine DEF EvalFails, ReadYourWrite
  <2> QED
    BY <1>2, <1>3, <1>4, <2>1, <2>2 DEF IInv, ReadBackInv
<1>7. CASE EvalReturns
  <2>1. EvalInv'
    BY <1>7 DEF EvalReturns, Return, EvalInv
  <2>2. ReadYourWrite'
    <3>1. i = Len(call.tokens)
      BY <1>0, <1>7 DEF EvalReturns
    <3> QED
      BY <1>7, <3>1 DEF EvalReturns, Return, ReadYourWrite, IInv, ReadBackInv, EvalInv,
                        WrittenInv, Addresses, Success
  <2> QED
    BY <1>2, <1>3, <1>4, <2>1, <2>2 DEF IInv, ReadBackInv
<1> QED
  BY <1>5, <1>6, <1>7


\* The container an iteration of the walk works on is well formed.
LEMMA CurJson ==
  ASSUME IInv, pc = "walk"
  PROVE  IsJson(Cur)
BY MaterialiseJson DEF Cur, IInv, JsonInv

\* Going one level down.
LEMMA DescendIInv ==
  ASSUME IInv, Descend
  PROVE  IInv'
<1>0. /\ i \in Nat /\ Len(call.tokens) \in Nat /\ i + 1 < Len(call.tokens) /\ i = Len(path)
      /\ call.tokens \in Seq(TokenType) /\ pc = "walk" /\ IsSequence(path)
  BY LenProperties DEF IInv, Shape, TypeOK, Descend
<1>1. /\ Len(path') = i + 1 /\ path'[i + 1] = PathStep
      /\ \A j \in 1..i : path'[j] = path[j]
  BY <1>0, AppendToSequence DEF Descend
<1>2. IsJson(Cur) /\ Tk \in TokenType /\ DescendError(Cur, Tk, call.create) = NoError
  BY <1>0, CurJson, ElementOfSeq DEF Tk, Descend
<1>3. Shape'
  <2>1. TypeOK' /\ IsSequence(path)'
    <3>1. IsObject(Cur) \/ IsArray(Cur)
      BY <1>2, ResolvedInside DEF IsContainer
    <3> QED
      BY <3>1, StepTypes DEF IInv, Shape, Step, DescendObject, DescendArray
  <2> QED
    BY <2>1 DEF IInv, Shape, CommitIsWrite, Descend
<1>4. \A j \in 1..Len(path') : j \in 1..i \/ j = i + 1
  BY <1>0, <1>1
<1>5. JsonInv'
  <2>1. IsJson(current')
    BY <1>2, ChildJson DEF Descend
  <2>2. \A j \in 1..Len(path') : IsJson(path'[j].container)
    BY <1>0, <1>1, <1>2, <1>4 DEF IInv, JsonInv, PathStep
  <2> QED
    BY <1>0, <2>1, <2>2 DEF IInv, JsonInv, Descend
<1>6. PathInv'
  <2> SUFFICES ASSUME NEW j \in 1..Len(path')
               PROVE  LET cur == path'[j].container
                          tk == call.tokens[j]
                      IN /\ path'[j].token = tk
                         /\ path'[j].resolvedIndex = ResolvedIndex(cur, tk)
                         /\ IF j < Len(call.tokens) THEN DescendError(cur, tk, call.create) = NoError
                            ELSE LeafError(cur, tk, call.op) = NoError
    BY DEF PathInv, Descend
  <2>1. CASE j \in 1..i
    BY <1>0, <1>1, <2>1 DEF IInv, ReadBackInv, PathInv
  <2>2. CASE j = i + 1
    BY <1>0, <1>1, <1>2, <2>2 DEF PathStep, Tk
  <2> QED
    BY <1>4, <2>1, <2>2
<1>7. UnwindInv' /\ WrittenInv' /\ EvalInv' /\ ReadYourWrite'
  BY <1>0 DEF IInv, ReadBackInv, UnwindInv, WrittenInv, EvalInv, ReadYourWrite, Descend
<1> QED
  BY <1>3, <1>5, <1>6, <1>7 DEF IInv, ReadBackInv

\* The edit of the leaf container links it to the written value.
LEMMA EditLeafIInv ==
  ASSUME IInv, EditLeaf
  PROVE  IInv'
<1>0. /\ i \in Nat /\ Len(call.tokens) = i + 1 /\ i = Len(path)
      /\ call.tokens \in Seq(TokenType) /\ pc = "walk" /\ IsSequence(path)
  BY LenProperties DEF IInv, Shape, TypeOK, EditLeaf
<1>1. /\ Len(path') = i + 1 /\ path'[i + 1] = PathStep
      /\ \A j \in 1..i : path'[j] = path[j]
  BY <1>0, AppendToSequence DEF EditLeaf
<1>2. /\ IsJson(Cur) /\ Tk \in TokenType /\ LeafError(Cur, Tk, call.op) = NoError
      /\ call.op \in WriteOps /\ IsJson(call.value)
  BY <1>0, CurJson, ElementOfSeq DEF Tk, EditLeaf, IInv, Shape, CommitIsWrite, JsonInv, WriteOps
<1>3. Shape'
  <2>1. TypeOK' /\ IsSequence(path)'
    <3>1. IsObject(Cur) \/ IsArray(Cur)
      BY <1>2, ResolvedInside DEF IsContainer
    <3> QED
      BY <3>1, StepTypes DEF IInv, Shape, Step, LeafObject, LeafArray
  <2> QED
    BY <2>1 DEF IInv, Shape, CommitIsWrite, EditLeaf
<1>4. \A j \in 1..Len(path') : j \in 1..i \/ j = i + 1
  BY <1>0, <1>1
<1>5. /\ rebuilt'[i + 1] = LeafEdit(Cur, Tk, call.op, call.value)
      /\ rebuilt'[i + 2] = call.value
  BY <1>0 DEF EditLeaf
<1>6. /\ IsJson(LeafEdit(Cur, Tk, call.op, call.value))
      /\ call.op # "Remove" => HoldsAt(LeafEdit(Cur, Tk, call.op, call.value), PathStep, call.value)
  BY <1>2, LeafEditHolds DEF StepOf, PathStep
<1>7. JsonInv'
  <2>1. \A j \in 1..Len(path') : IsJson(path'[j].container)
    BY <1>0, <1>1, <1>2, <1>4 DEF IInv, JsonInv, PathStep
  <2>2. \A j \in i + 1 .. Len(path') + 1 : j = i + 1 \/ j = i + 2
    BY <1>0, <1>1
  <2>3. \A j \in i + 1 .. Len(path') + 1 : IsJson(rebuilt'[j])
    BY <1>2, <1>5, <1>6, <2>2
  <2> QED
    BY <2>1, <2>3 DEF IInv, JsonInv, EditLeaf
<1>8. PathInv'
  <2> SUFFICES ASSUME NEW j \in 1..Len(path')
               PROVE  LET cur == path'[j].container
                          tk == call.tokens[j]
                      IN /\ path'[j].token = tk
                         /\ path'[j].resolvedIndex = ResolvedIndex(cur, tk)
                         /\ IF j < Len(call.tokens) THEN DescendError(cur, tk, call.create) = NoError
                            ELSE LeafError(cur, tk, call.op) = NoError
    BY DEF PathInv, EditLeaf
  <2>1. CASE j \in 1..i
    BY <1>0, <1>1, <2>1 DEF IInv, ReadBackInv, PathInv
  <2>2. CASE j = i + 1
    BY <1>0, <1>1, <1>2, <2>2 DEF PathStep, Tk
  <2> QED
    BY <1>4, <2>1, <2>2
<1>9. UnwindInv'
  <2>1. Len(path') + 1 = i + 2 /\ \A j \in i + 1 .. Len(path') : j = i + 1
    BY <1>0, <1>1
  <2>2. call.op # "Remove" => \A j \in i + 1 .. Len(path') : HoldsAt(rebuilt'[j], path'[j], rebuilt'[j + 1])
    <3>1. i + 1 + 1 = i + 2
      BY <1>0
    <3> QED
      BY <1>1, <1>5, <1>6, <2>1, <3>1
  <2> QED
    BY <1>5, <2>1, <2>2 DEF UnwindInv, Linked, EditLeaf
<1>10. WrittenInv' /\ EvalInv' /\ ReadYourWrite'
  BY DEF IInv, ReadBackInv, WrittenInv, EvalInv, ReadYourWrite, EditLeaf
<1> QED
  BY <1>3, <1>7, <1>8, <1>9, <1>10 DEF IInv, ReadBackInv

\* The empty pointer, and the early returns.
LEMMA RootAndFailIInv ==
  ASSUME IInv, WriteRoot \/ WalkFails
  PROVE  IInv'
<1>0. /\ WriteRoot => i = 0 /\ Len(path) = 0
      /\ pc = "walk"
  BY LenProperties, EmptySeq DEF IInv, Shape, TypeOK, WriteRoot, WalkFails
<1>1. Shape'
  BY StepTypes DEF IInv, Shape, Step, CommitIsWrite, WriteRoot, WalkFails, Return
<1>2. CASE WalkFails
  <2>1. call.op # "Evaluate"
    BY <1>0 DEF IInv, Shape, CommitIsWrite, WriteOps
  <2> QED
    BY <1>1, <1>2, <2>1 DEF IInv, JsonInv, ReadBackInv, PathInv, UnwindInv, WrittenInv, EvalInv,
                            ReadYourWrite, WalkFails, Return
<1>3. CASE WriteRoot
  <2>1. call.op # "Evaluate"
    BY <1>0 DEF IInv, Shape, CommitIsWrite, WriteOps
  <2>2. JsonInv'
    <3>1. CASE call.op = "Remove"
      BY <1>3, <3>1 DEF IInv, JsonInv, WriteRoot, Return
    <3>2. CASE call.op # "Remove"
      <4>1. \A j \in 1..1 : j = 1
        OBVIOUS
      <4>2. /\ pc' = "unwind" /\ UNCHANGED <<doc, call, i, path>>
            /\ rebuilt'[1] = call.value
        BY <1>3, <3>2 DEF WriteRoot
      <4>3. \A j \in i' + 1 .. Len(path') + 1 : IsJson(rebuilt'[j])
        BY <1>0, <1>3, <4>1, <4>2 DEF IInv, JsonInv, Shape, CommitIsWrite, WriteOps
      <4> QED
        BY <1>0, <4>2, <4>3 DEF IInv, JsonInv
    <3> QED
      BY <3>1, <3>2
  <2>3. PathInv' /\ WrittenInv' /\ EvalInv' /\ ReadYourWrite'
    BY <1>0, <1>3, <2>1 DEF IInv, ReadBackInv, PathInv, WrittenInv, EvalInv, ReadYourWrite,
                            WriteRoot, Return
  <2>4. UnwindInv'
    <3>1. CASE call.op = "Remove"
      BY <1>3, <3>1 DEF UnwindInv, WriteRoot, Return
    <3>2. CASE call.op # "Remove"
      BY <1>0, <1>3, <3>2 DEF UnwindInv, Linked, WriteRoot
    <3> QED
      BY <3>1, <3>2
  <2> QED
    BY <1>1, <2>2, <2>3, <2>4 DEF IInv, ReadBackInv
<1> QED
  BY <1>2, <1>3


\* Rebuilding one more level links it to the level below.
LEMMA UnwindIInv ==
  ASSUME IInv, Unwind
  PROVE  IInv'
<1> DEFINE c == path[i].container
           n == Len(path)
<1>0. /\ i \in 1..n /\ n \in Nat /\ n = Len(call.tokens) /\ i < n
      /\ DOMAIN rebuilt = i + 1 .. n + 1 /\ call.tokens \in Seq(TokenType)
      /\ pc = "unwind"
  <2>1. /\ Len(path) = Len(call.tokens) /\ i \in 0..Len(call.tokens) /\ i > 0
        /\ call.tokens \in Seq(TokenType) /\ Len(call.tokens) \in Nat
    BY LenProperties DEF IInv, Shape, TypeOK, Unwind
  <2>2. i < n
    BY <2>1, EmptySeq DEF IInv, Shape, TypeOK, Unwind
  <2> QED
    BY <2>1, <2>2 DEF IInv, Shape, TypeOK, Unwind
<1>1. /\ IsJson(c) /\ call.tokens[i] \in TokenType /\ path[i].token = call.tokens[i]
      /\ path[i].resolvedIndex = ResolvedIndex(c, call.tokens[i])
      /\ DescendError(c, call.tokens[i], call.create) = NoError
      /\ IsJson(rebuilt[i + 1])
  BY <1>0, ElementOfSeq DEF IInv, JsonInv, ReadBackInv, PathInv
<1> HIDE DEF c, n
<1>2. /\ rebuilt'[i] = Reattach(c, call.tokens[i], ResolvedIndex(c, call.tokens[i]), rebuilt[i + 1])
      /\ \A j \in i + 1 .. n + 1 : rebuilt'[j] = rebuilt[j]
  BY <1>0, <1>1 DEF Unwind, c
<1>3. /\ IsJson(rebuilt'[i])
      /\ HoldsAt(rebuilt'[i], path[i], rebuilt[i + 1])
  <2>1. HoldsAt(rebuilt'[i], StepOf(c, call.tokens[i]), rebuilt[i + 1]) /\ IsJson(rebuilt'[i])
    BY <1>1, <1>2, ReattachHolds
  <2> QED
    BY <1>1, <2>1 DEF HoldsAt, StepOf
<1>4. Shape'
  BY StepTypes DEF IInv, Shape, Step, CommitIsWrite, Unwind
<1>5. \A j \in i .. n + 1 : j = i \/ j \in i + 1 .. n + 1
  BY <1>0
<1>6. i' + 1 = i /\ path' = path /\ call' = call
  BY <1>0 DEF Unwind
<1>7. JsonInv'
  <2>1. \A j \in i + 1 .. n + 1 : IsJson(rebuilt[j])
    BY <1>0 DEF IInv, JsonInv, n
  <2>2. \A j \in i .. n + 1 : IsJson(rebuilt'[j])
    BY <1>2, <1>3, <1>5, <2>1
  <2> QED
    BY <1>0, <1>6, <2>2 DEF IInv, JsonInv, Unwind, n
<1>8. UnwindInv'
  <2> SUFFICES ASSUME call.op # "Remove"
               PROVE  rebuilt'[n + 1] = call.value /\ Linked(rebuilt', path, i)
    BY <1>6 DEF UnwindInv, n
  <2>1. rebuilt[n + 1] = call.value /\ \A j \in i + 1 .. n : HoldsAt(rebuilt[j], path[j], rebuilt[j + 1])
    BY <1>0 DEF IInv, ReadBackInv, UnwindInv, Linked, n
  <2>2. \A j \in i + 1 .. n : HoldsAt(rebuilt'[j], path[j], rebuilt'[j + 1])
    <3> TAKE j \in i + 1 .. n
    <3>1. j \in i + 1 .. n + 1 /\ j + 1 \in i + 1 .. n + 1
      BY <1>0
    <3> QED
      BY <1>2, <2>1, <3>1
  <2>3. HoldsAt(rebuilt'[i], path[i], rebuilt'[i + 1])
    BY <1>0, <1>2, <1>3
  <2>4. \A j \in i .. n : j = i \/ j \in i + 1 .. n
    BY <1>0
  <2> QED
    BY <1>0, <1>2, <2>1, <2>2, <2>3, <2>4 DEF Linked, n
<1>9. PathInv' /\ WrittenInv' /\ EvalInv' /\ ReadYourWrite'
  BY <1>0 DEF IInv, ReadBackInv, PathInv, WrittenInv, EvalInv, ReadYourWrite, Unwind
<1> QED
  BY <1>4, <1>7, <1>8, <1>9 DEF IInv, ReadBackInv

\* The commit turns the rebuilt spine into the caller's document.
LEMMA CommitIInv ==
  ASSUME IInv, Commit
  PROVE  IInv'
<1>0. /\ pc = "unwind" /\ pc' = "idle" /\ i = 0 /\ Len(path) \in Nat
      /\ call.op # "Evaluate" /\ UNCHANGED <<call, path, i, current, rebuilt>>
  BY LenProperties DEF IInv, Shape, TypeOK, CommitIsWrite, WriteOps, Commit, Return
<1>1. Shape'
  BY <1>0, StepTypes DEF IInv, Shape, Step, CommitIsWrite
<1>2. IsJson(rebuilt[1])
  <2>1. 1 \in i + 1 .. Len(path) + 1
    BY <1>0
  <2> QED
    BY <1>0, <2>1 DEF IInv, JsonInv
<1>3. JsonInv'
  BY <1>0, <1>2 DEF IInv, JsonInv, Commit
<1>4. WrittenInv'
  <2>1. CASE Holds(holder, rebuilt[1])
    <3>1. CASE call.op = "Remove"
      BY <2>1, <3>1 DEF Commit, WrittenInv, NotWritten
    <3>2. CASE call.op # "Remove"
      <4>1. /\ doc' = rebuilt[1]
            /\ written' = [known |-> TRUE, path |-> path, spine |-> rebuilt, value |-> call.value]
        BY <2>1, <3>2 DEF Commit
      <4> QED
        BY <1>0, <3>2, <4>1 DEF IInv, ReadBackInv, UnwindInv, WrittenInv, Linked
    <3> QED
      BY <3>1, <3>2
  <2>2. CASE ~Holds(holder, rebuilt[1])
    BY <2>2 DEF Commit, IInv, ReadBackInv, WrittenInv
  <2> QED
    BY <2>1, <2>2
<1>5. PathInv' /\ UnwindInv' /\ EvalInv' /\ ReadYourWrite'
  BY <1>0 DEF PathInv, UnwindInv, EvalInv, ReadYourWrite
<1> QED
  BY <1>1, <1>3, <1>4, <1>5 DEF IInv, ReadBackInv

\* The inductive invariant.
LEMMA NextIInv ==
  ASSUME FitsCounter, IInv, [Next]_vars
  PROVE  IInv'
<1>1. CASE Call
  BY <1>1, CallIInv
<1>2. CASE Step
  BY <1>2, EvalIInv, RootAndFailIInv, DescendIInv, EditLeafIInv, UnwindIInv, CommitIInv
  DEF Step, DescendObject, DescendArray, LeafObject, LeafArray
<1>3. CASE UNCHANGED vars
  BY <1>3 DEF vars, IInv, Shape, TypeOK, IsSequence, CommitIsWrite, JsonInv, ReadBackInv, PathInv,
              UnwindInv, WrittenInv, EvalInv, ReadYourWrite
<1> QED
  BY <1>1, <1>2, <1>3 DEF Next

\* Whatever pointers and documents a session uses, evaluating the location of
\* the last successful add, replace or set yields the value it wrote, as long
\* as no pointer has more tokens than the evaluator's counter can count.
THEOREM ReadYourWriteHolds ==
  ASSUME FitsCounter
  PROVE  Spec => []ReadYourWrite
<1>1. Init => IInv
  BY InitIInv
<1>2. IInv /\ [Next]_vars => IInv'
  BY NextIInv
<1>3. IInv => ReadYourWrite
  BY DEF IInv
<1> QED
  BY <1>1, <1>2, <1>3, PTL DEF Spec

\* The spine argument itself: path, rebuilt levels, document and evaluation
\* stay linked in every reachable state.
THEOREM ReadBackInvHolds ==
  ASSUME FitsCounter
  PROVE  Spec => []ReadBackInv
<1>1. Init => IInv
  BY InitIInv
<1>2. IInv /\ [Next]_vars => IInv'
  BY NextIInv
<1>3. IInv => ReadBackInv
  BY DEF IInv
<1> QED
  BY <1>1, <1>2, <1>3, PTL DEF Spec


-----------------------------------------------------------------------------
(* set() with createIntermediates on a null root never fails. *)

\* In such a call every container that the descent meets was created for the
\* token that is applied to it, and the rebuilt levels are containers.
MkdirCall == call.create /\ doc = Null /\ call.tokens # <<>>

FreshInv ==
  /\ TypeOK
  /\ IsSequence(path)
  /\ CommitIsWrite
  /\ pc = "idle" \/ (call.create => call.op = "Add")
  /\ HolderKind
  /\ (pc = "walk" /\ MkdirCall) =>
       current = Null \/ current = MakeCreatedContainer(call.tokens[i + 1])
  /\ (pc = "unwind" /\ call.tokens # <<>>) => IsContainer(rebuilt[i + 1])

\* A container created for a token accepts it, as leaf and on the way down.
LEMMA CreatedAccepts ==
  ASSUME NEW tk
  PROVE  /\ ~IsNull(MakeCreatedContainer(tk))
         /\ DescendError(MakeCreatedContainer(tk), tk, TRUE) = NoError
         /\ LeafError(MakeCreatedContainer(tk), tk, "Add") = NoError
         /\ ~Exists(MakeCreatedContainer(tk), tk)
<1> DEFINE c == MakeCreatedContainer(tk)
<1>0. Len(<<>>) = 0 /\ DOMAIN <<>> = {}
  OBVIOUS
<1>1. CASE (IsIndex(tk) /\ tk.index = 0) \/ IsAppendToken(tk)
  <2>1. c = EmptyArray /\ IsArray(c) /\ ~IsObject(c) /\ ~IsNull(c) /\ Size(c) = 0
    BY <1>0, <1>1 DEF MakeCreatedContainer, EmptyArray, Array, IsArray, IsObject, IsNull, Size
  <2>2. ResolvedIndex(c, tk) = 0 /\ (IsIndex(tk) \/ IsAppendToken(tk))
    BY <1>1, <2>1 DEF ResolvedIndex, IsAppendToken, IsIndex
  <2> HIDE DEF c
  <2>3. ~Exists(c, tk)
    BY <2>1, <2>2 DEF Exists
  <2>4. DescendError(c, tk, TRUE) = NoError /\ LeafError(c, tk, "Add") = NoError
    BY <2>1, <2>2, <2>3 DEF DescendError, LeafError
  <2> QED
    BY <2>1, <2>3, <2>4 DEF c
<1>2. CASE ~((IsIndex(tk) /\ tk.index = 0) \/ IsAppendToken(tk))
  <2>1. c = EmptyObject /\ IsObject(c) /\ ~IsArray(c) /\ ~IsNull(c) /\ DOMAIN c.members = {}
    BY <1>0, <1>2 DEF MakeCreatedContainer, EmptyObject, Object, IsArray, IsObject, IsNull
  <2> HIDE DEF c
  <2>2. ~Exists(c, tk)
    BY <2>1 DEF Exists, HasMember
  <2>3. DescendError(c, tk, TRUE) = NoError /\ LeafError(c, tk, "Add") = NoError
    BY <2>1 DEF DescendError, LeafError
  <2> QED
    BY <2>1, <2>2, <2>3 DEF c
<1> QED
  BY <1>1, <1>2

\* Every rebuilt level is an object or an array.
LEMMA RebuiltContainers ==
  /\ \A c, tk, r, x : IsContainer(Reattach(c, tk, r, x))
  /\ \A c, tk, x : \A op \in WriteOps : IsContainer(LeafEdit(c, tk, op, x))
<1>1. \A c, tk, r, x : IsContainer(Reattach(c, tk, r, x))
  BY DEF Reattach, InsertMember, ReplaceElement, Array, Object, IsContainer, IsObject, IsArray
<1>2. \A c, tk, x : \A op \in WriteOps : IsContainer(LeafEdit(c, tk, op, x))
  BY DEF LeafEdit, InsertMember, RemoveMember, InsertElement, ReplaceElement, RemoveElement,
         Array, Object, IsContainer, IsObject, IsArray, WriteOps
<1> QED
  BY <1>1, <1>2

\* The container that such a call works on is the one created for its token.
LEMMA FreshCur ==
  ASSUME FreshInv, pc = "walk", MkdirCall
  PROVE  /\ Cur = MakeCreatedContainer(Tk)
         /\ StepError = NoError
         /\ ~Exists(Cur, Tk)
<1>1. Cur = MakeCreatedContainer(Tk)
  BY CreatedAccepts DEF FreshInv, Cur, Tk, Materialise, MkdirCall, Null, IsNull
<1> QED
  BY <1>1, CreatedAccepts DEF StepError, FreshInv, MkdirCall

\* On a null root with createIntermediates, every level is a freshly created container.
LEMMA FreshNext ==
  ASSUME FreshInv, [Next]_vars
  PROVE  FreshInv'
<1>0. TypeOK' /\ IsSequence(path)' /\ CommitIsWrite'
  BY NextTypes, NextIsWrite DEF FreshInv
<1>1. CASE Call
  BY <1>0, <1>1 DEF Call, CallEvaluate, CallAdd, CallReplace, CallRemove, CallSet, Begin,
                    FreshInv, MkdirCall, HolderKind
<1>2. CASE EvalIterate \/ EvalFails \/ EvalReturns \/ WalkFails
  BY <1>0, <1>2 DEF EvalIterate, EvalFails, EvalReturns, WalkFails, Return, FreshInv, MkdirCall, HolderKind
<1>3. CASE WriteRoot
  BY <1>0, <1>3 DEF WriteRoot, Return, FreshInv, MkdirCall, HolderKind
<1>4. CASE DescendObject \/ DescendArray
  <2>1. Descend
    BY <1>4 DEF DescendObject, DescendArray
  <2>2. MkdirCall => current' = MakeCreatedContainer(call.tokens[i + 2])
    BY <2>1, FreshCur DEF Descend, Child
  <2>3. i' + 1 = i + 2
    BY <2>1 DEF Descend, FreshInv, TypeOK
  <2> QED
    BY <1>0, <2>1, <2>2, <2>3 DEF Descend, FreshInv, MkdirCall, HolderKind
<1>5. CASE LeafObject \/ LeafArray
  <2>1. EditLeaf
    BY <1>5 DEF LeafObject, LeafArray
  <2>2. call.op \in WriteOps
    BY <2>1 DEF EditLeaf, FreshInv, CommitIsWrite
  <2> QED
    BY <1>0, <2>1, <2>2, RebuiltContainers DEF EditLeaf, FreshInv, MkdirCall, HolderKind
<1>6. CASE Unwind
  <2>1. i' + 1 = i
    BY <1>6 DEF Unwind, FreshInv, TypeOK
  <2> QED
    BY <1>0, <1>6, <2>1, RebuiltContainers DEF Unwind, FreshInv, MkdirCall, HolderKind
<1>7. CASE Commit
  BY <1>0, <1>7 DEF Commit, Return, FreshInv, MkdirCall, HolderKind
<1>8. CASE UNCHANGED vars
  BY <1>0, <1>8 DEF vars, FreshInv, MkdirCall, HolderKind
<1> QED
  BY <1>1, <1>2, <1>3, <1>4, <1>5, <1>6, <1>7, <1>8 DEF Next, Step


\* From a null root, set() with createIntermediates succeeds for every
\* non-empty pointer of any length.
THEOREM MkdirNeverFails == Spec => MkdirFromNull
<1>1. Init => FreshInv
  <2> SUFFICES ASSUME Init PROVE FreshInv
    OBVIOUS
  <2> QED
    BY InitTypes DEF Init, FreshInv, CommitIsWrite, HolderKind
<1>2. ASSUME FreshInv, [Next]_vars
      PROVE  /\ FreshInv'
             /\ [(/\ pc # "idle" /\ pc' = "idle"
                  /\ call.create /\ doc = Null /\ call.tokens # <<>>) => outcome'.ok]_vars
  <2>1. FreshInv'
    BY <1>2, FreshNext
  <2> SUFFICES ASSUME pc # "idle", pc' = "idle", MkdirCall, Next PROVE outcome'.ok
    BY <1>2, <2>1 DEF MkdirCall, vars
  <2>2. call.op = "Add"
    BY <1>2 DEF FreshInv, MkdirCall
  <2>3. CASE Call
    BY <2>3 DEF Call, CallEvaluate, CallAdd, CallReplace, CallRemove, CallSet, Begin
  <2>4. CASE EvalIterate \/ DescendObject \/ DescendArray \/ LeafObject \/ LeafArray \/ Unwind
    BY <2>4 DEF EvalIterate, DescendObject, DescendArray, Descend, LeafObject, LeafArray, EditLeaf,
                Unwind
  <2>5. CASE EvalFails \/ EvalReturns \/ WriteRoot
    <3>1. pc # "eval"
      BY <1>2, <2>2 DEF FreshInv, CommitIsWrite
    <3> QED
      BY <2>2, <2>5, <3>1 DEF EvalFails, EvalReturns, WriteRoot, MkdirCall
  <2>6. CASE WalkFails
    BY <1>2, <2>6, FreshCur DEF WalkFails
  <2>7. CASE Commit
    <3>1. IsContainer(rebuilt[1])
      BY <1>2, <2>7 DEF Commit, FreshInv, MkdirCall
    <3>2. holder \in {"value", "document"}
      BY <1>2 DEF FreshInv, HolderKind, Holds, MkdirCall, Null, IsObject, IsArray, TypeOK, Holders
    <3>3. Holds(holder, rebuilt[1])
      BY <3>1, <3>2 DEF Holds, IsContainer, IsObject, IsArray, IsUndefined
    <3> QED
      BY <2>7, <3>3 DEF Commit, Return, Success
  <2> QED
    BY <2>3, <2>4, <2>5, <2>6, <2>7 DEF Next, Step
<1> QED
  BY <1>1, <1>2, PTL DEF Spec, MkdirFromNull

-----------------------------------------------------------------------------
-----------------------------------------------------------------------------
(* The invariant: how far the call in progress has got in these walks. *)

\* The containers of the levels walked.
Spine == [j \in 1..Len(path) |-> path[j].container]

EvalRef == pc = "eval" => EvalWalk(call.tokens, doc)[i] = Success(current)

\* The value that level i + 1 starts from.
Entered ==
  IF i = 0 THEN doc ELSE Child(path[i].container, call.tokens[i], call.tokens[i + 1])

WalkRef ==
  (pc \in {"walk", "unwind"} /\ call.tokens # <<>>) =>
    /\ DescentWalk(call.tokens, doc, call.op, call.create)[Len(path)] = Success(Spine)
    /\ pc = "walk" => current = Entered

\* The levels rebuilt so far, and what was removed.
UnwindRef ==
  /\ pc = "walk" => removed = Undefined
  /\ (pc = "unwind" /\ call.tokens = <<>>) =>
       rebuilt[1] = call.value /\ removed = Undefined /\ call.op # "Remove"
  /\ (pc = "unwind" /\ call.tokens # <<>>) =>
       LET n == Len(path)
       IN /\ rebuilt[n] = LeafEdit(path[n].container, call.tokens[n], call.op, call.value)
          /\ \A j \in i + 1..n - 1 :
               rebuilt[j] = Reattach(path[j].container, path[j].token, path[j].resolvedIndex,
                                     rebuilt[j + 1])
          /\ removed = RemovedValue(path[n].container, call.tokens[n], call.op)

RefInv == IInv /\ EvalRef /\ WalkRef /\ UnwindRef

\* The numbers that the steps below compute with.
LEMMA Counters ==
  ASSUME IInv
  PROVE  /\ i \in Nat /\ Len(call.tokens) \in Nat /\ i <= Len(call.tokens)
         /\ Len(call.tokens) <= U16Max /\ U16Max \in Nat
         /\ call.tokens = <<>> <=> Len(call.tokens) = 0
         /\ Len(path) \in Nat
         /\ pc = "walk" => Len(path) = i
         /\ pc \in {"walk", "unwind"} => (i < Len(call.tokens) \/ call.tokens = <<>>)
         /\ pc = "unwind" => Len(path) = Len(call.tokens)
         /\ ClampTokenIndex(i) = i
<1>1. Len(call.tokens) \in Nat /\ (call.tokens = <<>> <=> Len(call.tokens) = 0)
  BY LenProperties, EmptySeq DEF IInv, Shape, TypeOK
<1>2. Len(path) \in Nat
  BY LenProperties DEF IInv, Shape, IsSequence
<1> QED
  BY <1>1, <1>2, U16MaxAssumption DEF IInv, Shape, TypeOK, ClampTokenIndex

\* One level of the evaluator's walk.
LEMMA EvalLevel ==
  ASSUME IInv, EvalRef, pc = "eval", i < Len(call.tokens)
  PROVE  EvalWalk(call.tokens, doc)[i + 1] = EvalAfter(Success(current), call.tokens[i + 1], i)
<1>1. i + 1 \in 0..Len(call.tokens) /\ i + 1 # 0 /\ (i + 1) - 1 = i
  BY Counters
<1> DEFINE w == EvalWalk(call.tokens, doc)
<1>2. IsEvalWalk(w, call.tokens, doc, Len(call.tokens))
  BY Counters, EvalWalkUnfolds
<1>3. w[i] = Success(current)
  BY DEF EvalRef
<1> HIDE DEF w
<1>4. w[i + 1] = EvalAfter(w[i], call.tokens[i + 1], i)
  BY <1>1, <1>2 DEF IsEvalWalk
<1> QED
  BY <1>3, <1>4 DEF w

\* One level of the descent.
LEMMA DescentLevel ==
  ASSUME IInv, WalkRef, pc = "walk", i < Len(call.tokens)
  PROVE  DescentWalk(call.tokens, doc, call.op, call.create)[i + 1] =
           IF StepError # NoError THEN Failure(StepError, i)
           ELSE Success(Append(Spine, Cur))
<1> DEFINE w == DescentWalk(call.tokens, doc, call.op, call.create)
<1>1. i + 1 \in 0..Len(call.tokens) /\ i + 1 # 0 /\ (i + 1) - 1 = i /\ call.tokens # <<>>
      /\ (i + 1 = 1 <=> i = 0) /\ Len(path) = i
  BY Counters
<1>2. IsDescentWalk(w, call.tokens, doc, call.op, call.create, Len(call.tokens))
  BY Counters, DescentWalkUnfolds
<1>3. w[i] = Success(Spine) /\ current = Entered
  BY <1>1 DEF WalkRef
<1> HIDE DEF w
<1>4. w[i + 1] = DescendAfter(w[i], call.tokens, i + 1, doc, call.op, call.create)
  BY <1>1, <1>2 DEF IsDescentWalk
<1>5. i # 0 => Last(Spine) = path[i].container
  <2>1. Len(Spine) = i
    BY <1>1, Counters, LenProperties DEF Spine
  <2> QED
    BY <1>1, <2>1, Counters DEF Last, Spine
<1>6. Cur = Materialise(IF i + 1 = 1 THEN doc
                        ELSE Child(Last(Spine), call.tokens[i], call.tokens[i + 1]),
                        call.tokens[i + 1], call.create)
  BY <1>1, <1>3, <1>5 DEF Cur, Tk, Entered
<1>7. StepError = IF i + 1 = Len(call.tokens) THEN LeafError(Cur, call.tokens[i + 1], call.op)
                  ELSE DescendError(Cur, call.tokens[i + 1], call.create)
  BY DEF StepError, Leaf, Tk
<1>8. ClampTokenIndex(i) = i
  BY Counters
<1>9. w[i + 1] = DescendAfter(Success(Spine), call.tokens, i + 1, doc, call.op, call.create)
  BY <1>3, <1>4
<1> HIDE DEF Spine, Cur, StepError
<1> QED
  BY <1>1, <1>6, <1>7, <1>8, <1>9 DEF DescendAfter, Success, w

-----------------------------------------------------------------------------
(* The invariant and the refinement, action by action. *)

Implements == RefInv' /\ [API!Next]_API!apiVars

\* Starting a call is a request.
LEMMA CallImplements ==
  ASSUME FitsCounter, RefInv, Call
  PROVE  Implements
<1>1. PICK op \in WriteOps \cup {"Evaluate"}, tokens \in Pointers,
           value \in Values \cup {Undefined, Null}, create \in BOOLEAN :
             Begin(op, tokens, value, create)
  BY DEF Call, CallEvaluate, CallAdd, CallReplace, CallRemove, CallSet, WriteOps
<1>2. IInv'
  BY CallIInv DEF RefInv
<1>3. Len(call'.tokens) \in Nat /\ 0 \in 0..Len(call'.tokens)
  <2>1. call'.tokens \in Seq(TokenType)
    BY <1>2 DEF IInv, Shape, TypeOK
  <2> QED
    BY <2>1, LenProperties
<1>4. EvalRef'
  <2> DEFINE w == EvalWalk(call'.tokens, doc)
  <2>1. IsEvalWalk(w, call'.tokens, doc, Len(call'.tokens))
    BY <1>3, EvalWalkUnfolds
  <2> HIDE DEF w
  <2>2. w[0] = Success(doc)
    BY <1>3, <2>1 DEF IsEvalWalk
  <2> QED
    BY <1>1, <2>2 DEF EvalRef, Begin, w
<1>5. WalkRef'
  <2> DEFINE w == DescentWalk(call'.tokens, doc, call'.op, call'.create)
  <2>1. IsDescentWalk(w, call'.tokens, doc, call'.op, call'.create, Len(call'.tokens))
    BY <1>3, DescentWalkUnfolds
  <2> HIDE DEF w
  <2>2. w[0] = Success(<<>>)
    BY <1>3, <2>1 DEF IsDescentWalk
  <2>3. Len(path') = 0 /\ Spine' = <<>>
    <3>1. path' = <<>> /\ Len(<<>>) = 0 /\ 1..0 = {}
      BY <1>1 DEF Begin
    <3>2. DOMAIN Spine' = {} /\ Spine' = [j \in {} |-> path'[j].container]
      BY <3>1 DEF Spine
    <3> QED
      BY <3>1, <3>2
  <2> QED
    BY <1>1, <2>2, <2>3 DEF WalkRef, Begin, Entered, w
<1>6. UnwindRef'
  BY <1>1 DEF UnwindRef, Begin
<1>7. API!Request
  BY <1>1 DEF API!Request, Begin
<1> QED
  BY <1>2, <1>4, <1>5, <1>6, <1>7 DEF Implements, RefInv, API!Next

\* The caller sees nothing of the evaluator but its return.
LEMMA EvalImplements ==
  ASSUME RefInv, EvalIterate \/ EvalFails \/ EvalReturns
  PROVE  Implements
<1> DEFINE n == Len(call.tokens)
           w == EvalWalk(call.tokens, doc)
           err == EvalStepError(current, call.tokens[i + 1])
<1>0. IInv /\ EvalRef
  BY DEF RefInv
<1>1. IInv'
  BY <1>0, EvalIInv
<1>2. WalkRef' /\ UnwindRef'
  BY DEF WalkRef, UnwindRef, EvalIterate, EvalFails, EvalReturns, Return
<1>3. pc = "eval" /\ call.op = "Evaluate"
  BY <1>0 DEF EvalIterate, EvalFails, EvalReturns, IInv, Shape, CommitIsWrite
<1>4. CASE EvalIterate
  <2>1. w[i + 1] = Success(EvalStep(current, call.tokens[i + 1]))
    BY <1>0, <1>3, <1>4, EvalLevel DEF EvalIterate, EvalAfter, Success
  <2>2. i' = i + 1
    <3>1. i + 1 < U16Max + 1 /\ i + 1 \in Nat /\ U16Max + 1 \in Nat \ {0}
      BY <1>0, <1>4, Counters DEF EvalIterate
    <3> QED
      BY <1>4, <3>1, ModSmall DEF EvalIterate
  <2>3. EvalRef'
    BY <1>4, <2>1, <2>2 DEF EvalRef, EvalIterate
  <2>4. UNCHANGED API!apiVars
    BY <1>4 DEF EvalIterate, API!apiVars
  <2> QED
    BY <1>1, <1>2, <2>3, <2>4 DEF Implements, RefInv
<1>5. CASE EvalFails
  <2>1. w[i + 1] = Failure(err, i)
    BY <1>0, <1>3, <1>5, EvalLevel, Counters DEF EvalFails, EvalAfter, Success
  <2>2. IsEvalWalk(w, call.tokens, doc, n)
    BY <1>0, Counters, EvalWalkUnfolds
  <2> HIDE DEF w
  <2>3. \A j \in 1..n : ~w[j - 1].ok => w[j] = w[j - 1]
    <3> SUFFICES ASSUME NEW j \in 1..n, ~w[j - 1].ok PROVE w[j] = w[j - 1]
      OBVIOUS
    <3>1. j \in 0..n /\ j # 0
      BY <1>0, Counters
    <3>2. w[j] = EvalAfter(w[j - 1], call.tokens[j], j - 1)
      BY <2>2, <3>1 DEF IsEvalWalk
    <3> QED
      BY <3>2 DEF EvalAfter
  <2>4. i + 1 \in 0..n /\ n \in Nat
    BY <1>0, <1>5, Counters DEF EvalFails
  <2>5. w[n] = w[i + 1]
    BY <2>1, <2>3, <2>4, FailureStays DEF Failure
  <2>6. outcome' = EvaluatePointer(call.tokens, doc)
    BY <1>5, <2>1, <2>5 DEF EvalFails, Return, EvaluatePointer, w
  <2>7. API!RespondEvaluate
    BY <1>3, <1>5, <2>6 DEF EvalFails, Return, API!RespondEvaluate
  <2>8. EvalRef'
    BY <1>5 DEF EvalRef, EvalFails, Return
  <2> QED
    BY <1>1, <1>2, <2>7, <2>8 DEF Implements, RefInv, API!Next
<1>6. CASE EvalReturns
  <2>1. i = n
    BY <1>0, <1>6, Counters DEF EvalReturns
  <2>2. outcome' = EvaluatePointer(call.tokens, doc)
    BY <1>0, <1>3, <1>6, <2>1 DEF EvalReturns, Return, EvaluatePointer, EvalRef
  <2>3. API!RespondEvaluate
    BY <1>3, <1>6, <2>2 DEF EvalReturns, Return, API!RespondEvaluate
  <2>4. EvalRef'
    BY <1>6 DEF EvalRef, EvalReturns, Return
  <2> QED
    BY <1>1, <1>2, <2>3, <2>4 DEF Implements, RefInv, API!Next
<1> QED
  BY <1>4, <1>5, <1>6

\* A level that the walk has accepted joins the spine.
LEMMA SpineGrows ==
  ASSUME IInv, path' = Append(path, PathStep)
  PROVE  Spine' = Append(Spine, Cur) /\ Len(path') = Len(path) + 1
<1>1. /\ Len(path) \in Nat /\ Len(path') = Len(path) + 1
      /\ \A j \in 1..Len(path) : path'[j] = path[j]
      /\ path'[Len(path) + 1] = PathStep
  BY AppendToSequence DEF IInv, Shape
<1> DEFINE S == {path[j].container : j \in 1..Len(path)} \cup {Cur}
<1>2. Spine \in Seq(S) /\ Len(Spine) = Len(path)
  <2>1. Spine \in [1..Len(path) -> S]
    BY DEF Spine
  <2> QED
    BY <1>1, <2>1, SeqDef, LenProperties
<1>3. Cur \in S
  OBVIOUS
<1>4. /\ Append(Spine, Cur) \in Seq(S) /\ Len(Append(Spine, Cur)) = Len(path) + 1
      /\ \A j \in 1..Len(path) : Append(Spine, Cur)[j] = path[j].container
      /\ Append(Spine, Cur)[Len(path) + 1] = Cur
  <2> HIDE DEF S
  <2>1. \A j \in 1..Len(path) : Spine[j] = path[j].container
    BY DEF Spine
  <2> QED
    BY <1>2, <1>3, <2>1, AppendProperties
<1> DEFINE new == Append(Spine, Cur)
<1>5. \A j \in 1..Len(path) + 1 : new[j] = path'[j].container
  <2> SUFFICES ASSUME NEW j \in 1..Len(path) + 1 PROVE new[j] = path'[j].container
    OBVIOUS
  <2>1. CASE j \in 1..Len(path)
    BY <1>1, <1>4, <2>1
  <2>2. CASE j = Len(path) + 1
    BY <1>1, <1>4, <2>2 DEF PathStep
  <2>3. j \in 1..Len(path) \/ j = Len(path) + 1
    BY <1>1
  <2> HIDE DEF new
  <2> QED
    BY <2>1, <2>2, <2>3
<1>6. new = [j \in 1..Len(path) + 1 |-> new[j]]
  BY <1>4, LenProperties
<1> QED
  BY <1>1, <1>5, <1>6 DEF Spine

\* The steps of a write before its commit are not seen.
LEMMA WalkImplements ==
  ASSUME RefInv, Descend \/ EditLeaf
  PROVE  WalkRef' /\ UnwindRef' /\ EvalRef' /\ UNCHANGED API!apiVars
<1>0. IInv /\ WalkRef /\ UnwindRef
  BY DEF RefInv
<1> DEFINE w == DescentWalk(call.tokens, doc, call.op, call.create)
<1>1. /\ pc = "walk" /\ i < Len(call.tokens) /\ Len(path) = i /\ call.tokens # <<>>
      /\ UNCHANGED <<holder, doc, call, outcome>>
  BY <1>0, Counters DEF Descend, EditLeaf
<1>2. Spine' = Append(Spine, Cur) /\ Len(path') = i + 1
  BY <1>0, <1>1, SpineGrows DEF Descend, EditLeaf
<1>3. path'[i + 1] = PathStep
  BY <1>0, <1>1, AppendToSequence DEF IInv, Shape, Descend, EditLeaf
<1>4. StepError = NoError
  BY <1>0, Counters DEF StepError, Leaf, Descend, EditLeaf
<1>5. w[i + 1] = Success(Append(Spine, Cur))
  BY <1>0, <1>1, <1>4, DescentLevel
<1>6. EvalRef' /\ UNCHANGED API!apiVars
  BY <1>1 DEF EvalRef, API!apiVars, Descend, EditLeaf
<1> HIDE DEF w
<1>7. w[Len(path')] = Success(Spine')
  BY <1>2, <1>5
<1>8. CASE Descend
  <2>1. i' = i + 1 /\ i' # 0 /\ i' + 1 = i + 2
    BY <1>0, <1>8, Counters DEF Descend
  <2>2. current' = Entered'
    BY <1>1, <1>3, <1>8, <2>1 DEF Descend, Entered, PathStep, Tk
  <2>3. WalkRef'
    BY <1>1, <1>7, <2>2 DEF WalkRef, w
  <2>4. UnwindRef'
    BY <1>0, <1>1, <1>8 DEF UnwindRef, Descend
  <2> QED
    BY <1>6, <2>3, <2>4
<1>9. CASE EditLeaf
  <2>1. WalkRef'
    BY <1>1, <1>7, <1>9 DEF WalkRef, EditLeaf, w
  <2>2. /\ rebuilt'[i + 1] = LeafEdit(Cur, Tk, call.op, call.value)
        /\ removed' = RemovedValue(Cur, Tk, call.op)
        /\ path'[i + 1].container = Cur
        /\ (i + 1)..i + 1 - 1 = {}
    BY <1>0, <1>3, <1>9, Counters DEF EditLeaf, PathStep
  <2>3. UnwindRef'
    BY <1>1, <1>2, <1>9, <2>2 DEF UnwindRef, EditLeaf, Tk
  <2> QED
    BY <1>6, <2>1, <2>3
<1> QED
  BY <1>8, <1>9

\* An early return of the walk answers with the error of the whole descent.
LEMMA FailImplements ==
  ASSUME RefInv, WalkFails
  PROVE  API!RespondWrite
<1>0. IInv /\ WalkRef
  BY DEF RefInv
<1> DEFINE n == Len(call.tokens)
           w == DescentWalk(call.tokens, doc, call.op, call.create)
<1>1. /\ pc = "walk" /\ i < n /\ call.tokens # <<>> /\ StepError # NoError
      /\ i + 1 \in 0..n /\ n \in Nat /\ ClampTokenIndex(i) = i
  BY <1>0, Counters DEF WalkFails
<1>2. w[i + 1] = Failure(StepError, i)
  BY <1>0, <1>1, DescentLevel
<1>3. IsDescentWalk(w, call.tokens, doc, call.op, call.create, n)
  BY <1>1, DescentWalkUnfolds
<1> HIDE DEF w
<1>4. \A j \in 1..n : ~w[j - 1].ok => w[j] = w[j - 1]
  <2> SUFFICES ASSUME NEW j \in 1..n, ~w[j - 1].ok PROVE w[j] = w[j - 1]
    OBVIOUS
  <2>1. j \in 0..n /\ j # 0
    BY <1>1
  <2>2. w[j] = DescendAfter(w[j - 1], call.tokens, j, doc, call.op, call.create)
    BY <1>3, <2>1 DEF IsDescentWalk
  <2> QED
    BY <2>2 DEF DescendAfter
<1>5. w[n] = Failure(StepError, i)
  BY <1>1, <1>2, <1>4, FailureStays DEF Failure
<1>6. WritePointer(call.tokens, doc, call.value, call.op, call.create)
        = [root |-> doc, result |-> Failure(StepError, i)]
  BY <1>1, <1>5 DEF WritePointer, WriteAlong, Descent, Failure, w
<1>7. call.op # "Evaluate"
  BY <1>0, <1>1 DEF IInv, Shape, CommitIsWrite, WriteOps
<1>8. outcome' = Failure(StepError, i) /\ ~outcome'.ok /\ pc' = "idle"
      /\ UNCHANGED <<holder, doc, call>>
  BY <1>1 DEF WalkFails, Return, Failure
<1> HIDE DEF n
<1>9. API!CommitWrite(WritePointer(call.tokens, doc, call.value, call.op, call.create))
  BY <1>6, <1>8 DEF API!CommitWrite, Failure
<1> QED
  BY <1>1, <1>7, <1>8, <1>9 DEF API!RespondWrite

\* A write with the empty pointer.
LEMMA RootImplements ==
  ASSUME RefInv, WriteRoot
  PROVE  WalkRef' /\ UnwindRef' /\ EvalRef' /\ [API!Next]_API!apiVars
<1>0. IInv /\ UnwindRef
  BY DEF RefInv
<1>1. call.op # "Evaluate" /\ pc = "walk" /\ call.tokens = <<>>
  BY <1>0 DEF WriteRoot, IInv, Shape, CommitIsWrite, WriteOps
<1>2. CASE call.op = "Remove"
  <2>1. WritePointer(call.tokens, doc, call.value, call.op, call.create)
          = [root |-> doc, result |-> Failure("CannotRemoveRoot", 0)]
    BY <1>1, <1>2 DEF WritePointer
  <2>2. outcome' = Failure("CannotRemoveRoot", 0) /\ ~outcome'.ok /\ pc' = "idle"
        /\ UNCHANGED <<holder, doc, call>>
    BY <1>2 DEF WriteRoot, Return, Failure
  <2>3. API!CommitWrite(WritePointer(call.tokens, doc, call.value, call.op, call.create))
    BY <2>1, <2>2 DEF API!CommitWrite, Failure
  <2>4. API!RespondWrite
    BY <1>1, <2>2, <2>3 DEF API!RespondWrite
  <2>5. WalkRef' /\ UnwindRef' /\ EvalRef'
    BY <2>2 DEF WalkRef, UnwindRef, EvalRef
  <2> QED
    BY <2>4, <2>5 DEF API!Next
<1>3. CASE call.op # "Remove"
  <2>1. UNCHANGED API!apiVars
    BY <1>3 DEF WriteRoot, API!apiVars
  <2>2. WalkRef' /\ EvalRef'
    BY <1>1, <1>3 DEF WriteRoot, WalkRef, EvalRef
  <2>3. UnwindRef'
    BY <1>0, <1>1, <1>3 DEF WriteRoot, UnwindRef
  <2> QED
    BY <2>1, <2>2, <2>3
<1> QED
  BY <1>2, <1>3

\* Rebuilding one more level.
LEMMA UnwindImplements ==
  ASSUME RefInv, Unwind
  PROVE  WalkRef' /\ UnwindRef' /\ EvalRef' /\ UNCHANGED API!apiVars
<1>0. IInv /\ WalkRef /\ UnwindRef
  BY DEF RefInv
<1>1. /\ i \in Nat /\ i > 0 /\ Len(path) = Len(call.tokens) /\ i < Len(path) /\ Len(path) \in Nat
      /\ call.tokens # <<>> /\ pc = "unwind" /\ i' = i - 1
  BY <1>0, Counters DEF Unwind
<1>2. WalkRef' /\ EvalRef' /\ UNCHANGED API!apiVars
  BY <1>0, <1>1 DEF Unwind, WalkRef, EvalRef, Spine, API!apiVars
<1>3. /\ rebuilt'[i] = Reattach(path[i].container, path[i].token, path[i].resolvedIndex, rebuilt[i + 1])
      /\ \A j \in i + 1..Len(path) : rebuilt'[j] = rebuilt[j]
  <2>1. i + 1..Len(path) \subseteq DOMAIN rebuilt /\ i \notin i + 1..Len(path)
    BY <1>0, <1>1 DEF IInv, Shape, TypeOK
  <2> QED
    BY <1>1, <2>1 DEF Unwind
<1>4. rebuilt'[Len(path)] = LeafEdit(path[Len(path)].container, call.tokens[Len(path)],
                                     call.op, call.value)
  BY <1>0, <1>1, <1>3 DEF UnwindRef
<1>5. \A j \in i..Len(path) - 1 :
        rebuilt'[j] = Reattach(path[j].container, path[j].token, path[j].resolvedIndex,
                               rebuilt'[j + 1])
  <2> SUFFICES ASSUME NEW j \in i..Len(path) - 1
               PROVE  rebuilt'[j] = Reattach(path[j].container, path[j].token,
                                             path[j].resolvedIndex, rebuilt'[j + 1])
    OBVIOUS
  <2>1. j + 1 \in i + 1..Len(path) /\ (j = i \/ j \in i + 1..Len(path) - 1)
        /\ (j # i => j \in i + 1..Len(path))
    BY <1>1
  <2>2. rebuilt'[j + 1] = rebuilt[j + 1]
    BY <1>3, <2>1
  <2> QED
    BY <1>0, <1>1, <1>3, <2>1, <2>2 DEF UnwindRef
<1>6. UnwindRef'
  <2>1. i' + 1 = i
    BY <1>1
  <2> QED
    BY <1>0, <1>1, <1>4, <1>5, <2>1 DEF UnwindRef, Unwind
<1> QED
  BY <1>2, <1>6

\* The level that unwind leaves at the top is the root that Rebuild computes.
LEMMA RebuiltRoot ==
  ASSUME RefInv, pc = "unwind", i = 0, call.tokens # <<>>
  PROVE  rebuilt[1] = Rebuild(call.tokens, Spine, call.op, call.value)
<1> DEFINE n == Len(call.tokens)
           tokens == call.tokens
           Level(f, j) == IF j = n THEN LeafEdit(Spine[j], tokens[j], call.op, call.value)
                          ELSE Reattach(Spine[j], tokens[j], ResolvedIndex(Spine[j], tokens[j]),
                                        f[j + 1])
           new == RebuildLevels(tokens, Spine, call.op, call.value)
<1>0. IInv /\ UnwindRef /\ n \in Nat \ {0} /\ Len(path) = n
  BY Counters DEF RefInv
<1> HIDE DEF n
<1>1. ASSUME NEW j \in 1..n
      PROVE  rebuilt[j] = Level(rebuilt, j)
  <2>1. Spine[j] = path[j].container
    BY <1>0 DEF Spine
  <2>2. path[j].token = tokens[j] /\ path[j].resolvedIndex = ResolvedIndex(path[j].container, tokens[j])
    BY <1>0 DEF IInv, ReadBackInv, PathInv
  <2>3. CASE j = n
    BY <1>0, <2>1, <2>3 DEF UnwindRef
  <2>4. CASE j # n
    <3>1. j \in i + 1..n - 1
      BY <1>0, <2>4
    <3> QED
      BY <1>0, <2>1, <2>2, <2>4, <3>1 DEF UnwindRef
  <2> QED
    BY <2>3, <2>4
<1>2. \E f : f = [j \in 1..n |-> Level(f, j)]
  <2> DEFINE f == [j \in 1..n |-> rebuilt[j]]
  <2>1. ASSUME NEW j \in 1..n
        PROVE  f[j] = Level(f, j)
    <3>1. CASE j = n
      BY <1>1, <3>1
    <3>2. CASE j # n
      <4>1. j + 1 \in 1..n
        BY <1>0, <3>2
      <4> QED
        BY <1>1, <3>2, <4>1
    <3> QED
      BY <3>1, <3>2
  <2>2. f = [j \in 1..n |-> Level(f, j)]
    BY <2>1
  <2> QED
    BY <2>2
<1>3. new = [j \in 1..n |-> Level(new, j)]
  BY <1>2 DEF RebuildLevels, n
<1> HIDE DEF new
<1>4. rebuilt[n] = new[n] /\ \A j \in 1..n : j < n /\ rebuilt[j + 1] = new[j + 1] => rebuilt[j] = new[j]
  <2>1. n \in 1..n
    BY <1>0
  <2>2. \A j \in 1..n : new[j] = Level(new, j)
    BY <1>3
  <2> HIDE DEF Spine
  <2> QED
    BY <1>0, <1>1, <2>1, <2>2
<1>5. rebuilt[1] = new[1]
  BY <1>0, <1>4, DownwardEqual
<1> QED
  BY <1>5 DEF Rebuild, new

\* The commit is the whole write, or its refusal.
LEMMA CommitImplements ==
  ASSUME RefInv, Commit
  PROVE  API!RespondWrite
<1>0. /\ IInv /\ WalkRef /\ UnwindRef
      /\ pc = "unwind" /\ i = 0 /\ call.op \in WriteOps /\ holder \in Holders
  BY DEF RefInv, Commit, IInv, Shape, CommitIsWrite, TypeOK
<1> DEFINE root == rebuilt[1]
           write == WritePointer(call.tokens, doc, call.value, call.op, call.create)
<1>1. NewValue(call.value) = call.value /\ ~IsUndefined(call.value)
  BY <1>0 DEF IInv, Shape, TypeOK, NewValue, WriteOps
<1>2. write = [root |-> root, result |-> Success(removed)] /\ ~IsUndefined(root)
  <2>1. CASE call.tokens = <<>>
    BY <1>0, <1>1, <2>1 DEF UnwindRef, WritePointer
  <2>2. CASE call.tokens # <<>>
    <3> DEFINE n == Len(call.tokens)
    <3>1. n \in Nat \ {0} /\ Len(path) = n
      BY <1>0, <2>2, Counters
    <3>2. Descent(call.tokens, doc, call.op, call.create) = Success(Spine)
      BY <1>0, <2>2, <3>1 DEF WalkRef, Descent
    <3>3. root = Rebuild(call.tokens, Spine, call.op, call.value)
      BY <1>0, <2>2, RebuiltRoot
    <3>4. Last(Spine) = path[n].container /\ Last(call.tokens) = call.tokens[n]
      <4>1. Len(Spine) = n
        BY <3>1, LenProperties DEF Spine
      <4> QED
        BY <3>1, <4>1 DEF Last, Spine
    <3>5. removed = RemovedValue(path[n].container, call.tokens[n], call.op)
      BY <1>0, <2>2, <3>1 DEF UnwindRef
    <3>6. write = [root |-> root, result |-> Success(removed)]
      <4>1. write = WriteAlong(call.tokens, doc, call.value, call.op, Success(Spine))
        BY <2>2, <3>2 DEF WritePointer
      <4>2. Success(Spine).ok /\ Success(Spine).value = Spine
        BY DEF Success
      <4>3. write = [root |-> Rebuild(call.tokens, Spine, call.op, NewValue(call.value)),
                     result |-> Success(RemovedValue(Last(Spine), Last(call.tokens), call.op))]
        BY <4>1, <4>2 DEF WriteAlong
      <4> QED
        BY <1>1, <3>3, <3>4, <3>5, <4>3
    <3>7. IsContainer(root)
      <4>1. CASE n = 1
        BY <1>0, <2>2, <3>1, <4>1, RebuiltContainers DEF UnwindRef
      <4>2. CASE n # 1
        <5>1. 1 \in i + 1..n - 1
          <6> HIDE DEF n
          <6> QED
            BY <1>0, <3>1, <4>2
        <5> QED
          BY <1>0, <2>2, <3>1, <5>1, RebuiltContainers DEF UnwindRef
      <4> QED
        BY <4>1, <4>2
    <3> QED
      BY <3>6, <3>7 DEF IsContainer, IsObject, IsArray, IsUndefined
  <2> QED
    BY <2>1, <2>2
<1>3. API!CommitError(holder, root) = NoError <=> Holds(holder, root)
  <2>1. /\ API!IsObject(root) <=> IsObject(root)
        /\ API!IsArray(root) <=> IsArray(root)
        /\ API!IsContainer(root) <=> IsContainer(root)
        /\ API!IsNull(root) <=> IsNull(root)
    BY DEF API!IsObject, IsObject, API!IsArray, IsArray, API!IsContainer, IsContainer,
           API!IsNull, IsNull
  <2> HIDE DEF root
  <2>2. CASE holder = "object"
    BY <2>1, <2>2 DEF API!CommitError, Holds, NoError
  <2>3. CASE holder = "array"
    BY <2>1, <2>3 DEF API!CommitError, Holds, NoError
  <2>4. CASE holder = "document"
    BY <2>1, <2>4 DEF API!CommitError, Holds, NoError
  <2>5. CASE holder = "value"
    BY <1>2, <2>5 DEF API!CommitError, Holds
  <2> QED
    BY <1>0, <2>2, <2>3, <2>4, <2>5 DEF Holders
<1>4. pc' = "idle" /\ UNCHANGED <<holder, call>>
  BY DEF Commit, Return
<1> HIDE DEF root, write
<1>5. API!CommitWrite(write)
  <2>1. write.root = root /\ write.result = Success(removed) /\ write.result.ok
    BY <1>2 DEF Success
  <2>2. CASE Holds(holder, root)
    <3>1. outcome' = Success(removed) /\ outcome'.ok /\ doc' = root
      BY <2>2 DEF Commit, Return, Success, root
    <3> QED
      BY <1>3, <2>1, <2>2, <3>1 DEF API!CommitWrite
  <2>3. CASE ~Holds(holder, root)
    <3> DEFINE err == IF holder = "document" THEN "DocumentRootNotContainer" ELSE "RootTypeMismatch"
    <3>1. outcome' = Failure(err, 0) /\ ~outcome'.ok /\ doc' = doc
      BY <2>3 DEF Commit, Return, Failure, root
    <3>2. API!CommitError(holder, root) = err
      BY <1>3, <2>3 DEF API!CommitError
    <3> HIDE DEF err
    <3> QED
      BY <1>3, <2>1, <2>3, <3>1, <3>2 DEF API!CommitWrite
  <2> QED
    BY <2>2, <2>3
<1> QED
  BY <1>0, <1>4, <1>5 DEF API!RespondWrite, WriteOps, write

\* Every step keeps the invariant, and is a step of the API or none.
LEMMA NextImplements ==
  ASSUME FitsCounter, RefInv, [Next]_vars
  PROVE  Implements
<1>0. IInv'
  BY NextIInv DEF RefInv
<1>1. CASE Call
  BY <1>1, CallImplements
<1>2. CASE EvalIterate \/ EvalFails \/ EvalReturns
  BY <1>2, EvalImplements
<1>3. CASE WriteRoot
  BY <1>0, <1>3, RootImplements DEF Implements, RefInv
<1>4. CASE DescendObject \/ DescendArray \/ LeafObject \/ LeafArray
  BY <1>0, <1>4, WalkImplements
  DEF DescendObject, DescendArray, LeafObject, LeafArray, Implements, RefInv
<1>5. CASE WalkFails
  <2>1. EvalRef' /\ WalkRef' /\ UnwindRef'
    BY <1>5 DEF WalkFails, Return, EvalRef, WalkRef, UnwindRef
  <2> QED
    BY <1>0, <1>5, <2>1, FailImplements DEF Implements, RefInv, API!Next
<1>6. CASE Unwind
  BY <1>0, <1>6, UnwindImplements DEF Implements, RefInv
<1>7. CASE Commit
  <2>1. EvalRef' /\ WalkRef' /\ UnwindRef'
    BY <1>7 DEF Commit, Return, EvalRef, WalkRef, UnwindRef
  <2> QED
    BY <1>0, <1>7, <2>1, CommitImplements DEF Implements, RefInv, API!Next
<1>8. CASE UNCHANGED vars
  <2>1. EvalRef' /\ WalkRef' /\ UnwindRef' /\ UNCHANGED API!apiVars
    BY <1>8 DEF RefInv, vars, EvalRef, WalkRef, UnwindRef, Spine, Entered, API!apiVars
  <2> QED
    BY <1>0, <2>1 DEF Implements, RefInv
<1> QED
  BY <1>1, <1>2, <1>3, <1>4, <1>5, <1>6, <1>7, <1>8 DEF Next, Step

\* The loops of evaluatePointerImpl, writePointer and unwind and the commit of
\* the four overloads implement the API: whatever a session calls, each call
\* takes effect in the one step in which it returns.
THEOREM APIImplemented ==
  ASSUME FitsCounter
  PROVE  Spec => ImplementsAPI
<1>1. Init => RefInv /\ API!Init
  <2> SUFFICES ASSUME Init PROVE RefInv /\ API!Init
    OBVIOUS
  <2> QED
    BY InitIInv DEF Init, RefInv, EvalRef, WalkRef, UnwindRef, API!Init
<1>2. RefInv /\ [Next]_vars => RefInv' /\ [API!Next]_API!apiVars
  BY NextImplements DEF Implements
<1> QED
  BY <1>1, <1>2, PTL DEF Spec, ImplementsAPI, API!Spec

-----------------------------------------------------------------------------
(* What a write leaves beside its path *)

\* Token t finds in container c what u finds in new, or neither finds anything.
SameStep(c, t, new, u) ==
  /\ EvalStepError(c, t) = NoError <=> EvalStepError(new, u) = NoError
  /\ EvalStepError(c, t) = NoError => EvalStep(new, u) = EvalStep(c, t)

\* t takes the step where of a write.
Hits(t, where) ==
  IF where.resolvedIndex >= 0 THEN IsIndex(t) /\ t.index = where.resolvedIndex
  ELSE t.key = where.token.key

\* One level of Addresses.
LEMMA AddressesOne ==
  ASSUME NEW t, NEW where
  PROVE  Addresses(<<t>>, <<where>>) <=> Hits(t, where)
BY DEF Addresses, Hits

\* In an object, only the member of that name changes.
LEMMA BesideMember ==
  ASSUME NEW c, IsObject(c), NEW key, NEW x, NEW t, t.key # key
  PROVE  /\ SameStep(c, t, InsertMember(c, key, x), t)
         /\ SameStep(c, t, RemoveMember(c, key), t)
<1>1. /\ IsObject(InsertMember(c, key, x)) /\ IsObject(RemoveMember(c, key))
      /\ HasMember(InsertMember(c, key, x), t.key) <=> HasMember(c, t.key)
      /\ HasMember(RemoveMember(c, key), t.key) <=> HasMember(c, t.key)
      /\ HasMember(c, t.key) => /\ InsertMember(c, key, x).members[t.key] = c.members[t.key]
                                /\ RemoveMember(c, key).members[t.key] = c.members[t.key]
  BY DEF InsertMember, RemoveMember, Object, IsObject, HasMember
<1>2. ASSUME NEW o, IsObject(o)
      PROVE  /\ EvalStepError(o, t) = NoError <=> HasMember(o, t.key)
             /\ EvalStep(o, t) = o.members[t.key]
  BY <1>2 DEF EvalStepError, EvalStep, NoError, HasMember, IsObject, IsArray
<1> QED BY <1>1, <1>2 DEF SameStep

\* In an array, the elements behind it move as Moved says.
LEMMA BesideElement ==
  ASSUME NEW c, IsJson(c), IsArray(c), NEW x, IsJson(x), NEW pos \in 0..Size(c), NEW t \in TokenType
  PROVE  /\ SameStep(c, t, InsertElement(c, pos, x), Moved(t, "Add", pos))
         /\ pos < Size(c) /\ ~(IsIndex(t) /\ t.index = pos) =>
              /\ SameStep(c, t, ReplaceElement(c, pos, x), t)
              /\ SameStep(c, t, RemoveElement(c, pos), Moved(t, "Remove", pos))
         /\ pos = Size(c) /\ ~(IsIndex(t) /\ t.index = pos) =>
              SameStep(c, t, Array(Append(c.elements, x)), t)
<1> DEFINE S == Children(c) \cup {x}
           s == c.elements
           n == Len(s)
<1>1. s \in Seq(S) /\ n \in Nat /\ Size(c) = n /\ x \in S
  BY JsonElements, SeqMonotonic DEF Size
<1>2. pos \in Nat /\ pos =< n /\ t.index \in Nat /\ t.key \in STRING /\ t.kind \in {"Key", "Index"}
  BY <1>1 DEF TokenType
<1>3. c.kind = "array" /\ ~IsObject(c)
  BY DEF IsArray, IsObject
<1> HIDE DEF S, s, n
\* An array of elements r, for a token u.
<1>4. ASSUME NEW r, Len(r) \in Nat, NEW u, u.kind = t.kind, u.index \in Nat,
             IsIndex(t) => /\ t.index < n <=> u.index < Len(r)
                           /\ t.index < n => r[u.index + 1] = s[t.index + 1]
      PROVE  SameStep(c, t, Array(r), u)
  <2>1. Array(r).kind = "array" /\ Array(r).elements = r /\ Size(Array(r)) = Len(r)
        /\ IsArray(Array(r)) /\ ~IsObject(Array(r)) /\ ElementAt(Array(r), u.index) = r[u.index + 1]
    BY DEF Array, Size, IsArray, IsObject, ElementAt
  <2>2. ElementAt(c, t.index) = s[t.index + 1] /\ Size(c) = n
    BY <1>1 DEF ElementAt, s
  <2>3. IsIndex(u) <=> IsIndex(t)
    BY <1>4 DEF IsIndex
  <2>4. /\ EvalStepError(c, t) = IF ~IsIndex(t) THEN "TypeMismatchArray"
                                 ELSE IF t.index < n THEN NoError ELSE "IndexOutOfRange"
        /\ EvalStepError(Array(r), u) = IF ~IsIndex(u) THEN "TypeMismatchArray"
                                        ELSE IF u.index < Len(r) THEN NoError ELSE "IndexOutOfRange"
    BY <1>3, <2>1, <2>2 DEF EvalStepError
  <2>5. EvalStep(c, t) = s[t.index + 1] /\ EvalStep(Array(r), u) = r[u.index + 1]
    BY <1>3, <2>1, <2>2 DEF EvalStep
  <2> QED BY <1>4, <2>3, <2>4, <2>5 DEF SameStep, NoError
<1>5. SameStep(c, t, InsertElement(c, pos, x), Moved(t, "Add", pos))
  <2> DEFINE q == pos + 1
             r == InsertAt(s, q, x)
             u == Moved(t, "Add", pos)
  <2>1. q \in 1..Len(s) + 1
    BY <1>1, <1>2 DEF n
  <2> HIDE DEF q
  <2>0. /\ Len(r) = Len(s) + 1
        /\ \A k \in 1..q - 1 : r[k] = s[k]
        /\ \A k \in q..Len(s) : r[k + 1] = s[k]
    BY <1>1, <2>1, InsertedElements
  <2>2. /\ Len(r) = n + 1
        /\ \A k \in 1..pos + 1 - 1 : r[k] = s[k]
        /\ \A k \in pos + 1..n : r[k + 1] = s[k]
    BY <2>0 DEF n, q
  <2>3. u.kind = t.kind /\ u.index = IF IsIndex(t) /\ t.index >= pos THEN t.index + 1 ELSE t.index
    BY <1>2 DEF Moved, TokenType
  <2> HIDE DEF r, u
  <2>4. ASSUME IsIndex(t)
        PROVE  /\ t.index < n <=> u.index < n + 1
               /\ t.index < n => r[u.index + 1] = s[t.index + 1]
    <3>1. CASE t.index >= pos
      <4>1. u.index = t.index + 1
        BY <2>3, <2>4, <3>1
      <4>2. t.index < n => t.index + 1 \in pos + 1..n
        BY <1>1, <1>2, <3>1
      <4> QED BY <1>1, <1>2, <2>2, <4>1, <4>2
    <3>2. CASE t.index < pos
      <4>1. u.index = t.index /\ t.index + 1 \in 1..pos + 1 - 1 /\ t.index < n
        BY <1>1, <1>2, <2>3, <3>2
      <4> QED BY <1>1, <1>2, <2>2, <4>1
    <3> QED BY <1>2, <3>1, <3>2
  <2>5. SameStep(c, t, Array(r), u)
    BY <1>1, <1>2, <1>4, <2>2, <2>3, <2>4
  <2> QED BY <2>5 DEF InsertElement, r, u, s, q
<1>6. ASSUME pos < n, ~(IsIndex(t) /\ t.index = pos)
      PROVE  SameStep(c, t, ReplaceElement(c, pos, x), t)
  <2> DEFINE r == ReplaceAt(s, pos + 1, x)
  <2>1. Len(r) = n /\ \A k \in 1..n : k # pos + 1 => r[k] = s[k]
    BY <1>1 DEF ReplaceAt, n
  <2> HIDE DEF r
  <2>2. IsIndex(t) /\ t.index < n => t.index + 1 \in 1..n /\ t.index + 1 # pos + 1
    BY <1>1, <1>2, <1>6
  <2>3. SameStep(c, t, Array(r), t)
    BY <1>1, <1>2, <1>4, <2>1, <2>2
  <2> QED BY <2>3 DEF ReplaceElement, r, s
<1>7. ASSUME pos < n, ~(IsIndex(t) /\ t.index = pos)
      PROVE  SameStep(c, t, RemoveElement(c, pos), Moved(t, "Remove", pos))
  <2> DEFINE r == RemoveAt(s, pos + 1)
             u == Moved(t, "Remove", pos)
  <2>1. pos + 1 \in 1..Len(s)
    BY <1>1, <1>2, <1>7 DEF n
  <2>2. /\ Len(r) = n - 1
        /\ \A k \in 1..pos + 1 - 1 : r[k] = s[k]
        /\ \A k \in pos + 1..n - 1 : r[k] = s[k + 1]
    BY <1>1, <2>1, RemovedElements DEF n
  <2>3. u.kind = t.kind /\ u.index = IF IsIndex(t) /\ t.index > pos THEN t.index - 1 ELSE t.index
    BY <1>2 DEF Moved, TokenType
  <2> HIDE DEF r, u
  <2>4. ASSUME IsIndex(t)
        PROVE  /\ u.index \in Nat
               /\ t.index < n <=> u.index < n - 1
               /\ t.index < n => r[u.index + 1] = s[t.index + 1]
    <3>1. CASE t.index > pos
      <4>1. u.index = t.index - 1
        BY <2>3, <2>4, <3>1
      <4>2. t.index < n => t.index \in pos + 1..n - 1
        BY <1>1, <1>2, <3>1
      <4>3. u.index + 1 = t.index /\ u.index \in Nat
        BY <1>2, <3>1, <4>1
      <4> QED BY <1>1, <1>2, <2>2, <4>1, <4>2, <4>3
    <3>2. CASE t.index < pos
      <4>1. u.index = t.index /\ t.index + 1 \in 1..pos + 1 - 1 /\ t.index < n /\ t.index < n - 1
        BY <1>1, <1>2, <1>7, <2>3, <3>2
      <4> QED BY <1>1, <1>2, <2>2, <4>1
    <3> QED BY <1>2, <1>7, <2>4, <3>1, <3>2
  <2>5. u.index \in Nat /\ Len(r) \in Nat
    BY <1>1, <1>2, <1>7, <2>2, <2>3, <2>4
  <2>6. SameStep(c, t, Array(r), u)
    BY <1>4, <2>2, <2>3, <2>4, <2>5
  <2> QED BY <2>6 DEF RemoveElement, r, u, s
<1>8. ASSUME pos = n, ~(IsIndex(t) /\ t.index = pos)
      PROVE  SameStep(c, t, Array(Append(c.elements, x)), t)
  <2> DEFINE r == Append(s, x)
  <2>1. Len(r) = n + 1 /\ \A k \in 1..n : r[k] = s[k]
    BY <1>1 DEF n
  <2> HIDE DEF r
  <2>2. IsIndex(t) => (t.index < n <=> t.index < n + 1) /\ (t.index < n => t.index + 1 \in 1..n)
    BY <1>1, <1>2, <1>8
  <2>3. SameStep(c, t, Array(r), t)
    BY <1>1, <1>2, <1>4, <2>1, <2>2
  <2> QED BY <2>3 DEF r, s
<1> QED BY <1>1, <1>5, <1>6, <1>7, <1>8

\* A write's inner levels leave alone what its path does not go through.
LEMMA BesideReattach ==
  ASSUME NEW c, IsJson(c), NEW tk \in TokenType, NEW create, NEW x, IsJson(x),
         DescendError(c, tk, create) = NoError, NEW t \in TokenType, ~Hits(t, StepOf(c, tk))
  PROVE  SameStep(c, t, Reattach(c, tk, ResolvedIndex(c, tk), x), t)
<1> DEFINE pos == ResolvedIndex(c, tk)
<1>0. StepOf(c, tk).resolvedIndex = pos /\ StepOf(c, tk).token = tk
  BY DEF StepOf
<1>1. CASE IsObject(c)
  <2>1. pos = -1 /\ t.key # tk.key
    BY <1>0, <1>1 DEF ResolvedIndex, Hits
  <2>2. Reattach(c, tk, pos, x) = InsertMember(c, tk.key, x)
    BY <2>1 DEF Reattach
  <2> QED BY <1>1, <2>1, <2>2, BesideMember
<1>2. CASE IsArray(c)
  <2>1. pos \in 0..Size(c) /\ Size(c) \in Nat
    BY <1>2, ResolvedInside, JsonElements DEF Size
  <2>2. ~(IsIndex(t) /\ t.index = pos)
    BY <1>0, <2>1 DEF Hits
  <2> HIDE DEF pos
  <2>3. Reattach(c, tk, pos, x) = IF pos = Size(c) THEN Array(Append(c.elements, x))
                                  ELSE ReplaceElement(c, pos, x)
    BY <2>1 DEF Reattach
  <2>4. pos = Size(c) \/ pos < Size(c)
    BY <2>1
  <2> QED BY <1>2, <2>1, <2>2, <2>3, <2>4, BesideElement DEF pos
<1> QED BY <1>1, <1>2, ResolvedInside DEF IsContainer

\* So does its leaf, but for the elements that it moves.
LEMMA BesideLeaf ==
  ASSUME NEW c, IsJson(c), NEW tk \in TokenType, NEW op \in WriteOps, NEW x, IsJson(x),
         LeafError(c, tk, op) = NoError, NEW t \in TokenType,
         ~Hits(t, StepOf(c, tk)) \/ (op = "Add" /\ ResolvedIndex(c, tk) >= 0)
  PROVE  SameStep(c, t, LeafEdit(c, tk, op, x), Moved(t, op, ResolvedIndex(c, tk)))
<1> DEFINE pos == ResolvedIndex(c, tk)
<1>0. StepOf(c, tk).resolvedIndex = pos /\ StepOf(c, tk).token = tk
  BY DEF StepOf
<1>1. CASE IsObject(c)
  <2>1. pos = -1
    BY <1>1 DEF ResolvedIndex
  <2>2. t.key # tk.key
    BY <1>0, <2>1 DEF Hits
  <2>3. Moved(t, op, pos) = t
    BY <2>1 DEF Moved
  <2>4. LeafEdit(c, tk, op, x) = IF op = "Remove" THEN RemoveMember(c, tk.key)
                                 ELSE InsertMember(c, tk.key, x)
    BY <1>1 DEF LeafEdit
  <2> QED BY <1>1, <2>2, <2>3, <2>4, BesideMember
<1>2. CASE IsArray(c)
  <2>1. pos \in 0..Size(c) /\ Size(c) \in Nat /\ (op # "Add" => pos < Size(c))
    BY <1>2, ResolvedInside, JsonElements DEF Size
  <2>2. op # "Add" => ~(IsIndex(t) /\ t.index = pos)
    BY <1>0, <2>1 DEF Hits
  <2>3. ~IsObject(c)
    BY <1>2 DEF IsObject, IsArray
  <2>4. /\ op = "Add" => LeafEdit(c, tk, op, x) = InsertElement(c, pos, x)
        /\ op = "Replace" => LeafEdit(c, tk, op, x) = ReplaceElement(c, pos, x)
        /\ op = "Remove" => LeafEdit(c, tk, op, x) = RemoveElement(c, pos)
    BY <2>3 DEF LeafEdit
  <2> HIDE DEF pos
  <2>5. op = "Replace" => Moved(t, op, pos) = t
    BY DEF Moved
  <2>6. CASE op = "Add"
    BY <1>2, <2>1, <2>4, <2>6, BesideElement DEF pos
  <2>7. CASE op = "Replace"
    BY <1>2, <2>1, <2>2, <2>4, <2>5, <2>7, BesideElement DEF pos
  <2>8. CASE op = "Remove"
    BY <1>2, <2>1, <2>2, <2>4, <2>8, BesideElement DEF pos
  <2> QED BY <2>6, <2>7, <2>8 DEF WriteOps
<1> QED BY <1>1, <1>2, ResolvedInside DEF IsContainer

\* A container that a write creates holds nothing, so its descent goes on to
\* create.
IsCreated(c) == c \in {EmptyArray, EmptyObject}

\* Nothing is found in a created container.
LEMMA CreatedEmpty ==
  ASSUME NEW c, IsCreated(c), NEW t \in TokenType
  PROVE  /\ EvalStepError(c, t) # NoError
         /\ ~Exists(c, t)
         /\ ~IsNull(c)
<1>1. t.index \in Nat /\ DOMAIN <<>> = {} /\ Len(<<>>) = 0
  BY DEF TokenType
<1>2. CASE c = EmptyArray
  <2>1. c.kind = "array" /\ c.elements = <<>> /\ ~IsObject(c) /\ IsArray(c) /\ Size(c) = 0
    BY <1>1, <1>2 DEF EmptyArray, Array, IsObject, IsArray, Size
  <2>2. ~(t.index < 0)
    BY <1>1
  <2>3. EvalStepError(c, t) # NoError
    BY <2>1, <2>2 DEF EvalStepError, NoError
  <2>4. ~Exists(c, t)
    BY <1>1, <2>1 DEF Exists, ResolvedIndex
  <2> QED BY <2>1, <2>3, <2>4 DEF IsNull
<1>3. CASE c = EmptyObject
  <2>1. c.kind = "object" /\ c.members = <<>> /\ IsObject(c) /\ ~HasMember(c, t.key)
    BY <1>1, <1>3 DEF EmptyObject, Object, IsObject, HasMember
  <2>2. EvalStepError(c, t) # NoError
    BY <2>1 DEF EvalStepError, NoError, HasMember, IsObject, IsArray
  <2>3. ~Exists(c, t)
    BY <2>1 DEF Exists
  <2> QED BY <2>1, <2>2, <2>3 DEF IsNull
<1> QED BY <1>2, <1>3 DEF IsCreated

\* What makeCreatedContainer makes is one.
LEMMA CreatedIs ==
  ASSUME NEW tk
  PROVE  IsCreated(MakeCreatedContainer(tk))
BY DEF IsCreated, MakeCreatedContainer

\* Going through a step of the write finds what it put there.
LEMMA HitHolds ==
  ASSUME NEW c, NEW where, NEW x, HoldsAt(c, where, x), NEW t, Hits(t, where)
  PROVE  EvalStepError(c, t) = NoError /\ EvalStep(c, t) = x
<1>1. CASE where.resolvedIndex >= 0
  BY <1>1 DEF Hits, HoldsAt, EvalStepError, EvalStep, IsArray, IsObject
<1>2. CASE ~(where.resolvedIndex >= 0)
  BY <1>2 DEF Hits, HoldsAt, EvalStepError, EvalStep, HasMember, IsArray, IsObject
<1> QED BY <1>1, <1>2

\* Before the write, what the descent went on to, unless it had to create it.
LEMMA HitBefore ==
  ASSUME NEW c, IsJson(c), NEW tk \in TokenType, NEW create, DescendError(c, tk, create) = NoError,
         NEW t \in TokenType, Hits(t, StepOf(c, tk)), NEW next
  PROVE  IF Exists(c, tk)
         THEN EvalStepError(c, t) = NoError /\ EvalStep(c, t) = Child(c, tk, next)
         ELSE EvalStepError(c, t) # NoError /\ IsCreated(Child(c, tk, next))
<1> DEFINE pos == ResolvedIndex(c, tk)
<1>0. StepOf(c, tk).resolvedIndex = pos /\ StepOf(c, tk).token = tk
  BY DEF StepOf
<1>1. ~Exists(c, tk) => IsCreated(Child(c, tk, next))
  BY CreatedIs DEF Child
<1>2. CASE IsObject(c)
  <2>1. t.key = tk.key
    BY <1>0, <1>2 DEF ResolvedIndex, Hits
  <2>2. Exists(c, tk) <=> HasMember(c, tk.key)
    BY <1>2 DEF Exists
  <2>3. EvalStepError(c, t) = NoError <=> HasMember(c, t.key)
    BY <1>2 DEF EvalStepError, NoError, HasMember, IsObject, IsArray
  <2>4. /\ EvalStep(c, t) = c.members[t.key]
        /\ Exists(c, tk) => Child(c, tk, next) = c.members[tk.key]
    BY <1>2 DEF EvalStep, Child
  <2> QED BY <1>1, <2>1, <2>2, <2>3, <2>4
<1>3. CASE IsArray(c)
  <2>1. pos \in 0..Size(c) /\ ~IsObject(c)
    BY <1>3, ResolvedInside DEF IsObject, IsArray
  <2>2. IsIndex(t) /\ t.index = pos
    BY <1>0, <2>1 DEF Hits
  <2>3. Exists(c, tk) <=> pos < Size(c)
    BY <2>1 DEF Exists
  <2>4. EvalStepError(c, t) = NoError <=> pos < Size(c)
    BY <1>3, <2>1, <2>2 DEF EvalStepError, NoError, IsObject, IsArray
  <2>5. /\ EvalStep(c, t) = ElementAt(c, pos)
        /\ Exists(c, tk) => Child(c, tk, next) = ElementAt(c, pos)
    BY <2>1, <2>2 DEF EvalStep, Child
  <2> QED BY <1>1, <2>3, <2>4, <2>5
<1> QED BY <1>2, <1>3, ResolvedInside DEF IsContainer

\* The container of each level walked is what the level above holds, or one that
\* is created in its place.
EnteredAt(j) ==
  IF j = 1 THEN doc ELSE Child(path[j - 1].container, call.tokens[j - 1], call.tokens[j])
SpineRef ==
  pc \in {"walk", "unwind"} =>
    \A j \in 1..Len(path) :
      path[j].container = Materialise(EnteredAt(j), call.tokens[j], call.create)

\* Every step keeps it.
LEMMA NextSpine ==
  ASSUME RefInv, SpineRef, [Next]_vars
  PROVE  SpineRef'
<1>0. IInv /\ WalkRef
  BY DEF RefInv
<1>1. CASE Call
  <2>1. path' = <<>> /\ Len(<<>>) = 0
    BY <1>1 DEF Call, CallEvaluate, CallAdd, CallReplace, CallRemove, CallSet, Begin
  <2> QED BY <2>1 DEF SpineRef
<1>2. CASE Descend \/ EditLeaf
  <2>1. /\ pc = "walk" /\ path' = Append(path, PathStep) /\ UNCHANGED <<doc, call>>
        /\ call.tokens # <<>>
    BY <1>2, <1>0, Counters DEF Descend, EditLeaf
  <2> DEFINE n == Len(path)
             new == path'
  <2>2. n \in Nat /\ n = i
    BY <1>0, <2>1, Counters
  <2>3. Len(new) = n + 1 /\ new[n + 1] = PathStep /\ \A j \in 1..n : new[j] = path[j]
    BY <1>0, <2>1, AppendToSequence DEF IInv, Shape
  <2>4. PathStep.container = Materialise(Entered, call.tokens[i + 1], call.create)
    BY <1>0, <2>1 DEF PathStep, Cur, Tk, WalkRef
  <2>5. Entered = EnteredAt(n + 1)
    BY <2>2 DEF Entered, EnteredAt
  <2> HIDE DEF new, n
  <2>6. ASSUME NEW j \in 1..n + 1
        PROVE  EnteredAt(j)' = EnteredAt(j)
    <3>1. CASE j = 1
      BY <2>1, <3>1 DEF EnteredAt
    <3>2. CASE j # 1
      <4>1. j - 1 \in 1..n
        BY <2>2, <3>2
      <4>2. path'[j - 1] = path[j - 1]
        BY <2>3, <4>1 DEF new
      <4> QED BY <2>1, <3>2, <4>2 DEF EnteredAt
    <3> QED BY <3>1, <3>2
  <2>7. ASSUME NEW j \in 1..n + 1
        PROVE  new[j].container = Materialise(EnteredAt(j), call.tokens[j], call.create)
    <3>1. CASE j = n + 1
      BY <2>2, <2>3, <2>4, <2>5, <3>1
    <3>2. CASE j # n + 1
      <4>1. j \in 1..n
        BY <2>2, <3>2
      <4> QED BY <2>1, <2>3, <4>1 DEF SpineRef, n
    <3> QED BY <3>1, <3>2
  <2>8. \A j \in 1..Len(path') :
          path'[j].container = Materialise(EnteredAt(j)', call.tokens[j], call.create)
    BY <2>3, <2>6, <2>7 DEF new
  <2> QED BY <2>1, <2>8 DEF SpineRef
<1>3. CASE EvalIterate \/ EvalFails \/ EvalReturns \/ WalkFails \/ Commit
  BY <1>3 DEF EvalIterate, EvalFails, EvalReturns, WalkFails, Commit, Return, SpineRef
<1>4. CASE WriteRoot \/ Unwind \/ UNCHANGED vars
  <2>1. UNCHANGED <<doc, call, path>> /\ (pc' \in {"walk", "unwind"} => pc \in {"walk", "unwind"})
    BY <1>4 DEF WriteRoot, Unwind, vars
  <2> QED BY <2>1 DEF SpineRef, EnteredAt
<1> QED
  BY <1>1, <1>2, <1>3, <1>4
  DEF Next, Step, DescendObject, DescendArray, LeafObject, LeafArray

\* What is known of each level when the write is committed.
LEMMA CommitLevel ==
  ASSUME RefInv, pc = "unwind", i = 0, call.op \in WriteOps, call.tokens # <<>>,
         NEW k \in 1..Len(path)
  PROVE  LET c == path[k].container
             tk == call.tokens[k]
         IN /\ IsJson(c) /\ tk \in TokenType /\ IsJson(rebuilt[k + 1])
            /\ path[k].token = tk /\ path[k].resolvedIndex = ResolvedIndex(c, tk)
            /\ k < Len(path) =>
                 /\ DescendError(c, tk, call.create) = NoError
                 /\ rebuilt[k] = Reattach(c, tk, ResolvedIndex(c, tk), rebuilt[k + 1])
            /\ k = Len(path) => /\ LeafError(c, tk, call.op) = NoError
                                /\ rebuilt[k] = LeafEdit(c, tk, call.op, call.value)
<1> DEFINE n == Len(path)
<1>0. IInv /\ UnwindRef /\ n \in Nat /\ n = Len(call.tokens) /\ call.tokens \in Seq(TokenType)
  BY Counters DEF RefInv, IInv, Shape, TypeOK
<1>1. k + 1 \in i + 1..n + 1 /\ (k < n => k \in i + 1..n - 1)
  BY <1>0
<1>2. IsJson(path[k].container) /\ IsJson(rebuilt[k + 1])
  BY <1>0, <1>1 DEF IInv, JsonInv
<1>3. call.tokens[k] \in TokenType
  BY <1>0
<1>4. /\ path[k].token = call.tokens[k]
      /\ path[k].resolvedIndex = ResolvedIndex(path[k].container, call.tokens[k])
      /\ IF k < n THEN DescendError(path[k].container, call.tokens[k], call.create) = NoError
         ELSE LeafError(path[k].container, call.tokens[k], call.op) = NoError
  BY <1>0 DEF IInv, ReadBackInv, PathInv
<1>5. k < n =>
        rebuilt[k] = Reattach(path[k].container, call.tokens[k],
                              ResolvedIndex(path[k].container, call.tokens[k]), rebuilt[k + 1])
  BY <1>0, <1>1, <1>4 DEF UnwindRef
<1>6. k = n => rebuilt[k] = LeafEdit(path[k].container, call.tokens[k], call.op, call.value)
  BY <1>0 DEF UnwindRef
<1> HIDE DEF n
<1>7. k = n => ~(k < n)
  BY <1>0
<1> QED BY <1>2, <1>3, <1>4, <1>5, <1>6, <1>7 DEF n

\* The levels of an evaluation.
LEMMA EvalLevels ==
  ASSUME NEW tokens, Len(tokens) \in Nat, NEW root
  PROVE  /\ EvalWalk(tokens, root)[0] = Success(root)
         /\ \A k \in 1..Len(tokens) :
              EvalWalk(tokens, root)[k] = EvalAfter(EvalWalk(tokens, root)[k - 1], tokens[k], k - 1)
<1> DEFINE w == EvalWalk(tokens, root)
           n == Len(tokens)
<1>1. IsEvalWalk(w, tokens, root, n)
  BY EvalWalkUnfolds
<1> HIDE DEF w, n
<1>2. n \in Nat
  BY DEF n
<1>3. w[0] = Success(root)
  BY <1>1, <1>2 DEF IsEvalWalk
<1>4. ASSUME NEW k \in 1..n
      PROVE  w[k] = EvalAfter(w[k - 1], tokens[k], k - 1)
  <2>1. k \in 0..n /\ k # 0
    BY <1>2
  <2> QED BY <1>1, <2>1 DEF IsEvalWalk
<1> QED BY <1>3, <1>4 DEF w, n

\* Nothing is there, or only a null that the write replaces.
Absent(r) == r.ok => IsNull(r.value)

\* What one more level of it finds.
LEMMA EvalNext ==
  ASSUME NEW c, NEW r, NEW tk, NEW k
  PROVE  /\ EvalStepError(c, tk) = NoError =>
              EvalAfter(Success(c), tk, k) = Success(EvalStep(c, tk))
         /\ EvalStepError(c, tk) # NoError => ~EvalAfter(Success(c), tk, k).ok
         /\ ~r.ok => EvalAfter(r, tk, k) = r
         /\ Absent(r) => ~EvalAfter(r, tk, k).ok
         /\ IsNull(c) => Absent(Success(c))
<1>1. ASSUME Absent(r)
      PROVE  ~EvalAfter(r, tk, k).ok
  <2>1. CASE ~r.ok
    BY <2>1 DEF EvalAfter
  <2>2. CASE r.ok
    <3>1. EvalStepError(r.value, tk) # NoError
      BY <1>1, <2>2 DEF Absent, IsNull, EvalStepError, IsObject, IsArray, NoError
    <3> QED BY <2>2, <3>1 DEF EvalAfter, Failure
  <2> QED BY <2>1, <2>2
<1>2. IsNull(c) => Absent(Success(c))
  BY DEF Absent, Success, IsNull
<1> QED BY <1>1, <1>2 DEF EvalAfter, Success, Failure

\* Evaluations that agree at a level agree from there on.
LEMMA TailAgrees ==
  ASSUME NEW n \in Nat, NEW j \in 0..n, NEW w, NEW v, w[j] = v[j],
         \A k \in j + 1..n : w[k - 1] = v[k - 1] => w[k] = v[k]
  PROVE  w[n] = v[n]
<1> DEFINE S == {k \in 0..n : k < j \/ w[k] = v[k]}
<1>1. 0 \in S
  OBVIOUS
<1>2. ASSUME NEW k \in 0..n, k \in S, k < n
      PROVE  k + 1 \in S
  <2>1. k + 1 \in 0..n /\ (k + 1) - 1 = k /\ (k + 1 < j \/ k + 1 = j \/ k + 1 \in j + 1..n)
    BY <1>2
  <2>2. CASE k + 1 < j
    BY <2>1, <2>2
  <2>3. CASE k + 1 = j
    BY <2>1, <2>3
  <2>4. CASE k + 1 \in j + 1..n
    <3>1. w[k] = v[k]
      BY <1>2, <2>4
    <3> QED BY <2>1, <2>4, <3>1
  <2> QED BY <2>1, <2>2, <2>3, <2>4
<1>3. 0..n \subseteq S
  <2> HIDE DEF S
  <2> QED BY <1>1, <1>2, Upwards
<1> QED BY <1>3

\* Down to level j, a pointer that shares the written path finds the levels of
\* the write: after it the rebuilt ones, before it those of the descent as far as
\* they were there.
Shares(p, w, v, k) ==
  /\ v[k] = Success(rebuilt[k + 1])
  /\ \/ w[k] = Success(path[k + 1].container)
     \/ IsCreated(path[k + 1].container) /\ Absent(w[k])

\* Each level of the walks keeps it.
LEMMA SharedLevels ==
  ASSUME RefInv, SpineRef, pc = "unwind", i = 0, call.op \in WriteOps, call.tokens # <<>>,
         NEW p \in Seq(TokenType), NEW j \in 1..Len(path), j =< Len(p),
         \A k \in 1..j - 1 : Hits(p[k], path[k]),
         NEW w, NEW v, w[0] = Success(doc), v[0] = Success(rebuilt[1]),
         \A k \in 1..j - 1 : w[k] = EvalAfter(w[k - 1], p[k], k - 1),
         \A k \in 1..j - 1 : v[k] = EvalAfter(v[k - 1], p[k], k - 1)
  PROVE  Shares(p, w, v, j - 1)
<1> DEFINE n == Len(path)
           create == call.create
           tokens == call.tokens
           m == j - 1
           S == {k \in 0..m : Shares(p, w, v, k)}
<1>0. n \in Nat /\ j \in Nat /\ j >= 1 /\ j =< n /\ m \in Nat /\ Len(p) \in Nat
  BY Counters DEF RefInv
<1> HIDE DEF n, m
<1>m. m = j - 1
  BY DEF m
\* What is built at a level.
<1>1. ASSUME NEW level, NEW tk
      PROVE  /\ \/ Materialise(level, tk, create) = level
                \/ IsCreated(Materialise(level, tk, create)) /\ IsNull(level)
             /\ IsCreated(level) => IsCreated(Materialise(level, tk, create))
  BY CreatedIs DEF Materialise
<1>2. 0 \in S
  <2>1. path[1].container = Materialise(doc, tokens[1], create)
    <3>1. 1 \in 1..Len(path)
      BY <1>0 DEF n
    <3> QED BY <3>1 DEF SpineRef, EnteredAt
  <2>2. w[0] = Success(path[1].container) \/ (IsCreated(path[1].container) /\ Absent(w[0]))
    BY <1>1, <2>1, EvalNext
  <2>3. Shares(p, w, v, 0)
    BY <2>2 DEF Shares
  <2> QED BY <1>0, <2>3
<1>3. ASSUME NEW k \in 0..m, k \in S, k < m
      PROVE  k + 1 \in S
  <2> DEFINE h == k + 1
             c == path[h].container
             tk == tokens[h]
             t == p[h]
             below == path[h + 1].container
             child == Child(c, tk, tokens[h + 1])
  <2>1. /\ h \in 1..m /\ h \in 0..m /\ h - 1 = k /\ h < n /\ h \in 1..n /\ h + 1 \in 1..n
        /\ h \in 1..j - 1 /\ h \in 1..Len(p) /\ (h + 1) - 1 = h /\ h + 1 # 1
    BY <1>0, <1>3, <1>m
  <2> HIDE DEF h
  <2>2. /\ IsJson(c) /\ tk \in TokenType /\ IsJson(rebuilt[h + 1])
        /\ DescendError(c, tk, create) = NoError
        /\ rebuilt[h] = Reattach(c, tk, ResolvedIndex(c, tk), rebuilt[h + 1])
        /\ path[h].token = tk /\ path[h].resolvedIndex = ResolvedIndex(c, tk)
    <3>1. h \in 1..Len(path)
      BY <2>1 DEF n
    <3> QED BY <2>1, <3>1, CommitLevel DEF n
  <2>3. t \in TokenType /\ Hits(t, StepOf(c, tk))
    <3>1. t \in TokenType
      BY <2>1
    <3>2. Hits(t, path[h])
      BY <2>1
    <3> QED BY <2>2, <3>1, <3>2 DEF Hits, StepOf
  <2>4. below = Materialise(child, tokens[h + 1], create)
    <3>1. h + 1 \in 1..Len(path)
      BY <2>1 DEF n
    <3>2. path[h + 1].container = Materialise(EnteredAt(h + 1), tokens[h + 1], create)
      BY <3>1 DEF SpineRef
    <3>3. EnteredAt(h + 1) = child
      BY <2>1 DEF EnteredAt
    <3> QED BY <3>2, <3>3
  <2>5. w[h] = EvalAfter(w[k], t, k) /\ v[h] = EvalAfter(v[k], t, k)
    BY <2>1
  <2>6. v[k] = Success(rebuilt[h]) /\ (w[k] = Success(c) \/ (IsCreated(c) /\ Absent(w[k])))
    BY <1>3, <2>1 DEF Shares, h
  <2> HIDE DEF c, tk, t, below, create, tokens
  <2>7. v[h] = Success(rebuilt[h + 1])
    <3>1. HoldsAt(rebuilt[h], StepOf(c, tk), rebuilt[h + 1])
      BY <2>2, ReattachHolds
    <3>2. EvalStepError(rebuilt[h], t) = NoError /\ EvalStep(rebuilt[h], t) = rebuilt[h + 1]
      BY <2>3, <3>1, HitHolds
    <3> QED BY <2>5, <2>6, <3>2, EvalNext
  <2>8. CASE w[k] = Success(c)
    <3>1. IF Exists(c, tk) THEN EvalStepError(c, t) = NoError /\ EvalStep(c, t) = child
          ELSE EvalStepError(c, t) # NoError /\ IsCreated(child)
      BY <2>2, <2>3, HitBefore
    <3> HIDE DEF child
    <3>2. CASE ~Exists(c, tk)
      <4>1. ~w[h].ok /\ IsCreated(child)
        BY <2>5, <2>8, <3>1, <3>2, EvalNext
      <4>2. IsCreated(below)
        BY <1>1, <2>4, <4>1
      <4>3. w[h] = Success(below) \/ (IsCreated(below) /\ Absent(w[h]))
        BY <4>1, <4>2 DEF Absent
      <4>4. Shares(p, w, v, h)
        BY <2>7, <4>3 DEF Shares, below
      <4> QED BY <2>1, <4>4 DEF h
    <3>3. Exists(c, tk) => w[h] = Success(below) \/ (IsCreated(below) /\ Absent(w[h]))
      <4> SUFFICES ASSUME Exists(c, tk)
                   PROVE  w[h] = Success(below) \/ (IsCreated(below) /\ Absent(w[h]))
        OBVIOUS
      <4>1. w[h] = Success(child)
        BY <2>5, <2>8, <3>1, EvalNext
      <4>2. below = child \/ (IsCreated(below) /\ IsNull(child))
        BY <1>1, <2>4
      <4> QED BY <4>1, <4>2, EvalNext
    <3> QED BY <2>1, <2>7, <3>2, <3>3 DEF Shares, below, h
  <2>9. CASE IsCreated(c) /\ Absent(w[k])
    <3>1. ~Exists(c, tk)
      BY <2>2, <2>9, CreatedEmpty
    <3>2. IsCreated(child)
      BY <3>1, CreatedIs DEF Child
    <3>3. IsCreated(below)
      BY <1>1, <2>4, <3>2
    <3>4. ~w[h].ok
      <4>1. Absent(w[k]) /\ w[h] = EvalAfter(w[k], t, k)
        BY <2>5, <2>9
      <4>2. ~EvalAfter(w[k], t, k).ok
        BY <4>1, EvalNext, Zenon
      <4> QED BY <4>1, <4>2
    <3>5. Shares(p, w, v, h)
      BY <2>7, <3>3, <3>4 DEF Shares, Absent, below
    <3> QED BY <2>1, <3>5 DEF h
  <2> QED BY <2>6, <2>8, <2>9
<1>4. 0..m \subseteq S
  <2> HIDE DEF S
  <2> QED BY <1>0, <1>2, <1>3, Upwards
<1>5. m \in S
  BY <1>0, <1>4
<1> QED BY <1>5 DEF m

\* A pointer p leaves the written path at level j, or has its location pushed
\* back by the element that the write inserts there.
Apart(p, j) ==
  \/ /\ \A k \in 1..j - 1 : Hits(p[k], path[k])
     /\ ~Hits(p[j], path[j])
  \/ /\ \A k \in 1..j : Hits(p[k], path[k])
     /\ j = Len(path) /\ call.op = "Add" /\ path[j].resolvedIndex >= 0

\* The step that leaves the path finds in the rebuilt level what it found before.
LEMMA ApartStep ==
  ASSUME RefInv, pc = "unwind", i = 0, call.op \in WriteOps, call.tokens # <<>>,
         NEW j \in 1..Len(path), NEW p \in Seq(TokenType), j =< Len(p), Apart(p, j)
  PROVE  SameStep(path[j].container, p[j], rebuilt[j], Shifted(p, j)[j])
<1> DEFINE n == Len(path)
           c == path[j].container
           tk == call.tokens[j]
           t == p[j]
           op == call.op
           pos == ResolvedIndex(c, tk)
           u == Shifted(p, j)[j]
<1>0. n \in Nat /\ j \in 1..Len(p) /\ (j < n \/ j = n) /\ j \in 1..j
  BY Counters DEF RefInv
<1>1. /\ IsJson(c) /\ tk \in TokenType /\ IsJson(rebuilt[j + 1])
      /\ path[j].token = tk /\ path[j].resolvedIndex = pos
      /\ j < n => /\ DescendError(c, tk, call.create) = NoError
                  /\ rebuilt[j] = Reattach(c, tk, pos, rebuilt[j + 1])
      /\ j = n => /\ LeafError(c, tk, op) = NoError
                  /\ rebuilt[j] = LeafEdit(c, tk, op, call.value)
  BY CommitLevel
<1>2. t \in TokenType
  BY <1>0
<1>3. Hits(t, path[j]) <=> Hits(t, StepOf(c, tk))
  BY <1>1 DEF Hits, StepOf
<1>4. u = IF j = n THEN Moved(t, op, pos) ELSE t
  BY <1>0, <1>1 DEF Shifted
<1>5. IsJson(call.value)
  BY DEF RefInv, IInv, JsonInv, WriteOps
<1>6. ~Hits(t, path[j]) \/ (j = n /\ op = "Add" /\ pos >= 0)
  BY <1>0, <1>1 DEF Apart
<1> HIDE DEF n, c, tk, t, op, pos, u
<1>7. CASE j < n
  <2>1. j # n
    BY <1>0, <1>7
  <2>2. ~Hits(t, StepOf(c, tk)) /\ u = t
    BY <1>3, <1>4, <1>6, <2>1
  <2>3. SameStep(c, t, Reattach(c, tk, ResolvedIndex(c, tk), rebuilt[j + 1]), t)
    BY <1>1, <1>2, <1>7, <2>2, BesideReattach
  <2> QED BY <1>1, <1>7, <2>2, <2>3 DEF pos, c, t, u
<1>8. CASE j = n
  <2>1. SameStep(c, t, LeafEdit(c, tk, op, call.value), Moved(t, op, ResolvedIndex(c, tk)))
    <3>1. ~Hits(t, StepOf(c, tk)) \/ (op = "Add" /\ ResolvedIndex(c, tk) >= 0)
      BY <1>3, <1>6 DEF pos
    <3>2. op \in WriteOps
      BY DEF op
    <3> QED BY <1>1, <1>2, <1>5, <1>8, <3>1, <3>2, BesideLeaf
  <2> QED BY <1>1, <1>4, <1>8, <2>1 DEF pos, c, t, u
<1> QED BY <1>0, <1>7, <1>8

\* A pointer apart from the written path evaluates to the same before and after.
LEMMA FrameKept ==
  ASSUME RefInv, SpineRef, pc = "unwind", i = 0, call.op \in WriteOps, call.tokens # <<>>,
         NEW j \in 1..Len(path), NEW p \in Seq(TokenType), j =< Len(p), Apart(p, j)
  PROVE  LET before == EvaluatePointer(p, doc)
             after == EvaluatePointer(Shifted(p, j), rebuilt[1])
         IN IF before.ok THEN after = before ELSE ~after.ok
<1> DEFINE n == Len(p)
           q == Shifted(p, j)
           w == EvalWalk(p, doc)
           v == EvalWalk(q, rebuilt[1])
           c == path[j].container
           t == p[j]
           u == q[j]
<1>0. n \in Nat /\ j \in 1..n /\ j - 1 \in 0..n /\ j \in 0..n /\ (j - 1) + 1 = j
  BY Counters DEF RefInv
<1>1. Len(q) = n /\ \A k \in 1..n : k # j => q[k] = p[k]
  BY <1>0 DEF Shifted
<1>2. w[0] = Success(doc) /\ \A k \in 1..n : w[k] = EvalAfter(w[k - 1], p[k], k - 1)
  BY <1>0, EvalLevels
<1>3. v[0] = Success(rebuilt[1]) /\ \A k \in 1..n : v[k] = EvalAfter(v[k - 1], q[k], k - 1)
  <2> HIDE DEF q
  <2> QED BY <1>0, <1>1, EvalLevels
<1>4. SameStep(c, t, rebuilt[j], u)
  BY ApartStep
<1>5. \A k \in 1..j - 1 : Hits(p[k], path[k])
  BY <1>0 DEF Apart
<1> HIDE DEF q, w, v, n
<1>6. Shares(p, w, v, j - 1)
  <2>1. \A k \in 1..j - 1 : k \in 1..n /\ k # j
    BY <1>0
  <2>2. \A k \in 1..j - 1 : w[k] = EvalAfter(w[k - 1], p[k], k - 1)
    BY <1>2, <2>1
  <2>3. \A k \in 1..j - 1 : v[k] = EvalAfter(v[k - 1], p[k], k - 1)
    BY <1>1, <1>3, <2>1
  <2> QED BY <1>2, <1>3, <1>5, <2>2, <2>3, SharedLevels
<1>7. /\ v[j - 1] = Success(rebuilt[j])
      /\ w[j - 1] = Success(c) \/ (IsCreated(c) /\ Absent(w[j - 1]))
      /\ w[j] = EvalAfter(w[j - 1], t, j - 1)
      /\ v[j] = EvalAfter(v[j - 1], u, j - 1)
  BY <1>0, <1>2, <1>3, <1>6 DEF Shares
<1> HIDE DEF c, t, u
<1>8. w[j] = v[j] \/ (~w[j].ok /\ ~v[j].ok)
  <2>1. CASE w[j - 1] = Success(c)
    <3>1. CASE EvalStepError(c, t) = NoError
      <4>1. w[j] = Success(EvalStep(c, t))
        BY <1>7, <2>1, <3>1, EvalNext
      <4>2. v[j] = Success(EvalStep(rebuilt[j], u))
        BY <1>4, <1>7, <3>1, EvalNext DEF SameStep
      <4> QED BY <1>4, <3>1, <4>1, <4>2 DEF SameStep
    <3>2. CASE EvalStepError(c, t) # NoError
      <4>1. ~w[j].ok
        BY <1>7, <2>1, <3>2, EvalNext
      <4>2. ~v[j].ok
        BY <1>4, <1>7, <3>2, EvalNext DEF SameStep
      <4> QED BY <4>1, <4>2
    <3> QED BY <3>1, <3>2
  <2>2. CASE IsCreated(c) /\ Absent(w[j - 1])
    <3>1. EvalStepError(c, t) # NoError
      <4>1. t \in TokenType
        BY <1>0 DEF t, n
      <4> QED BY <2>2, <4>1, CreatedEmpty
    <3>2. ~v[j].ok
      BY <1>4, <1>7, <3>1, EvalNext DEF SameStep
    <3>3. ~w[j].ok
      <4>1. Absent(w[j - 1])
        BY <2>2
      <4>2. ~EvalAfter(w[j - 1], t, j - 1).ok
        BY <4>1, EvalNext, Zenon
      <4> QED BY <1>7, <4>2
    <3> QED BY <3>2, <3>3
  <2> QED BY <1>7, <2>1, <2>2
<1>9. \A k \in j + 1..n : w[k - 1] = v[k - 1] => w[k] = v[k]
  <2> SUFFICES ASSUME NEW k \in j + 1..n, w[k - 1] = v[k - 1] PROVE w[k] = v[k]
    OBVIOUS
  <2>1. k \in 1..n /\ k # j
    BY <1>0
  <2>2. w[k] = EvalAfter(w[k - 1], p[k], k - 1)
    BY <1>2, <2>1
  <2>3. v[k] = EvalAfter(v[k - 1], p[k], k - 1)
    BY <1>1, <1>3, <2>1
  <2> QED BY <2>2, <2>3
<1>10. \A k \in 1..n : ~w[k - 1].ok => w[k] = w[k - 1]
  BY <1>2, EvalNext
<1>11. \A k \in 1..n : ~v[k - 1].ok => v[k] = v[k - 1]
  BY <1>3, EvalNext
<1>12. IF w[n].ok THEN v[n] = w[n] ELSE ~v[n].ok
  <2>1. CASE w[j] = v[j]
    <3>1. w[n] = v[n]
      BY <1>0, <1>9, <2>1, TailAgrees
    <3> QED BY <3>1
  <2>2. CASE ~w[j].ok /\ ~v[j].ok
    <3>1. w[n] = w[j]
      BY <1>0, <1>10, <2>2, FailureStays
    <3>2. v[n] = v[j]
      BY <1>0, <1>11, <2>2, FailureStays
    <3> QED BY <2>2, <3>1, <3>2
  <2> QED BY <1>8, <2>1, <2>2
<1> QED BY <1>1, <1>12 DEF EvaluatePointer, w, v, q, n

\* The step that commits a write has the property.
LEMMA CommitFrame ==
  ASSUME RefInv, SpineRef, [Next]_vars
  PROVE  FrameAtCommit
<1> SUFFICES ASSUME pc = "unwind", i = 0, pc' = "idle", outcome'.ok,
                    NEW p \in Pointers, NEW j \in 1..Len(path), j =< Len(p),
                    \/ Diverges(p, j)
                    \/ /\ \A k \in 1..j : Addresses(<<p[k]>>, <<path[k]>>)
                       /\ j = Len(path) /\ call.op = "Add" /\ path[j].resolvedIndex >= 0
             PROVE  LET before == EvaluatePointer(p, doc)
                        after == EvaluatePointer(Shifted(p, j), doc')
                    IN IF before.ok THEN after = before ELSE ~after.ok
  BY Zenon DEF FrameAtCommit
<1>1. Commit
  <2>1. CASE Call \/ EvalIterate \/ EvalFails \/ EvalReturns \/ WriteRoot \/ WalkFails
    BY <2>1
    DEF Call, CallEvaluate, CallAdd, CallReplace, CallRemove, CallSet, Begin,
        EvalIterate, EvalFails, EvalReturns, WriteRoot, WalkFails
  <2>2. CASE DescendObject \/ DescendArray \/ LeafObject \/ LeafArray
    BY <2>2 DEF DescendObject, DescendArray, LeafObject, LeafArray, Descend, EditLeaf
  <2>3. CASE Unwind \/ UNCHANGED vars
    BY <2>3 DEF Unwind, vars
  <2> QED BY <2>1, <2>2, <2>3 DEF Next, Step
<1>2. doc' = rebuilt[1]
  BY <1>1 DEF Commit, Return, Failure
<1>3. call.op \in WriteOps /\ call.tokens # <<>>
  <2>1. Len(path) \in Nat /\ Len(path) = Len(call.tokens) /\ Len(path) # 0
    BY Counters DEF RefInv
  <2> QED BY <2>1, Counters DEF RefInv, IInv, Shape, CommitIsWrite
<1>4. p \in Seq(TokenType)
  BY PointersAssumption
<1>5. Apart(p, j)
  BY AddressesOne, Zenon DEF Diverges, Apart
<1>6. LET before == EvaluatePointer(p, doc)
          after == EvaluatePointer(Shifted(p, j), rebuilt[1])
      IN IF before.ok THEN after = before ELSE ~after.ok
  BY <1>3, <1>4, <1>5, FrameKept
<1> QED BY <1>2, <1>6

\* A write touches only its own location: every pointer that leaves the written
\* path, or that an insertion pushes back, resolves after the commit to what it
\* resolved to before.
THEOREM FrameIsUntouched ==
  ASSUME FitsCounter
  PROVE  Spec => FrameUntouched
<1>1. Init => RefInv /\ SpineRef
  <2> SUFFICES ASSUME Init PROVE RefInv /\ SpineRef
    OBVIOUS
  <2> QED
    BY InitIInv DEF Init, RefInv, EvalRef, WalkRef, UnwindRef, SpineRef
<1>2. RefInv /\ SpineRef /\ [Next]_vars => RefInv' /\ SpineRef' /\ FrameAtCommit
  BY NextImplements, NextSpine, CommitFrame DEF Implements
<1> QED
  BY <1>1, <1>2, PTL DEF Spec, FrameUntouched

=============================================================================
