----------------------------- MODULE MCJSONPatch -----------------------------
(* Instances of JSONPatch for TLC. *)
EXTENDS MergeSemantics, JsonEquality

KeyTk(name) == Token("Key", 0, name)
IndexTk(k) == Token("Index", k, ToString(k))

One == Num(1)
ObjA(v) == Object([q \in {"a"} |-> v])
ObjAB(v, w) == Object([q \in {"a", "b"} |-> IF q = "a" THEN v ELSE w])

AddOp(p, v) == [kind |-> "Add", path |-> p, from |-> <<>>, value |-> v]
ReplaceOp(p, v) == [kind |-> "Replace", path |-> p, from |-> <<>>, value |-> v]
TestOp(p, v) == [kind |-> "Test", path |-> p, from |-> <<>>, value |-> v]
RemoveOp(p) == [kind |-> "Remove", path |-> p, from |-> <<>>, value |-> Null]
CopyOp(f, p) == [kind |-> "Copy", path |-> p, from |-> f, value |-> Null]
MoveOp(f, p) == [kind |-> "Move", path |-> p, from |-> f, value |-> Null]

MCTokens == {KeyTk("a"), KeyTk("b"), KeyTk("-"), IndexTk(0), IndexTk(1)}
Short == {<<>>} \cup {<<tk>> : tk \in MCTokens}
MCPointers == Short \cup {<<KeyTk("a"), tk>> : tk \in MCTokens}
                    \cup {<<IndexTk(0), tk>> : tk \in MCTokens}
                    \cup {<<IndexTk(1), KeyTk("a")>>}

MCDocuments ==
  {Null, One, ObjA(One), Array(<<One, Null>>), ObjA(Array(<<Null, One>>)),
   Array(<<ObjA(One), EmptyArray>>), ObjAB(ObjA(One), Null), ObjAB(ObjA(Null), ObjA(ObjA(One)))}

\* With the values inside them and in the patches.
MCJson ==
  MCDocuments \cup {EmptyArray, Array(<<Null, One>>), Array(<<One>>), ObjA(Null), ObjA(ObjA(One)),
                   ObjAB(One, Null)}

RECURSIVE NestingOf(_)
NestingOf(v) == IF Children(v) = {} THEN 0 ELSE 1 + Max({NestingOf(c) : c \in Children(v)})
MCNesting == [v \in MCJson |-> NestingOf(v)]

MCPaths == UNION {[1..k -> {KeyTk("a"), KeyTk("b")}] : k \in 0..3}

\* Every single operation, and every move with the move back.
Ops ==
  {AddOp(p, v) : p \in MCPointers, v \in {One, ObjA(Null)}}
    \cup {ReplaceOp(p, One) : p \in MCPointers} \cup {RemoveOp(p) : p \in MCPointers}
    \cup {TestOp(p, v) : p \in MCPointers, v \in {One, ObjA(One), ObjAB(One, Null)}}
    \cup {CopyOp(f, p) : f \in MCPointers, p \in MCPointers}
    \cup {MoveOp(f, p) : f \in MCPointers, p \in MCPointers}
UndoPatches ==
  {<<MoveOp(f, p), MoveOp(p, f)>> : f \in MCPointers, p \in MCPointers}
    \cup {<<AddOp(p, One), RemoveOp(p)>> : p \in MCPointers}
SinglePatches == {<<op>> : op \in Ops} \cup {<<>>} \cup UndoPatches

\* Longer patches over few operations, with failures at every position.
FewOps == {AddOp(<<KeyTk("b")>>, One), RemoveOp(<<KeyTk("a")>>), TestOp(<<KeyTk("a")>>, One),
           MoveOp(<<KeyTk("a")>>, <<KeyTk("b")>>), MoveOp(<<KeyTk("a")>>, <<KeyTk("a"), KeyTk("b")>>),
           CopyOp(<<KeyTk("b")>>, <<KeyTk("a")>>), ReplaceOp(<<>>, One),
           ReplaceOp(<<>>, Array(<<One>>))}
LongPatches == UNION {[1..k -> FewOps] : k \in 0..3}
AllPatches == SinglePatches \cup LongPatches

=============================================================================
