---------------------------- MODULE MCJSONPointer ----------------------------
(* Instances of JSONPointer for TLC. *)
EXTENDS JSONPointer

KeyTk(name) == Token("Key", 0, name)
IndexTk(n) == Token("Index", n, ToString(n))

MCTokens == {KeyTk("a"), KeyTk("-"), IndexTk(0), IndexTk(1)}

One == Num(1)
ObjA(v) == Object([q \in {"a"} |-> v])

\* Two calls in a row on one variable, along pointers of up to two tokens and a
\* few of three.
MCPointers ==
  {<<>>, <<KeyTk("a")>>, <<KeyTk("-")>>, <<IndexTk(0)>>, <<IndexTk(1)>>}
    \cup {<<KeyTk("a"), tk>> : tk \in MCTokens} \cup {<<IndexTk(0), tk>> : tk \in MCTokens}
    \cup {<<KeyTk("-"), KeyTk("a")>>, <<KeyTk("-"), KeyTk("-")>>}
    \cup {<<KeyTk("a"), KeyTk("-"), IndexTk(0)>>, <<IndexTk(0), KeyTk("a"), IndexTk(0)>>,
          <<KeyTk("-"), KeyTk("-"), KeyTk("a")>>, <<KeyTk("a"), IndexTk(1), KeyTk("a")>>}
MCJson ==
  {Null, One, EmptyObject, EmptyArray, ObjA(One), Array(<<One>>), Array(<<Null, One>>),
   ObjA(Array(<<Null, One>>)), Array(<<ObjA(One)>>),
   Object([q \in {"0", "a"} |-> IF q = "a" THEN Array(<<One>>) ELSE One])}
MCValues == {Undefined, One}
=============================================================================
