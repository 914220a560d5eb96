---------------------------- MODULE MCSchemaLinking ----------------------------
(***************************************************************************)
(* Documents for SchemaLinking: a root with a definition x, with a         *)
(* property q, and a property p; and a member extra, which no keyword      *)
(* compiles.                                                               *)
(***************************************************************************)
EXTENDS SchemaLinking, TLC

H == "http://h"
MCAuthorities == {H}
MCMaxPasses == 16

X == <<"$defs", "x">>
Q == <<"properties", "q">>
P == <<"properties", "p">>
Extra == <<"extra">>

Plain ==
  [kind |-> "object", id |-> <<>>, anchor |-> "", dynamicAnchor |-> "", ref |-> NoRef,
   dynamicRef |-> NoRef, defs |-> <<>>, keywords |-> <<>>, asserts |-> TRUE]
BoolSchema == [Plain EXCEPT !.kind = "bool"]
Malformed == [Plain EXCEPT !.kind = "malformed"]
OnlyRef(r) == [Plain EXCEPT !.ref = r, !.asserts = FALSE]
OnlyDynamicRef(r) == [Plain EXCEPT !.dynamicRef = r, !.asserts = FALSE]
RefAndMore(r) == [Plain EXCEPT !.ref = r]
BothRefs(r) == [Plain EXCEPT !.ref = r, !.dynamicRef = r, !.asserts = FALSE]

Document(root, x, q, p, extra) ==
  (<<>> :> [root EXCEPT !.defs = <<X>>, !.keywords = <<P>>])
    @@ (X :> [x EXCEPT !.keywords = <<Q>>]) @@ ((X \o Q) :> q) @@ (P :> p)
    @@ (Extra :> [extra EXCEPT !.keywords = IF extra.kind = "object" THEN <<Q>> ELSE <<>>])
    @@ ((Extra \o Q) :> BoolSchema)

Name(uri, n) == Reference(uri, "name", <<n>>)
Pointer(uri, path) == Reference(uri, "pointer", path)

\* References of every form, to the root, to x, to q, and to nothing.
Uris == {<<>>, <<"b">>, <<"", "b">>, <<H, "b">>, <<H, "a">>}
Refs ==
  {Pointer(<<>>, <<>>), Pointer(<<>>, X), Pointer(<<>>, X \o Q), Pointer(<<>>, Extra),
   Pointer(<<>>, <<"missing">>), UriKey(<<"a">>), UriKey(<<"missing">>)}
    \cup {Name(uri, n) : uri \in Uris, n \in {"n", "m"}}
    \cup {Pointer(uri, Q) : uri \in Uris \ {<<>>}}
    \cup {UriKey(uri) : uri \in Uris \ {<<>>}}

RootIds == {<<>>, <<H, "a">>}
XIds == {<<>>, <<"b">>, <<H, "b">>, <<"", "b">>}
\* Under a base URI without an authority, references are not resolved.
Ids == (RootIds \X XIds) \ {<<<<>>, <<"", "b">>>>}

\* The reference is that of p.  A pointer may lead to an embedded resource, not
\* into it.
Outside ==
  {Document([Plain EXCEPT !.id = rootId], [Plain EXCEPT !.id = id, !.anchor = n, !.dynamicAnchor = d],
            [Plain EXCEPT !.anchor = m], p, Plain) :
     <<rootId, id>> \in Ids, n \in {"", "n"}, d \in {"", "n"}, m \in {"", "m"},
     p \in {OnlyRef(r) : r \in Refs} \cup {BothRefs(r) : r \in Refs}}
PointsInside(d) == d[X].id # <<>> /\ d[P].ref = Pointer(<<>>, X \o Q)

\* The reference is inside x, and no pointer to what it is in.
InnerRefs ==
  {r \in Refs : r.part # "pointer" \/ r.path \notin {X, X \o Q, Q}}
    \cup {Pointer(uri, P) : uri \in {<<>>, <<"a">>, <<H, "a">>}}
Inside ==
  {Document([Plain EXCEPT !.id = rootId, !.dynamicAnchor = d],
            [Plain EXCEPT !.id = id, !.anchor = n, !.dynamicAnchor = IF id = <<>> THEN "" ELSE d],
            q, Plain, Plain) :
     <<rootId, id>> \in Ids, n \in {"", "m"}, d \in {"", "n"},
     q \in {RefAndMore(r) : r \in InnerRefs} \cup {OnlyDynamicRef(r) : r \in InnerRefs}}

\* Something that is no schema, in the tree or where a pointer leads.
Broken ==
  {Document([Plain EXCEPT !.id = rootId], Plain, q, OnlyRef(Pointer(<<>>, Extra)), extra) :
     rootId \in RootIds, q \in {Plain, Malformed}, extra \in {Plain, BoolSchema, Malformed}}

\* A tree whose members are trees: the pointer is the key of the definition
\* where the root has no $id, and is followed anew in every pass where it has one.
Recursive ==
  {Document([Plain EXCEPT !.id = rootId], [Plain EXCEPT !.id = id], RefAndMore(r), OnlyRef(Pointer(<<>>, X)), Plain) :
     <<rootId, id>> \in Ids, r \in {Pointer(<<>>, X), Pointer(<<>>, <<>>), Pointer(<<>>, Q)}}

MCDocs == {d \in Outside : ~PointsInside(d)} \cup Inside \cup Broken \cup Recursive
=============================================================================
