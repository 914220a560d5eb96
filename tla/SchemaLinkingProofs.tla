-------------------------- MODULE SchemaLinkingProofs --------------------------
(***************************************************************************)
(* Proofs about SchemaLinking, for any schema document and any number of   *)
(* passes: the node indices that compilation stores are those of nodes     *)
(* (IInv); every schema is compiled under the base URI of its place        *)
(* (BaseInv); and each dynamic anchor belongs to the resource that it is   *)
(* written in (ScopeInv, and Built for the map at the end).                *)
(***************************************************************************)
EXTENDS SchemaLinking, IntervalInduction, SequenceTheorems, WellFoundedInduction, TLAPS

-----------------------------------------------------------------------------
(* The inductive invariant, in parts that depend on the number of nodes L *)

NodeOK(node, n, L) ==
  /\ node.target \in 0..L
  /\ node.self \in 0..L
  /\ \A k \in 1..Len(node.children) : node.children[k] \in 1..n - 1
NodesOK(ns) == ns \in Seq(NodeType) /\ \A n \in 1..Len(ns) : NodeOK(ns[n], n, Len(ns))

MapOK(m, L) == \A key \in DOMAIN m : m[key] \in 1..L
PendingOK(ps, L) == ps \in Seq(PendingType) /\ \A k \in 1..Len(ps) : ps[k].node \in 1..L

FrameOK(f, L) ==
  /\ f.loc \in DOMAIN doc
  /\ \A k \in 1..Len(f.defs) : f.loc \o f.defs[k] \in DOMAIN doc
  /\ \A k \in 1..Len(f.keywords) : f.loc \o f.keywords[k] \in DOMAIN doc
  /\ \A k \in 1..Len(f.children) : f.children[k] \in 1..L
StackOK(st, L) == st \in Seq(FrameType) /\ \A k \in 1..Len(st) : FrameOK(st[k], L)

ResourcesOK == \A uri \in DOMAIN resources : uri \in Uri /\ resources[uri] \in DOMAIN doc

\* The variables of the loops, and what each phase knows of them.
LoopOK ==
  /\ start \in Nat /\ end \in Nat /\ i \in Nat /\ pass \in Nat /\ rootIndex \in Nat
  /\ via \in [uri : Uri, saved : Uri]
  /\ pc \in Phases
  /\ pc \in {"pass", "resolve", "compile", "linked", "scopes", "done"} => rootIndex \in 1..Len(nodes)
  /\ pc \in {"resolve", "compile"} => i >= 1 /\ end =< Len(nodes)
  /\ pc = "compile" => i =< end

ResultOK ==
  /\ result \in -1..Len(nodes)
  /\ Compiling /\ stack = <<>> => result # Nothing

IInv ==
  /\ doc \in Docs
  /\ NodesOK(nodes)
  /\ MapOK(anchors, Len(nodes))
  /\ MapOK(scopes, Len(nodes))
  /\ PendingOK(pending, Len(nodes))
  /\ StackOK(stack, Len(nodes))
  /\ ResourcesOK
  /\ LoopOK
  /\ ResultOK
  /\ baseUri \in Uri

-----------------------------------------------------------------------------
(* Values *)

\* A URI reference resolves to a URI.
LEMMA ResolveType ==
  ASSUME NEW uri \in Uri, NEW base \in Uri
  PROVE  Resolve(uri, base) \in Uri
<1>1. CASE base # <<>>
  <2>1. Front(base) \in Seq(STRING) /\ Head(base) \in STRING
    BY <1>1 DEF Front, Uri
  <2>2. Front(base) \o uri \in Uri
    BY <2>1 DEF Uri
  <2>3. CASE uri # <<>>
    <3>1. <<Head(base)>> \o Tail(uri) \in Uri
      BY <2>1, <2>3 DEF Uri
    <3> QED BY <2>2, <3>1 DEF Resolve
  <2>4. CASE uri = <<>>
    BY <2>2, <2>4 DEF Resolve
  <2> QED BY <2>3, <2>4
<1>2. CASE base = <<>>
  BY <1>2 DEF Resolve
<1> QED BY <1>1, <1>2

LEMMA QualifiedType ==
  ASSUME NEW ref \in RefType, NEW base \in Uri
  PROVE  Qualified(ref, base) \in RefType
BY DEF Qualified, RefType

\* Storing one more index in a table.
LEMMA PutOK ==
  ASSUME NEW L \in Nat, NEW m, MapOK(m, L), NEW key, NEW x \in 1..L
  PROVE  MapOK(Put(m, key, x), L)
BY DEF MapOK, Put

LEMMA PutAllOK ==
  ASSUME NEW L \in Nat, NEW m, MapOK(m, L), NEW K, NEW x \in 1..L
  PROVE  MapOK(PutAll(m, K, x), L)
BY DEF MapOK, PutAll

\* What holds of a number of nodes holds of a larger one.
LEMMA MoreNodes ==
  ASSUME NEW L \in Nat, NEW M \in Nat, L =< M
  PROVE  /\ \A m : MapOK(m, L) => MapOK(m, M)
         /\ \A ps : PendingOK(ps, L) => PendingOK(ps, M)
         /\ \A f : FrameOK(f, L) => FrameOK(f, M)
         /\ \A st : StackOK(st, L) => StackOK(st, M)
<1>1. \A m : MapOK(m, L) => MapOK(m, M)
  BY DEF MapOK
<1>2. \A ps : PendingOK(ps, L) => PendingOK(ps, M)
  BY DEF PendingOK
<1>3. \A f : FrameOK(f, L) => FrameOK(f, M)
  BY DEF FrameOK
<1>4. \A st : StackOK(st, L) => StackOK(st, M)
  BY <1>3 DEF StackOK
<1> QED BY <1>1, <1>2, <1>3, <1>4

\* A new node at the end.
LEMMA AppendOK ==
  ASSUME NEW ns, NodesOK(ns), NEW node \in NodeType, NodeOK(node, Len(ns) + 1, Len(ns) + 1)
  PROVE  /\ NodesOK(Append(ns, node))
         /\ Len(Append(ns, node)) = Len(ns) + 1
<1>1. ns \in Seq(NodeType) /\ Len(ns) \in Nat
  BY DEF NodesOK
<1>2. /\ Append(ns, node) \in Seq(NodeType)
      /\ Len(Append(ns, node)) = Len(ns) + 1
      /\ \A n \in 1..Len(ns) : Append(ns, node)[n] = ns[n]
      /\ Append(ns, node)[Len(ns) + 1] = node
  BY <1>1
<1>3. ASSUME NEW n \in 1..Len(ns) + 1
      PROVE  NodeOK(Append(ns, node)[n], n, Len(ns) + 1)
  <2>1. CASE n = Len(ns) + 1
    BY <1>2, <2>1
  <2>2. CASE n \in 1..Len(ns)
    <3>1. NodeOK(ns[n], n, Len(ns))
      BY <2>2 DEF NodesOK
    <3> QED BY <1>1, <1>2, <2>2, <3>1 DEF NodeOK
  <2> QED BY <1>1, <2>1, <2>2
<1> QED BY <1>2, <1>3 DEF NodesOK

\* A link to a node, or to none.
LEMMA TargetOK ==
  ASSUME NEW ns, NodesOK(ns), NEW n \in 1..Len(ns), NEW t \in 0..Len(ns)
  PROVE  /\ NodesOK([ns EXCEPT ![n].target = t])
         /\ Len([ns EXCEPT ![n].target = t]) = Len(ns)
<1> DEFINE node == [ns[n] EXCEPT !.target = t]
<1>1. ns \in Seq(NodeType) /\ ns[n] \in NodeType /\ NodeOK(ns[n], n, Len(ns)) /\ t \in Nat
  BY DEF NodesOK
<1>2. node \in NodeType /\ NodeOK(node, n, Len(ns))
  <2>1. node \in NodeType
    BY <1>1 DEF NodeType
  <2>2. node.target = t /\ node.self = ns[n].self /\ node.children = ns[n].children
    BY <1>1 DEF NodeType
  <2> HIDE DEF node
  <2> QED BY <1>1, <2>1, <2>2 DEF NodeOK
<1>3. [ns EXCEPT ![n].target = t] = [ns EXCEPT ![n] = node]
  OBVIOUS
<1> HIDE DEF node
<1>4. /\ [ns EXCEPT ![n] = node] \in Seq(NodeType)
      /\ Len([ns EXCEPT ![n] = node]) = Len(ns)
      /\ \A k \in 1..Len(ns) : [ns EXCEPT ![n] = node][k] = IF k = n THEN node ELSE ns[k]
  BY <1>1, <1>2
<1> QED BY <1>2, <1>3, <1>4 DEF NodesOK

LEMMA SelfOK ==
  ASSUME NEW ns, NodesOK(ns), NEW n \in 1..Len(ns), NEW t \in 0..Len(ns)
  PROVE  /\ NodesOK([ns EXCEPT ![n].self = t])
         /\ Len([ns EXCEPT ![n].self = t]) = Len(ns)
<1> DEFINE node == [ns[n] EXCEPT !.self = t]
<1>1. ns \in Seq(NodeType) /\ ns[n] \in NodeType /\ NodeOK(ns[n], n, Len(ns)) /\ t \in Nat
  BY DEF NodesOK
<1>2. node \in NodeType /\ NodeOK(node, n, Len(ns))
  <2>1. node \in NodeType
    BY <1>1 DEF NodeType
  <2>2. node.self = t /\ node.target = ns[n].target /\ node.children = ns[n].children
    BY <1>1 DEF NodeType
  <2> HIDE DEF node
  <2> QED BY <1>1, <2>1, <2>2 DEF NodeOK
<1>3. [ns EXCEPT ![n].self = t] = [ns EXCEPT ![n] = node]
  OBVIOUS
<1> HIDE DEF node
<1>4. /\ [ns EXCEPT ![n] = node] \in Seq(NodeType)
      /\ Len([ns EXCEPT ![n] = node]) = Len(ns)
      /\ \A k \in 1..Len(ns) : [ns EXCEPT ![n] = node][k] = IF k = n THEN node ELSE ns[k]
  BY <1>1, <1>2
<1> QED BY <1>2, <1>3, <1>4 DEF NodesOK

-----------------------------------------------------------------------------
(* The least and the greatest of a set of indices *)

Below == {pair \in Nat \X Nat : pair[1] < pair[2]}

LEMMA BelowWellFounded == IsWellFoundedOn(Below, Nat)
BY NatLessThanWellFounded DEF OpToRel, Below

LEMMA NotBelow ==
  ASSUME NEW a \in Nat, NEW b \in Nat, <<a, b>> \notin Below
  PROVE  b =< a
<1>1. SUFFICES ASSUME a < b PROVE FALSE
  OBVIOUS
<1>2. <<a, b>> \in Nat \X Nat /\ <<a, b>>[1] < <<a, b>>[2]
  BY <1>1
<1> QED BY <1>2, Zenon DEF Below

LEMMA MinIn ==
  ASSUME NEW S \in SUBSET Nat, S # {}
  PROVE  Min(S) \in S
<1>1. PICK x \in S : \A y \in S : <<y, x>> \notin Below
  BY BelowWellFounded, WFMin
<1>2. \A y \in S : x =< y
  BY <1>1, NotBelow
<1> QED BY <1>2 DEF Min

LEMMA MaxIn ==
  ASSUME NEW n \in Nat, NEW S \in SUBSET (1..n), S # {}
  PROVE  Max(S) \in S
<1> DEFINE T == {n - k : k \in S}
<1>1. T \subseteq Nat /\ T # {}
  <2>1. \A k \in S : n - k \in Nat
    OBVIOUS
  <2> QED BY <2>1
<1>2. PICK x \in T : \A y \in T : <<y, x>> \notin Below
  BY <1>1, BelowWellFounded, WFMin
<1>3. PICK k \in S : x = n - k
  OBVIOUS
<1>4. ASSUME NEW y \in S
      PROVE  k >= y
  <2>1. n - y \in T /\ x \in Nat /\ n - y \in Nat
    BY <1>1
  <2>2. x =< n - y
    BY <1>2, <2>1, NotBelow
  <2> QED BY <1>3, <2>2
<1> QED BY <1>4 DEF Max

-----------------------------------------------------------------------------
(* The stack of calls *)

\* What is known of the call that runs.
LEMMA TopOK ==
  ASSUME IInv, stack # <<>>
  PROVE  /\ Len(stack) \in 1..Len(stack)
         /\ Top \in FrameType
         /\ FrameOK(Top, Len(nodes))
         /\ Schema \in SchemaType
         /\ Top.loc \in Path
<1>1. stack \in Seq(FrameType) /\ \A k \in 1..Len(stack) : FrameOK(stack[k], Len(nodes))
  BY DEF IInv, StackOK
<1>2. Len(stack) \in 1..Len(stack)
  BY <1>1
<1>3. Top \in FrameType /\ FrameOK(Top, Len(nodes))
  BY <1>1, <1>2 DEF Top
<1>4. doc \in Docs /\ Top.loc \in DOMAIN doc
  BY <1>3 DEF IInv, FrameOK
<1> QED BY <1>2, <1>3, <1>4, DocsAssumption DEF Schema

\* The running call is changed.
LEMMA SetTopOK ==
  ASSUME NEW L \in Nat, NEW st, StackOK(st, L), st # <<>>, NEW f \in FrameType, FrameOK(f, L)
  PROVE  StackOK([st EXCEPT ![Len(st)] = f], L) /\ [st EXCEPT ![Len(st)] = f] # <<>>
<1>1. st \in Seq(FrameType) /\ Len(st) \in 1..Len(st)
  BY DEF StackOK
<1>2. /\ [st EXCEPT ![Len(st)] = f] \in Seq(FrameType)
      /\ Len([st EXCEPT ![Len(st)] = f]) = Len(st)
      /\ \A k \in 1..Len(st) : [st EXCEPT ![Len(st)] = f][k] = IF k = Len(st) THEN f ELSE st[k]
  BY <1>1
<1>3. [st EXCEPT ![Len(st)] = f] # <<>>
  BY <1>1, <1>2
<1>4. \A k \in 1..Len(st) : FrameOK(st[k], L)
  BY DEF StackOK
<1> QED BY <1>1, <1>2, <1>3, <1>4 DEF StackOK

\* It returns.
LEMMA FrontOK ==
  ASSUME NEW L \in Nat, NEW st, StackOK(st, L), st # <<>>
  PROVE  StackOK(Front(st), L)
<1>1. st \in Seq(FrameType) /\ Len(st) \in 1..Len(st)
  BY DEF StackOK
<1>2. /\ Front(st) \in Seq(FrameType)
      /\ Len(Front(st)) = Len(st) - 1
      /\ \A k \in 1..Len(st) - 1 : Front(st)[k] = st[k]
  <2> DEFINE n == Len(st) - 1
  <2>1. n \in Nat /\ n - 1 + 1 = n /\ \A k \in 1..n : st[k] \in FrameType
    BY <1>1
  <2>2. Front(st) = SubSeq(st, 1, n)
    BY DEF Front
  <2> HIDE DEF n
  <2>3. /\ SubSeq(st, 1, n) \in Seq(FrameType)
        /\ Len(SubSeq(st, 1, n)) = IF 1 <= n THEN n - 1 + 1 ELSE 0
        /\ \A k \in 1..n - 1 + 1 : SubSeq(st, 1, n)[k] = st[1 + k - 1]
    BY <2>1, SubSeqProperties
  <2>4. \A k \in 1..n : SubSeq(st, 1, n)[k] = st[k]
    BY <2>1, <2>3
  <2>5. Len(SubSeq(st, 1, n)) = n
    BY <2>1, <2>3
  <2> QED BY <2>2, <2>3, <2>4, <2>5 DEF n
<1> QED BY <1>1, <1>2 DEF StackOK

\* It calls compileSchemaNode.
LEMMA NewFrameOK ==
  ASSUME IInv, NEW loc \in DOMAIN doc, NEW L \in Nat
  PROVE  Frame(loc) \in FrameType /\ FrameOK(Frame(loc), L)
<1>1. loc \in Path
  BY DocsAssumption DEF IInv
<1>2. Frame(loc) \in FrameType
  BY <1>1 DEF Frame, FrameType, IInv
<1>3. FrameOK(Frame(loc), L)
  BY DEF Frame, FrameOK
<1> QED BY <1>2, <1>3

LEMMA CallOK ==
  ASSUME NEW L \in Nat, NEW st, StackOK(st, L), NEW f \in FrameType, FrameOK(f, L)
  PROVE  StackOK(Append(st, f), L) /\ Append(st, f) # <<>>
<1>1. st \in Seq(FrameType)
  BY DEF StackOK
<1>2. /\ Append(st, f) \in Seq(FrameType)
      /\ Len(Append(st, f)) = Len(st) + 1
      /\ \A k \in 1..Len(st) : Append(st, f)[k] = st[k]
      /\ Append(st, f)[Len(st) + 1] = f
  BY <1>1
<1> QED BY <1>1, <1>2 DEF StackOK

\* The nodes that compilation makes.
LEMMA NewNodeType ==
  ASSUME IInv, stack # <<>>, NEW kind \in {"bool", "object", "ref", "dynamicRef"},
         NEW ref \in RefType, NEW children \in Seq(Nat), NEW self \in Nat
  PROVE  NewNode(kind, ref, children, self) \in NodeType
<1>1. Top.loc \in Path /\ baseUri \in Uri
  BY TopOK DEF IInv
<1> QED BY <1>1 DEF NewNode, NodeType, Unresolved

LEMMA RefNodeOK ==
  ASSUME IInv, stack # <<>>, NEW self \in Nat, NEW n, NEW L \in Nat, self =< L
  PROVE  /\ RefNode(self) \in NodeType /\ NodeOK(RefNode(self), n, L)
         /\ DynamicRefNode(self) \in NodeType /\ NodeOK(DynamicRefNode(self), n, L)
<1>1. Schema.ref \in RefType /\ Schema.dynamicRef \in RefType /\ baseUri \in Uri
  BY TopOK DEF IInv, SchemaType
<1>2. Qualified(Schema.ref, baseUri) \in RefType /\ Qualified(Schema.dynamicRef, baseUri) \in RefType
  BY <1>1, QualifiedType
<1>3. RefNode(self) \in NodeType /\ DynamicRefNode(self) \in NodeType
  <2>1. <<>> \in Seq(Nat) /\ "ref" \in {"bool", "object", "ref", "dynamicRef"}
        /\ "dynamicRef" \in {"bool", "object", "ref", "dynamicRef"}
    OBVIOUS
  <2> QED BY <1>2, <2>1, NewNodeType, Zenon DEF RefNode, DynamicRefNode
<1>4. NodeOK(RefNode(self), n, L) /\ NodeOK(DynamicRefNode(self), n, L)
  BY DEF RefNode, DynamicRefNode, NewNode, NodeOK, Unresolved
<1> QED BY <1>3, <1>4

-----------------------------------------------------------------------------
(* The steps of compileSchemaNode *)

\* A step of compilation leaves the loops of linking alone: what remains to be
\* shown of it.
LEMMA CompileStep ==
  ASSUME IInv, UNCHANGED <<doc, pc, linkVars>>,
         NodesOK(nodes'), Len(nodes) =< Len(nodes'),
         MapOK(anchors', Len(nodes')), PendingOK(pending', Len(nodes')), StackOK(stack', Len(nodes')),
         ResourcesOK', baseUri' \in Uri,
         result' \in -1..Len(nodes'), stack' = <<>> => result' # Nothing
  PROVE  IInv'
<1>1. Len(nodes) \in Nat /\ Len(nodes') \in Nat
  BY DEF IInv, NodesOK
<1>2. MapOK(scopes, Len(nodes))' /\ doc' \in Docs
  <2>1. scopes' = scopes /\ MapOK(scopes, Len(nodes)) /\ doc \in Docs /\ doc' = doc
    BY DEF IInv, linkVars
  <2>2. MapOK(scopes, Len(nodes'))
    BY <1>1, <2>1, MoreNodes
  <2> QED BY <2>1, <2>2
<1>3. StackOK(stack, Len(nodes))'
  BY DEF StackOK, FrameOK
<1>4. LoopOK'
  BY <1>1 DEF IInv, LoopOK, linkVars
<1>5. ResultOK'
  BY DEF ResultOK
<1> QED BY <1>2, <1>3, <1>4, <1>5 DEF IInv

\* The tables, the stack and the registered anchors after a step that keeps them.
LEMMA Kept ==
  ASSUME IInv, NEW M \in Nat, Len(nodes) =< M
  PROVE  /\ MapOK(anchors, M)
         /\ PendingOK(pending, M)
         /\ StackOK(stack, M)
         /\ Len(nodes) \in Nat
<1>1. Len(nodes) \in Nat
  BY DEF IInv, NodesOK
<1>2. MapOK(anchors, Len(nodes)) /\ PendingOK(pending, Len(nodes)) /\ StackOK(stack, Len(nodes))
  BY DEF IInv
<1> QED BY <1>1, <1>2, MoreNodes

LEMMA ResourcesKept ==
  ASSUME IInv, UNCHANGED <<doc, resources>>
  PROVE  ResourcesOK'
BY DEF IInv, ResourcesOK

LEMMA ReturnOK ==
  ASSUME IInv, stack # <<>>, NEW r, Return(r), NEW M \in Nat, Len(nodes) =< M
  PROVE  StackOK(stack', M) /\ baseUri' \in Uri /\ result' = r
<1>1. StackOK(stack', M)
  BY Kept, FrontOK DEF Return
<1>2. Top.outer \in Uri
  BY TopOK DEF FrameType
<1> QED BY <1>1, <1>2 DEF Return

LEMMA CompileLeafOK ==
  ASSUME IInv, CompileLeaf
  PROVE  IInv'
<1>1. stack # <<>> /\ UNCHANGED <<doc, pc, anchors, resources, pending, linkVars>> /\ ResourcesOK'
  BY ResourcesKept DEF CompileLeaf, Running
<1>2. NodesOK(nodes) /\ Len(nodes) \in Nat
  BY DEF IInv, NodesOK
<1>3. CASE Schema.kind = "bool"
  <2> DEFINE node == NewNode("bool", NoRef, <<>>, 0)
  <2>1. nodes' = Append(nodes, node) /\ Return(Len(nodes) + 1)
    BY <1>3 DEF CompileLeaf
  <2>2. node \in NodeType
    <3>1. NoRef \in RefType /\ <<>> \in Seq(Nat) /\ "bool" \in {"bool", "object", "ref", "dynamicRef"} /\ 0 \in Nat
      BY DEF NoRef, Reference, RefType, Uri, Path
    <3> QED BY <1>1, <3>1, NewNodeType, Zenon
  <2>3. NodeOK(node, Len(nodes) + 1, Len(nodes) + 1)
    BY <1>2 DEF NewNode, NodeOK, Unresolved
  <2> HIDE DEF node
  <2>4. NodesOK(nodes') /\ Len(nodes') = Len(nodes) + 1
    BY <1>2, <2>1, <2>2, <2>3, AppendOK
  <2>5. StackOK(stack', Len(nodes')) /\ baseUri' \in Uri /\ result' = Len(nodes')
    BY <1>1, <1>2, <2>1, <2>4, ReturnOK
  <2>6. MapOK(anchors', Len(nodes')) /\ PendingOK(pending', Len(nodes'))
    BY <1>1, <1>2, <2>4, Kept
  <2> QED BY <1>1, <1>2, <2>4, <2>5, <2>6, CompileStep DEF Nothing
<1>4. CASE Schema.kind # "bool"
  <2>1. nodes' = nodes /\ Return(Failed)
    BY <1>4 DEF CompileLeaf
  <2>2. StackOK(stack', Len(nodes')) /\ baseUri' \in Uri /\ result' = -1
    BY <1>1, <1>2, <2>1, ReturnOK DEF Failed
  <2>3. MapOK(anchors', Len(nodes')) /\ PendingOK(pending', Len(nodes'))
    BY <1>1, <1>2, <2>1, Kept
  <2> QED BY <1>1, <1>2, <2>1, <2>2, <2>3, CompileStep DEF Nothing
<1> QED BY <1>3, <1>4

LEMMA PropagateOK ==
  ASSUME IInv, Propagate
  PROVE  IInv'
<1>1. /\ stack # <<>> /\ Return(-1)
      /\ UNCHANGED <<doc, pc, nodes, anchors, resources, pending, linkVars>> /\ ResourcesOK'
  BY ResourcesKept DEF Propagate, Failed
<1>2. NodesOK(nodes) /\ Len(nodes) \in Nat
  BY DEF IInv, NodesOK
<1>3. StackOK(stack', Len(nodes')) /\ baseUri' \in Uri /\ result' = -1
  BY <1>1, <1>2, ReturnOK
<1>4. MapOK(anchors', Len(nodes')) /\ PendingOK(pending', Len(nodes'))
  BY <1>1, <1>2, Kept
<1> QED BY <1>1, <1>2, <1>3, <1>4, CompileStep DEF Nothing

LEMMA OpenOK ==
  ASSUME IInv, Open
  PROVE  IInv'
<1> DEFINE f == [Top EXCEPT !.open = TRUE, !.defs = Schema.defs, !.keywords = Schema.keywords]
<1>1. /\ stack # <<>> /\ SetTop(f) /\ UNCHANGED <<doc, pc, result, nodes, anchors, pending, linkVars>>
  BY DEF Open, Running
<1>2. /\ Top \in FrameType /\ FrameOK(Top, Len(nodes)) /\ Schema \in SchemaType /\ Len(nodes) \in Nat
      /\ Top.loc \in DOMAIN doc /\ doc \in Docs /\ StackOK(stack, Len(nodes)) /\ baseUri \in Uri
  BY <1>1, TopOK, Kept DEF FrameOK, IInv
<1>3. f \in FrameType
  BY <1>2 DEF FrameType, SchemaType
<1>4. FrameOK(f, Len(nodes))
  <2>1. /\ f.loc = Top.loc /\ f.defs = Schema.defs /\ f.keywords = Schema.keywords
        /\ f.children = Top.children
    BY <1>2 DEF FrameType
  <2>2. /\ \A k \in 1..Len(Schema.defs) : Top.loc \o Schema.defs[k] \in DOMAIN doc
        /\ \A k \in 1..Len(Schema.keywords) : Top.loc \o Schema.keywords[k] \in DOMAIN doc
    BY <1>2, DocsAssumption DEF Schema
  <2>3. \A k \in 1..Len(Top.children) : Top.children[k] \in 1..Len(nodes)
    BY <1>2 DEF FrameOK
  <2> HIDE DEF f
  <2> QED BY <1>2, <2>1, <2>2, <2>3 DEF FrameOK
<1> HIDE DEF f
<1>5. StackOK(stack', Len(nodes')) /\ stack' # <<>>
  BY <1>1, <1>2, <1>3, <1>4, SetTopOK DEF SetTop
<1>6. baseUri' \in Uri /\ ResourcesOK'
  <2>1. CASE Schema.id = <<>>
    <3>1. baseUri' = baseUri /\ resources' = resources
      BY <2>1 DEF Open
    <3> QED BY <1>1, <1>2, <3>1, ResourcesKept
  <2>2. CASE Schema.id # <<>>
    <3> DEFINE uri == Resolve(Schema.id, baseUri)
    <3>1. baseUri' = uri /\ resources' = Put(resources, uri, Top.loc)
      BY <2>2 DEF Open
    <3>2. uri \in Uri
      BY <1>2, ResolveType DEF SchemaType
    <3> HIDE DEF uri
    <3>3. ResourcesOK' 
      BY <1>1, <1>2, <3>1, <3>2 DEF IInv, ResourcesOK, Put
    <3> QED BY <3>1, <3>2, <3>3
  <2> QED BY <2>1, <2>2
<1>7. NodesOK(nodes') /\ result' \in -1..Len(nodes')
  BY <1>1 DEF IInv, ResultOK
<1>8. MapOK(anchors', Len(nodes')) /\ PendingOK(pending', Len(nodes'))
  BY <1>1, <1>2, Kept
<1> QED BY <1>1, <1>2, <1>5, <1>6, <1>7, <1>8, CompileStep

\* A call for one of the subschemas that are left.
LEMMA SubcallOK ==
  ASSUME IInv, stack # <<>>, NEW loc \in DOMAIN doc, Calls(loc),
         UNCHANGED <<doc, pc, result, baseUri, nodes, anchors, resources, pending, linkVars>>
  PROVE  IInv'
<1>1. NodesOK(nodes) /\ Len(nodes) \in Nat /\ baseUri \in Uri /\ result \in -1..Len(nodes)
      /\ StackOK(stack, Len(nodes))
  BY Kept DEF IInv, ResultOK
<1>2. StackOK(stack', Len(nodes')) /\ stack' # <<>>
  BY <1>1, NewFrameOK, CallOK DEF Calls
<1>3. MapOK(anchors', Len(nodes')) /\ PendingOK(pending', Len(nodes'))
  BY <1>1, Kept
<1> QED BY <1>1, <1>2, <1>3, ResourcesKept, CompileStep

\* The first of a nonempty sequence of locations, and the rest.
LEMMA FirstAndRest ==
  ASSUME NEW S, NEW q \in Seq(S), q # <<>>
  PROVE  /\ 1 \in 1..Len(q) /\ Head(q) = q[1]
         /\ Tail(q) \in Seq(S) /\ \A k \in 1..Len(Tail(q)) : k + 1 \in 1..Len(q) /\ Tail(q)[k] = q[k + 1]
OBVIOUS

LEMMA CallDefinitionOK ==
  ASSUME IInv, CallDefinition
  PROVE  IInv'
<1>1. stack # <<>> /\ Top.defs # <<>>
  BY DEF CallDefinition, InDefinitions, Running
<1>2. Top.defs \in Seq(Path) /\ FrameOK(Top, Len(nodes))
  BY <1>1, TopOK DEF FrameType
<1>3. Top.loc \o Head(Top.defs) \in DOMAIN doc
  BY <1>1, <1>2, FirstAndRest DEF FrameOK
<1> QED BY <1>1, <1>3, SubcallOK DEF CallDefinition

LEMMA CallKeywordOK ==
  ASSUME IInv, CallKeyword
  PROVE  IInv'
<1>1. stack # <<>> /\ Top.keywords # <<>>
  BY DEF CallKeyword, AfterDefinitions, Running
<1>2. Top.keywords \in Seq(Path) /\ FrameOK(Top, Len(nodes))
  BY <1>1, TopOK DEF FrameType
<1>3. Top.loc \o Head(Top.keywords) \in DOMAIN doc
  BY <1>1, <1>2, FirstAndRest DEF FrameOK
<1> QED BY <1>1, <1>3, SubcallOK DEF CallKeyword

LEMMA EndDefinitionOK ==
  ASSUME IInv, EndDefinition
  PROVE  IInv'
<1> DEFINE f == [Top EXCEPT !.defs = Tail(@)]
<1>1. /\ stack # <<>> /\ Top.defs # <<>> /\ result > 0 /\ result' = 0 /\ SetTop(f)
      /\ UNCHANGED <<doc, pc, baseUri, nodes, resources, pending, linkVars>> /\ ResourcesOK'
      /\ anchors' = Put(anchors, Reference(<<>>, "pointer", Head(Top.defs)), result)
  BY ResourcesKept DEF EndDefinition, Nothing
<1>2. /\ NodesOK(nodes) /\ Len(nodes) \in Nat /\ baseUri \in Uri /\ result \in 1..Len(nodes)
      /\ StackOK(stack, Len(nodes)) /\ MapOK(anchors, Len(nodes)) /\ PendingOK(pending, Len(nodes))
  BY <1>1, Kept DEF IInv, ResultOK
<1>3. Top \in FrameType /\ FrameOK(Top, Len(nodes)) /\ Top.defs \in Seq(Path)
  BY <1>1, TopOK DEF FrameType
<1>4. f \in FrameType /\ FrameOK(f, Len(nodes))
  <2>1. /\ Tail(Top.defs) \in Seq(Path)
        /\ \A k \in 1..Len(Tail(Top.defs)) : Top.loc \o Tail(Top.defs)[k] \in DOMAIN doc
    BY <1>1, <1>3, FirstAndRest DEF FrameOK
  <2>2. f \in FrameType
    BY <1>3, <2>1 DEF FrameType
  <2>3. /\ f.loc = Top.loc /\ f.defs = Tail(Top.defs) /\ f.keywords = Top.keywords
        /\ f.children = Top.children
    BY <1>3 DEF FrameType
  <2> HIDE DEF f
  <2> QED BY <1>3, <2>1, <2>2, <2>3 DEF FrameOK
<1> HIDE DEF f
<1>5. StackOK(stack', Len(nodes')) /\ stack' # <<>>
  BY <1>1, <1>2, <1>4, SetTopOK DEF SetTop
<1>6. MapOK(anchors', Len(nodes'))
  BY <1>1, <1>2, PutOK
<1> QED BY <1>1, <1>2, <1>5, <1>6, CompileStep

LEMMA EndKeywordOK ==
  ASSUME IInv, EndKeyword
  PROVE  IInv'
<1> DEFINE f == [Top EXCEPT !.keywords = Tail(@), !.children = Append(@, result)]
<1>1. /\ stack # <<>> /\ result > 0 /\ result' = 0 /\ SetTop(f) 
      /\ UNCHANGED <<doc, pc, baseUri, nodes, anchors, resources, pending, linkVars>> /\ ResourcesOK'
  BY ResourcesKept DEF EndKeyword, Nothing
<1>2. /\ NodesOK(nodes) /\ Len(nodes) \in Nat /\ baseUri \in Uri /\ result \in 1..Len(nodes)
      /\ StackOK(stack, Len(nodes)) /\ MapOK(anchors, Len(nodes)) /\ PendingOK(pending, Len(nodes))
  BY <1>1, Kept DEF IInv, ResultOK
<1>3. /\ Top \in FrameType /\ FrameOK(Top, Len(nodes))
      /\ Top.keywords \in Seq(Path) /\ Top.children \in Seq(Nat) /\ Top.keywords # <<>>
  BY <1>1, TopOK DEF FrameType, EndKeyword
<1>4. f \in FrameType /\ FrameOK(f, Len(nodes))
  <2>1. /\ Tail(Top.keywords) \in Seq(Path)
        /\ \A k \in 1..Len(Tail(Top.keywords)) : Top.loc \o Tail(Top.keywords)[k] \in DOMAIN doc
    BY <1>3, FirstAndRest DEF FrameOK
  <2>2. /\ Append(Top.children, result) \in Seq(Nat)
        /\ \A k \in 1..Len(Append(Top.children, result)) : Append(Top.children, result)[k] \in 1..Len(nodes)
    BY <1>2, <1>3 DEF FrameOK
  <2>3. f \in FrameType
    BY <1>3, <2>1, <2>2 DEF FrameType
  <2>4. /\ f.loc = Top.loc /\ f.defs = Top.defs /\ f.keywords = Tail(Top.keywords)
        /\ f.children = Append(Top.children, result)
    BY <1>3 DEF FrameType
  <2> HIDE DEF f
  <2> QED BY <1>3, <2>1, <2>2, <2>3, <2>4 DEF FrameOK
<1> HIDE DEF f
<1>5. StackOK(stack', Len(nodes')) /\ stack' # <<>>
  BY <1>1, <1>2, <1>4, SetTopOK DEF SetTop
<1> QED BY <1>1, <1>2, <1>5, CompileStep

LEMMA CompileOnlyRefOK ==
  ASSUME IInv, CompileOnlyRef
  PROVE  IInv'
<1> DEFINE n == Len(nodes) + 1
           node == IF HasRef THEN RefNode(n) ELSE DynamicRefNode(n)
<1>1. /\ stack # <<>> /\ nodes' = Append(nodes, node) /\ anchors' = PutAll(anchors, IdKeys, n) /\ Return(n)
      /\ UNCHANGED <<doc, pc, resources, pending, linkVars>> /\ ResourcesOK'
  BY ResourcesKept DEF CompileOnlyRef, AfterDefinitions, Running
<1>2. NodesOK(nodes) /\ Len(nodes) \in Nat
  BY DEF IInv, NodesOK
<1>3. node \in NodeType /\ NodeOK(node, n, n)
  BY <1>1, <1>2, RefNodeOK
<1> HIDE DEF node
<1>4. NodesOK(nodes') /\ Len(nodes') = n
  BY <1>1, <1>2, <1>3, AppendOK
<1>5. StackOK(stack', n) /\ baseUri' \in Uri /\ result' = n
  BY <1>1, <1>2, ReturnOK
<1>6. MapOK(anchors', n) /\ PendingOK(pending', n)
  <2>1. MapOK(anchors, n) /\ PendingOK(pending, n)
    BY <1>2, Kept
  <2> QED BY <1>1, <1>2, <2>1, PutAllOK
<1> QED BY <1>1, <1>2, <1>4, <1>5, <1>6, CompileStep DEF Nothing

LEMMA CompileObjectOK ==
  ASSUME IInv, CompileObject
  PROVE  IInv'
<1> DEFINE n == Len(nodes) + 1
           node == NewNode("object", NoRef, Top.children, n)
           entry == [uri |-> baseUri, name |-> Schema.dynamicAnchor, node |-> n]
<1>1. /\ stack # <<>> /\ nodes' = Append(nodes, node) /\ anchors' = PutAll(anchors, CompiledKeys, n) /\ Return(n)
      /\ pending' = IF Schema.dynamicAnchor = "" THEN pending ELSE Append(pending, entry)
      /\ UNCHANGED <<doc, pc, resources, linkVars>> /\ ResourcesOK'
  BY ResourcesKept DEF CompileObject, AfterDefinitions, Running
<1>2. NodesOK(nodes) /\ Len(nodes) \in Nat /\ baseUri \in Uri
  BY DEF IInv, NodesOK
<1>3. /\ Top.children \in Seq(Nat) /\ \A k \in 1..Len(Top.children) : Top.children[k] \in 1..Len(nodes)
      /\ Schema.dynamicAnchor \in STRING
  BY <1>1, TopOK DEF FrameType, FrameOK, SchemaType
<1>4. node \in NodeType
  <2>1. NoRef \in RefType /\ "object" \in {"bool", "object", "ref", "dynamicRef"} /\ n \in Nat
    BY <1>2 DEF NoRef, Reference, RefType, Uri, Path
  <2> QED BY <1>1, <1>3, <2>1, NewNodeType, Zenon
<1>5. NodeOK(node, n, n)
  BY <1>2, <1>3 DEF NewNode, NodeOK, Unresolved
<1>6. entry \in PendingType /\ entry.node = n
  BY <1>2, <1>3 DEF PendingType
<1> HIDE DEF node, entry
<1>7. NodesOK(nodes') /\ Len(nodes') = n
  BY <1>1, <1>2, <1>4, <1>5, AppendOK
<1>8. n \in Nat /\ n \in 1..n /\ Len(nodes) =< n
  BY <1>2
<1>9. stack # <<>> /\ Return(n)
  BY <1>1
<1> HIDE DEF n
<1>10. StackOK(stack', n) /\ baseUri' \in Uri /\ result' = n
  BY <1>8, <1>9, ReturnOK
<1>11. MapOK(anchors', n) /\ PendingOK(pending', n)
  <2>1. MapOK(anchors, n) /\ PendingOK(pending, n)
    BY <1>8, Kept
  <2>2. MapOK(PutAll(anchors, CompiledKeys, n), n)
    BY <1>8, <2>1, PutAllOK
  <2>3. PendingOK(Append(pending, entry), n)
    BY <1>8, <1>6, <2>1 DEF PendingOK
  <2> QED BY <1>1, <2>1, <2>2, <2>3
<1>12. /\ UNCHANGED <<doc, pc, linkVars>> /\ ResourcesOK'
       /\ NodesOK(nodes') /\ Len(nodes) =< Len(nodes')
       /\ MapOK(anchors', Len(nodes')) /\ PendingOK(pending', Len(nodes')) /\ StackOK(stack', Len(nodes'))
       /\ baseUri' \in Uri /\ result' \in -1..Len(nodes') /\ result' # Nothing
  <2>1. UNCHANGED <<doc, pc, linkVars>> /\ ResourcesOK'
    BY <1>1
  <2>2. Len(nodes) =< Len(nodes') /\ result' \in -1..Len(nodes') /\ result' # Nothing
    BY <1>8, <1>7, <1>10 DEF Nothing
  <2> QED BY <1>7, <1>10, <1>11, <2>1, <2>2
<1> QED BY <1>12, CompileStep

\* The references of one schema: at most two, added at once.
LEMMA AddRefsOK ==
  ASSUME IInv, AddRefs
  PROVE  IInv'
<1> DEFINE r == RefNode(0)
           d == DynamicRefNode(0)
           added == (IF HasRef THEN <<r>> ELSE <<>>) \o (IF HasDynamicRef THEN <<d>> ELSE <<>>)
           children == [k \in 1..Len(added) |-> Len(nodes) + k]
           f == [Top EXCEPT !.refsAdded = TRUE, !.children = children]
<1>1. /\ stack # <<>> /\ nodes' = nodes \o added /\ SetTop(f)
      /\ UNCHANGED <<doc, pc, result, baseUri, anchors, resources, pending, linkVars>> /\ ResourcesOK'
  BY ResourcesKept DEF AddRefs, AfterDefinitions, Running
<1>2. NodesOK(nodes) /\ nodes \in Seq(NodeType) /\ Len(nodes) \in Nat /\ baseUri \in Uri /\ result \in -1..Len(nodes)
  BY DEF IInv, NodesOK, ResultOK
<1>3. /\ r \in NodeType /\ \A n \in Nat, L \in Nat : NodeOK(r, n, L)
      /\ d \in NodeType /\ \A n \in Nat, L \in Nat : NodeOK(d, n, L)
  <2>1. ASSUME NEW n \in Nat, NEW L \in Nat
        PROVE  r \in NodeType /\ NodeOK(r, n, L) /\ d \in NodeType /\ NodeOK(d, n, L)
    <3>1. 0 \in Nat /\ 0 =< L
      OBVIOUS
    <3> QED BY <1>1, <3>1, RefNodeOK
  <2> QED BY <2>1
<1> HIDE DEF r, d
<1>4. /\ NodesOK(nodes \o added) /\ added \in Seq(NodeType) /\ Len(nodes \o added) = Len(nodes) + Len(added)
  <2> DEFINE front == IF HasRef THEN <<r>> ELSE <<>>
             back == IF HasDynamicRef THEN <<d>> ELSE <<>>
  <2>1. /\ front \in Seq({r, d}) /\ back \in Seq({r, d})
        /\ added = front \o back
    <3>1. <<>> \in Seq({r, d}) /\ <<r>> \in Seq({r, d}) /\ <<d>> \in Seq({r, d})
      OBVIOUS
    <3>2. added = front \o back
      OBVIOUS
    <3> HIDE DEF added
    <3> QED BY <3>1, <3>2
  <2> HIDE DEF front, back, added
  <2>2. added \in Seq(NodeType) /\ \A k \in 1..Len(added) : added[k] \in {r, d}
    <3>1. added \in Seq({r, d})
      BY <2>1
    <3>2. {r, d} \subseteq NodeType
      BY <1>3
    <3> QED BY <3>1, <3>2
  <2> HIDE DEF added
  <2>3. /\ nodes \o added \in Seq(NodeType)
        /\ Len(nodes \o added) = Len(nodes) + Len(added)
        /\ Len(added) \in Nat
        /\ \A k \in 1..Len(nodes) : (nodes \o added)[k] = nodes[k]
        /\ \A k \in Len(nodes) + 1..Len(nodes) + Len(added) : (nodes \o added)[k] = added[k - Len(nodes)]
    BY <1>2, <2>2
  <2>4. ASSUME NEW k \in 1..Len(nodes) + Len(added)
        PROVE  NodeOK((nodes \o added)[k], k, Len(nodes) + Len(added))
    <3>1. CASE k \in 1..Len(nodes)
      <4>1. NodeOK(nodes[k], k, Len(nodes))
        BY <3>1 DEF NodesOK, IInv
      <4> QED BY <1>2, <2>3, <3>1, <4>1 DEF NodeOK
    <3>2. CASE k \in Len(nodes) + 1..Len(nodes) + Len(added)
      <4>1. (nodes \o added)[k] \in {r, d}
        BY <1>2, <2>2, <2>3, <3>2
      <4>2. k \in Nat /\ Len(nodes) + Len(added) \in Nat
        BY <1>2, <2>3, <3>2
      <4> QED BY <1>3, <4>1, <4>2
    <3> QED BY <1>2, <2>3, <3>1, <3>2
  <2> QED BY <2>2, <2>3, <2>4 DEF NodesOK
<1> HIDE DEF added
<1>5. Len(added) \in Nat /\ Len(nodes') = Len(nodes) + Len(added)
  BY <1>1, <1>4
<1>6. children \in Seq(Nat) /\ Len(children) = Len(added) /\ \A k \in 1..Len(children) : children[k] \in 1..Len(nodes')
  BY <1>2, <1>5
<1> HIDE DEF children
<1>7. Top \in FrameType /\ FrameOK(Top, Len(nodes))
  BY <1>1, TopOK
<1>8. f \in FrameType /\ FrameOK(f, Len(nodes'))
  <2>1. f \in FrameType
    BY <1>6, <1>7 DEF FrameType
  <2>2. f.loc = Top.loc /\ f.defs = Top.defs /\ f.keywords = Top.keywords /\ f.children = children
    BY <1>7 DEF FrameType
  <2> HIDE DEF f
  <2> QED BY <1>6, <1>7, <2>1, <2>2 DEF FrameOK
<1> HIDE DEF f
<1>9. MapOK(anchors, Len(nodes')) /\ PendingOK(pending, Len(nodes')) /\ StackOK(stack, Len(nodes'))
  BY <1>2, <1>5, Kept
<1>10. StackOK(stack', Len(nodes')) /\ stack' # <<>>
  <2>1. Len(nodes') \in Nat
    BY <1>2, <1>5
  <2> QED BY <1>1, <2>1, <1>8, <1>9, SetTopOK DEF SetTop
<1> QED BY <1>1, <1>2, <1>4, <1>5, <1>9, <1>10, CompileStep

-----------------------------------------------------------------------------
(* The steps of linking *)

\* A step of linking leaves the calls and the tables alone: what remains to be
\* shown of it.
LEMMA LinkStep ==
  ASSUME IInv, UNCHANGED <<doc, stack, anchors, resources, pending, scopes>>,
         NodesOK(nodes'), Len(nodes') = Len(nodes), LoopOK', baseUri' \in Uri,
         result' \in -1..Len(nodes), ~Compiling'
  PROVE  IInv'
<1>1. MapOK(anchors', Len(nodes')) /\ MapOK(scopes', Len(nodes')) /\ PendingOK(pending', Len(nodes'))
  BY DEF IInv
<1>2. StackOK(stack, Len(nodes))' /\ ResourcesOK'
  BY DEF IInv, StackOK, FrameOK, ResourcesOK
<1>3. ResultOK' /\ doc' \in Docs
  BY DEF IInv, ResultOK
<1> QED BY <1>1, <1>2, <1>3 DEF IInv

LEMMA TreeCompiledOK ==
  ASSUME IInv, TreeCompiled
  PROVE  IInv'
<1>1. NodesOK(nodes) /\ Len(nodes) \in Nat /\ result \in -1..Len(nodes) /\ result # 0 /\ LoopOK /\ baseUri \in Uri
  BY DEF IInv, NodesOK, TreeCompiled, ResultOK, Compiling, Nothing
<1>2. LoopOK'
  <2>1. CASE result = Failed
    BY <1>1, <2>1 DEF TreeCompiled, LoopOK, Phases
  <2>2. CASE result # Failed
    BY <1>1, <2>2 DEF TreeCompiled, LoopOK, Phases, Failed
  <2> QED BY <2>1, <2>2
<1>3. /\ UNCHANGED <<doc, stack, anchors, resources, pending, scopes, nodes, baseUri>>
      /\ result' = 0 /\ ~Compiling'
  BY DEF TreeCompiled, Nothing, Compiling
<1>4. result' \in -1..Len(nodes)
  BY <1>1, <1>3
<1> QED BY <1>1, <1>2, <1>3, <1>4, LinkStep

LEMMA BeginPassOK ==
  ASSUME IInv, BeginPass
  PROVE  IInv'
<1>1. NodesOK(nodes) /\ Len(nodes) \in Nat /\ result \in -1..Len(nodes) /\ LoopOK /\ baseUri \in Uri
  BY DEF IInv, NodesOK, ResultOK
<1>2. LoopOK' /\ ~Compiling'
  BY <1>1 DEF BeginPass, LoopOK, Phases, Compiling
<1> QED BY <1>1, <1>2, LinkStep DEF BeginPass

LEMMA EndPassOK ==
  ASSUME IInv, EndPass
  PROVE  IInv'
<1>1. NodesOK(nodes) /\ Len(nodes) \in Nat /\ result \in -1..Len(nodes) /\ LoopOK /\ baseUri \in Uri
  BY DEF IInv, NodesOK, ResultOK
<1>2. LoopOK' /\ ~Compiling'
  BY <1>1 DEF EndPass, LoopOK, Phases, Compiling
<1> QED BY <1>1, <1>2, LinkStep DEF EndPass

LEMMA CheckPolicyOK ==
  ASSUME IInv, CheckPolicy
  PROVE  IInv'
<1>1. NodesOK(nodes) /\ Len(nodes) \in Nat /\ result \in -1..Len(nodes) /\ LoopOK /\ baseUri \in Uri
  BY DEF IInv, NodesOK, ResultOK
<1>2. pc' \in {"failed", "scopes"} /\ pc = "linked"
  BY DEF CheckPolicy
<1>3. LoopOK' /\ ~Compiling'
  BY <1>1, <1>2 DEF CheckPolicy, LoopOK, Phases, Compiling, linkVars
<1> QED BY <1>1, <1>3, LinkStep DEF CheckPolicy, linkVars

\* The node that a pass looks at.
LEMMA AtNodeOK ==
  ASSUME IInv, pc \in {"resolve", "compile"}, i =< end
  PROVE  /\ NodesOK(nodes) /\ Len(nodes) \in Nat
         /\ i \in 1..Len(nodes) /\ i \in Nat /\ end \in Nat /\ end =< Len(nodes)
         /\ Node \in NodeType
         /\ rootIndex \in 1..Len(nodes)
<1>1. /\ NodesOK(nodes) /\ Len(nodes) \in Nat /\ nodes \in Seq(NodeType)
      /\ i \in Nat /\ end \in Nat /\ i >= 1 /\ end =< Len(nodes) /\ rootIndex \in 1..Len(nodes)
  BY DEF IInv, NodesOK, LoopOK
<1> QED BY <1>1 DEF Node

LEMMA SkipOK ==
  ASSUME IInv, Skip
  PROVE  IInv'
<1>1. NodesOK(nodes) /\ Len(nodes) \in Nat /\ result \in -1..Len(nodes) /\ LoopOK /\ baseUri \in Uri
  BY DEF IInv, NodesOK, ResultOK
<1>2. LoopOK' /\ ~Compiling'
  BY <1>1 DEF Skip, AtNode, LoopOK, Compiling
<1> QED BY <1>1, <1>2, LinkStep DEF Skip

-----------------------------------------------------------------------------
(* Looking up the target of a reference *)

\* Whatever the keys, a node is found, or none.
LEMMA LookupOK ==
  ASSUME IInv, NEW S, NEW keys \in Seq(S)
  PROVE  Lookup(keys) \in 0..Len(nodes)
<1> DEFINE found == {k \in DOMAIN keys : keys[k] \in DOMAIN anchors}
<1>1. Len(nodes) \in Nat /\ MapOK(anchors, Len(nodes))
  BY DEF IInv, NodesOK
<1>2. found \in SUBSET Nat
  OBVIOUS
<1>3. CASE found = {}
  BY <1>1, <1>3 DEF Lookup, Unresolved
<1>4. CASE found # {}
  <2>1. Min(found) \in found
    BY <1>2, <1>4, MinIn
  <2>2. Lookup(keys) = anchors[keys[Min(found)]]
    BY <1>4 DEF Lookup
  <2>3. keys[Min(found)] \in DOMAIN anchors
    BY <2>1
  <2> HIDE DEF found
  <2> QED BY <1>1, <2>2, <2>3 DEF MapOK
<1> QED BY <1>3, <1>4

\* Keys are references, or the text of a fragment.
Key == RefType \cup {FragmentKey(Node.ref)}

LEMMA KeyTypes ==
  ASSUME NEW ref \in RefType, NEW uri \in Uri
  PROVE  /\ UriKey(uri) \in RefType
         /\ FilenameKey(ref, uri) \in RefType
         /\ [ref EXCEPT !.uri = uri] \in RefType
<1>1. \A u \in Uri : UriKey(u) \in RefType
  BY DEF UriKey, Reference, RefType, Path
<1>2. [ref EXCEPT !.uri = uri] \in RefType
  BY DEF RefType
<1>3. FilenameKey(ref, uri) \in RefType
  <2>1. CASE uri = <<>>
    BY <2>1 DEF FilenameKey, RefType
  <2>2. CASE uri # <<>>
    <3>1. <<Last(uri)>> \in Uri
      BY <2>2 DEF Last, Uri
    <3> QED BY <2>2, <3>1 DEF FilenameKey, RefType
  <2> QED BY <2>1, <2>2
<1> QED BY <1>1, <1>2, <1>3

LEMMA KeysOK ==
  ASSUME Node \in NodeType, NEW uri \in Uri
  PROVE  /\ Located \in Uri
         /\ KeysBefore \in Seq(Key)
         /\ KeysAfter(uri) \in Seq(Key)
<1>1. Node.ref \in RefType /\ Node.ref.uri \in Uri /\ Node.base \in Uri
  BY DEF NodeType, RefType
<1>2. Located \in Uri /\ Resolve(Node.ref.uri, Node.base) \in Uri
  BY <1>1, ResolveType DEF Located
<1>3. /\ [Node.ref EXCEPT !.uri = Located] \in RefType
      /\ FilenameKey(Node.ref, uri) \in RefType
      /\ FilenameKey(Node.ref, Node.ref.uri) \in RefType
      /\ [Node.ref EXCEPT !.uri = Resolve(@, Node.base)] \in RefType
  <2>1. [Node.ref EXCEPT !.uri = Resolve(@, Node.base)] = [Node.ref EXCEPT !.uri = Resolve(Node.ref.uri, Node.base)]
    OBVIOUS
  <2> QED BY <1>1, <1>2, <2>1, KeyTypes, Zenon
<1>4. RefType \subseteq Key /\ FragmentKey(Node.ref) \in Key
  BY DEF Key
<1>5. KeysBefore \in Seq(Key)
  BY <1>1, <1>3, <1>4 DEF KeysBefore
<1>6. KeysAfter(uri) \in Seq(Key)
  <2> DEFINE a == IF Node.ref.uri = <<>> \/ Node.ref.part = "none" THEN <<>> ELSE <<FilenameKey(Node.ref, uri)>>
             b == IF Node.ref.uri # <<>> /\ ~Absolute(Node.ref.uri) /\ Absolute(Node.base)
                  THEN <<[Node.ref EXCEPT !.uri = Resolve(@, Node.base)]>> ELSE <<>>
             c == IF Node.kind = "ref" THEN <<>>
                  ELSE IF Node.ref.part = "none" THEN <<Node.ref>>
                  ELSE <<FragmentKey(Node.ref), FilenameKey(Node.ref, Node.ref.uri)>>
  <2>1. a \in Seq(Key)
    BY <1>3, <1>4
  <2>2. b \in Seq(Key)
    BY <1>3, <1>4
  <2>3. c \in Seq(Key)
    BY <1>1, <1>3, <1>4
  <2>4. KeysAfter(uri) = a \o b \o c
    BY Zenon DEF KeysAfter
  <2> HIDE DEF a, b, c
  <2> QED BY <2>1, <2>2, <2>3, <2>4
<1> QED BY <1>2, <1>5, <1>6

LEMMA EarlyOK ==
  ASSUME IInv, AtNode
  PROVE  Early \in 0..Len(nodes)
<1>1. Len(nodes) \in Nat /\ rootIndex \in 1..Len(nodes) /\ Node \in NodeType /\ doc \in Docs
  BY AtNodeOK DEF AtNode, IInv
<1>2. RootOfResource \in 1..Len(nodes)
  BY <1>1 DEF RootOfResource, IInv, MapOK
<1>3. Lookup(KeysBefore) \in 0..Len(nodes)
  <2>1. <<>> \in Uri
    BY DEF Uri
  <2> QED BY <1>1, <2>1, KeysOK, LookupOK
<1>4. IsPointer => KnownRoot \in 0..Len(nodes)
  <2> SUFFICES ASSUME IsPointer PROVE KnownRoot \in 0..Len(nodes)
    OBVIOUS
  <2>1. doc[Place].id \in Uri
    BY <1>1, DocsAssumption DEF IsPointer, SchemaType
  <2>2. <<UriKey(doc[Place].id)>> \in Seq(RefType)
    <3>1. UriKey(doc[Place].id) \in RefType
      BY <2>1 DEF UriKey, Reference, RefType, Path
    <3> QED BY <3>1
  <2>3. Lookup(<<UriKey(doc[Place].id)>>) \in 0..Len(nodes)
    BY <2>2, LookupOK
  <2> QED BY <1>1, <2>3 DEF KnownRoot, Unresolved
<1> QED BY <1>1, <1>2, <1>3, <1>4 DEF Early, Unresolved

LEMMA LinkOK ==
  ASSUME IInv, Link
  PROVE  IInv'
<1> DEFINE t == IF Early # Unresolved THEN Early ELSE Lookup(KeysAfter(Located))
<1>1. /\ AtNode /\ pc = "resolve" /\ i =< end
      /\ nodes' = [nodes EXCEPT ![i].target = t] /\ i' = i + 1
      /\ UNCHANGED <<doc, pc, stack, result, baseUri, anchors, resources, pending, rootIndex, start, end, pass, via, scopes>>
  BY DEF Link, LinkTo, AtNode
<1>2. /\ NodesOK(nodes) /\ Len(nodes) \in Nat /\ i \in 1..Len(nodes)
      /\ Node \in NodeType /\ result \in -1..Len(nodes) /\ LoopOK /\ baseUri \in Uri
  BY <1>1, AtNodeOK DEF IInv, ResultOK
<1>3. t \in 0..Len(nodes)
  <2>1. Early \in 0..Len(nodes)
    BY <1>1, EarlyOK
  <2>2. Lookup(KeysAfter(Located)) \in 0..Len(nodes)
    <3>1. <<>> \in Uri
      BY DEF Uri
    <3>2. Located \in Uri
      BY <1>2, <3>1, KeysOK
    <3> QED BY <1>2, <3>2, KeysOK, LookupOK
  <2> QED BY <2>1, <2>2
<1> HIDE DEF t
<1>4. NodesOK(nodes') /\ Len(nodes') = Len(nodes)
  BY <1>1, <1>2, <1>3, TargetOK
<1>5. LoopOK' /\ ~Compiling'
  BY <1>1, <1>2, <1>4 DEF LoopOK, Compiling
<1> QED BY <1>1, <1>2, <1>4, <1>5, LinkStep

LEMMA CompileTargetOK ==
  ASSUME IInv, CompileTarget
  PROVE  IInv'
<1> DEFINE f == [Frame(Place) EXCEPT !.outer = baseUri']
<1>1. /\ AtNode /\ pc = "resolve" /\ i =< end /\ Place \in DOMAIN doc
      /\ stack' = <<f>> /\ pc' = "compile"
      /\ UNCHANGED <<doc, result, nodes, anchors, resources, pending, rootIndex, start, end, i, pass, scopes>>
  BY DEF CompileTarget, AtNode, IsPointer
<1>2. Len(nodes) \in Nat /\ Node \in NodeType /\ LoopOK /\ baseUri \in Uri
  BY <1>1, AtNodeOK DEF IInv
<1>3. <<>> \in Uri /\ Located \in Uri
  <2>1. <<>> \in Uri
    BY DEF Uri
  <2> QED BY <1>2, <2>1, KeysOK
<1>4. baseUri' \in Uri /\ via' \in [uri : Uri, saved : Uri]
  BY <1>2, <1>3 DEF CompileTarget
<1>5. f \in FrameType /\ FrameOK(f, Len(nodes))
  <2>1. Frame(Place) \in FrameType /\ FrameOK(Frame(Place), Len(nodes))
    BY <1>1, <1>2, NewFrameOK
  <2>2. f \in FrameType
    BY <1>4, <2>1 DEF FrameType
  <2>3. /\ f.loc = Frame(Place).loc /\ f.defs = Frame(Place).defs
        /\ f.keywords = Frame(Place).keywords /\ f.children = Frame(Place).children
    BY <2>1 DEF FrameType
  <2> HIDE DEF f
  <2> QED BY <2>1, <2>2, <2>3 DEF FrameOK
<1> HIDE DEF f
<1>6. StackOK(stack, Len(nodes))' /\ stack' # <<>>
  BY <1>1, <1>5 DEF StackOK, FrameOK
<1>7. LoopOK'
  BY <1>1, <1>2, <1>4 DEF LoopOK, Phases
<1>8. ResultOK' /\ ResourcesOK' /\ doc' \in Docs
  BY <1>1, <1>6, ResourcesKept DEF IInv, ResultOK
<1>9. NodesOK(nodes)' /\ MapOK(anchors, Len(nodes))' /\ MapOK(scopes, Len(nodes))' /\ PendingOK(pending, Len(nodes))'
  BY <1>1 DEF IInv
<1> QED BY <1>4, <1>6, <1>7, <1>8, <1>9 DEF IInv

LEMMA TargetCompiledOK ==
  ASSUME IInv, TargetCompiled
  PROVE  IInv'
<1>1. /\ pc = "compile" /\ stack = <<>> /\ i' = i + 1 /\ pc' = "resolve" /\ result' = 0 /\ baseUri' = via.saved
      /\ UNCHANGED <<doc, stack, anchors, resources, pending, rootIndex, start, end, pass, via, scopes>>
  BY DEF TargetCompiled, Nothing
<1>2. /\ LoopOK /\ i =< end /\ result \in -1..Len(nodes) /\ result # 0
      /\ via.uri \in Uri /\ via.saved \in Uri /\ MapOK(anchors, Len(nodes))
  BY <1>1 DEF IInv, LoopOK, ResultOK, Compiling, Nothing
<1>3. NodesOK(nodes) /\ Len(nodes) \in Nat /\ i \in 1..Len(nodes) /\ Node \in NodeType
  BY <1>1, <1>2, AtNodeOK
<1>4. NodesOK(nodes') /\ Len(nodes') = Len(nodes)
  <2>1. CASE result = Failed
    <3>1. Lookup(KeysAfter(via.uri)) \in 0..Len(nodes)
      BY <1>2, <1>3, KeysOK, LookupOK
    <3> QED BY <1>3, <2>1, <3>1, TargetOK DEF TargetCompiled
  <2>2. CASE result # Failed
    <3>1. result \in 1..Len(nodes)
      BY <1>2, <1>3, <2>2 DEF Failed
    <3>2. NodesOK(Owned) /\ Len(Owned) = Len(nodes)
      <4>1. CASE UriKey(via.uri) \in DOMAIN anchors
        <5>1. anchors[UriKey(via.uri)] \in 0..Len(nodes)
          BY <1>2, <1>3, <4>1 DEF MapOK
        <5> QED BY <1>3, <3>1, <5>1, SelfOK DEF Owned
      <4>2. CASE UriKey(via.uri) \notin DOMAIN anchors
        BY <1>3, <4>2 DEF Owned
      <4> QED BY <4>1, <4>2
    <3>3. i \in 1..Len(Owned) /\ result \in 0..Len(Owned)
      BY <1>3, <3>1, <3>2
    <3>4. nodes' = [Owned EXCEPT ![i].target = result]
      BY <2>2 DEF TargetCompiled
    <3> QED BY <3>2, <3>3, <3>4, TargetOK
  <2> QED BY <2>1, <2>2
<1>5. LoopOK' /\ ~Compiling'
  BY <1>1, <1>2, <1>4 DEF LoopOK, Compiling, Phases
<1>6. result' \in -1..Len(nodes)
  BY <1>1, <1>3
<1> QED BY <1>1, <1>2, <1>4, <1>5, <1>6, LinkStep

LEMMA BuildScopesOK ==
  ASSUME IInv, BuildScopes
  PROVE  IInv'
<1>1. PendingOK(pending, Len(nodes)) /\ Len(pending) \in Nat
  BY DEF IInv, PendingOK
<1>2. MapOK(scopes', Len(nodes))
  <2> SUFFICES ASSUME NEW key \in DOMAIN scopes' PROVE scopes'[key] \in 1..Len(nodes)
    BY DEF MapOK
  <2> DEFINE K == {k \in 1..Len(pending) : ScopeKey(pending[k]) = key}
  <2>1. scopes'[key] = pending[Max(K)].node /\ key \in {ScopeKey(pending[k]) : k \in 1..Len(pending)}
    BY DEF BuildScopes
  <2>2. K # {} /\ K \in SUBSET (1..Len(pending))
    BY <2>1
  <2>3. Max(K) \in K
    BY <1>1, <2>2, MaxIn
  <2> QED BY <1>1, <2>1, <2>3 DEF PendingOK
<1>3. pc = "scopes" /\ pc' = "done" /\ UNCHANGED <<doc, stack, result, baseUri, nodes, anchors, resources, pending, rootIndex, start, end, i, pass, via>>
  BY DEF BuildScopes
<1>4. StackOK(stack, Len(nodes))' /\ ResourcesOK'
  BY <1>3 DEF IInv, StackOK, FrameOK, ResourcesOK
<1>5. LoopOK' /\ ResultOK'
  BY <1>3 DEF IInv, LoopOK, ResultOK, Compiling, Phases
<1> QED BY <1>2, <1>3, <1>4, <1>5 DEF IInv

-----------------------------------------------------------------------------
(* Types and indices *)

LEMMA InitOK ==
  ASSUME Init
  PROVE  IInv
<1>1. doc \in Docs /\ <<>> \in DOMAIN doc /\ <<>> \in Uri /\ <<>> \in Path
  BY DocsAssumption DEF Init, Uri, Path
<1>2. NodesOK(nodes) /\ MapOK(anchors, Len(nodes)) /\ MapOK(scopes, Len(nodes)) /\ PendingOK(pending, Len(nodes))
  BY DEF Init, NodesOK, MapOK, PendingOK
<1>3. StackOK(stack, Len(nodes))
  <2>1. stack = <<Frame(<<>>)>> /\ baseUri = <<>>
    BY DEF Init
  <2>2. Frame(<<>>) \in FrameType /\ FrameOK(Frame(<<>>), Len(nodes))
    BY <1>1, <2>1 DEF Frame, FrameType, FrameOK
  <2> HIDE DEF Frame
  <2> QED BY <2>1, <2>2 DEF StackOK
<1>4. LoopOK
  BY <1>1 DEF Init, LoopOK, Phases
<1>5. ResultOK /\ ResourcesOK /\ baseUri \in Uri
  BY <1>1 DEF Init, ResultOK, ResourcesOK, Nothing
<1> QED BY <1>1, <1>2, <1>3, <1>4, <1>5 DEF IInv

LEMMA NextOK ==
  ASSUME IInv, [Next]_vars
  PROVE  IInv'
<1>1. CASE Compile
  BY <1>1, CompileLeafOK, OpenOK, CallDefinitionOK, EndDefinitionOK, PropagateOK, CompileOnlyRefOK,
     AddRefsOK, CallKeywordOK, EndKeywordOK, CompileObjectOK, TreeCompiledOK DEF Compile
<1>2. CASE Resolution
  BY <1>2, BeginPassOK, SkipOK, LinkOK, CompileTargetOK, TargetCompiledOK, EndPassOK, CheckPolicyOK,
     BuildScopesOK DEF Resolution
<1>3. CASE UNCHANGED vars
  <2>1. UNCHANGED <<doc, pc, stack, result, baseUri, nodes, anchors, resources, pending, rootIndex, start, end, i, pass, via, scopes>>
    BY <1>3 DEF vars, linkVars
  <2> QED BY <2>1 DEF IInv, NodesOK, MapOK, PendingOK, StackOK, FrameOK, ResourcesOK, LoopOK, ResultOK, Compiling
<1> QED BY <1>1, <1>2, <1>3 DEF Next

LEMMA Inductive == Spec => []IInv
<1>1. Init => IInv
  BY InitOK
<1>2. IInv /\ [Next]_vars => IInv'
  BY NextOK
<1> QED BY <1>1, <1>2, PTL DEF Spec

\* Every variable of a compilation keeps the type that its C++ declaration
\* gives it, whatever the document.
THEOREM LinkingTypes == Spec => []TypeOK
<1>1. IInv => TypeOK
  <2> SUFFICES ASSUME IInv PROVE TypeOK
    OBVIOUS
  <2>1. Len(nodes) \in Nat
    BY DEF IInv, NodesOK
  <2>2. /\ \A key \in DOMAIN anchors : anchors[key] \in Nat
        /\ \A key \in DOMAIN scopes : scopes[key] \in Nat
    BY <2>1 DEF IInv, MapOK
  <2>3. stack \in Seq(FrameType) /\ nodes \in Seq(NodeType) /\ pending \in Seq(PendingType)
    BY DEF IInv, NodesOK, PendingOK, StackOK
  <2>4. result \in Nat \cup {Failed}
    BY <2>1 DEF IInv, ResultOK, Failed
  <2> QED BY <2>2, <2>3, <2>4 DEF IInv, LoopOK, ResourcesOK, TypeOK
<1> QED BY <1>1, Inductive, PTL

\* Whatever the document, its references and the number of passes: every index
\* that compilation stores, in a node, in the anchor table or in the map of
\* dynamic anchors, is that of a node, and children come before their parent.
THEOREM IndicesAreValid == Spec => []IndicesValid
<1>1. IInv => IndicesValid
  BY DEF IInv, NodesOK, NodeOK, MapOK, PendingOK, LoopOK, IndicesValid, Index
<1> QED BY <1>1, Inductive, PTL

-----------------------------------------------------------------------------
(* Base URIs *)

\* A path leads from a schema straight to another: no schema with an $id of its
\* own lies between.
Direct(d, loc, path) ==
  /\ path # <<>>
  /\ \A k \in 1..Len(path) - 1 :
       LET between == loc \o SubSeq(path, 1, k)
       IN between \in DOMAIN d => d[between].id = <<>>

\* The base URI of a schema, given the one around it.
Own(d, loc, around) ==
  IF loc \in DOMAIN d /\ d[loc].id # <<>> THEN Resolve(d[loc].id, around) ELSE around

\* The base URIs of the schemas on the way to a location.
BaseAt(d, loc, bases, k) == Own(d, SubSeq(loc, 1, k), IF k = 0 THEN <<>> ELSE bases[k - 1])
IsBases(d, loc, n, bases) == bases = [k \in 0..n |-> BaseAt(d, loc, bases, k)]

\* They exist for a way of any length.
LEMMA BasesExist ==
  ASSUME NEW d, NEW loc, NEW n \in Nat
  PROVE  \E bases : IsBases(d, loc, n, bases)
<1> DEFINE S == {k \in 0..n : \E f : IsBases(d, loc, k, f)}
<1>1. 0 \in S
  <2> DEFINE f == [k \in 0..0 |-> Own(d, SubSeq(loc, 1, 0), <<>>)]
  <2>1. IsBases(d, loc, 0, f)
    BY DEF IsBases, BaseAt
  <2> QED BY <2>1
<1>2. ASSUME NEW k \in 0..n, k \in S, k < n
      PROVE  k + 1 \in S
  <2>1. PICK f : IsBases(d, loc, k, f)
    BY <1>2
  <2> DEFINE next == Own(d, SubSeq(loc, 1, k + 1), f[k])
             g == [j \in 0..k + 1 |-> IF j =< k THEN f[j] ELSE next]
  <2>2. ASSUME NEW j \in 0..k + 1
        PROVE  g[j] = BaseAt(d, loc, g, j)
    <3>1. CASE j =< k
      <4>1. j \in 0..k /\ (j # 0 => j - 1 \in 0..k /\ j - 1 \in 0..k + 1 /\ j - 1 =< k)
        BY <3>1
      <4>2. f[j] = BaseAt(d, loc, f, j)
        BY <2>1, <4>1 DEF IsBases
      <4>3. g[j] = f[j] /\ (j # 0 => g[j - 1] = f[j - 1])
        BY <3>1, <4>1
      <4> QED BY <4>2, <4>3 DEF BaseAt
    <3>2. CASE j = k + 1
      <4>1. j # 0 /\ j - 1 = k /\ k \in 0..k + 1 /\ ~(j =< k)
        BY <3>2
      <4>2. g[j] = next /\ g[k] = f[k]
        BY <4>1
      <4> QED BY <3>2, <4>1, <4>2 DEF BaseAt
    <3> QED BY <3>1, <3>2
  <2>3. IsBases(d, loc, k + 1, g)
    BY <2>2 DEF IsBases
  <2>4. k + 1 \in 0..n
    BY <1>2
  <2> QED BY <2>3, <2>4
<1>3. 0..n \subseteq S
  <2> HIDE DEF S
  <2> QED BY <1>1, <1>2, Upwards
<1> QED BY <1>3

\* The base URI of a location is the last of them.
LEMMA BaseUnfolds ==
  ASSUME NEW d, NEW loc \in Path
  PROVE  \E bases : IsBases(d, loc, Len(loc), bases) /\ BaseIn(d, loc) = bases[Len(loc)]
<1> DEFINE n == Len(loc)
           Step(f) == [k \in 0..n |->
                         LET around == IF k = 0 THEN <<>> ELSE f[k - 1]
                             at == SubSeq(loc, 1, k)
                         IN IF at \in DOMAIN d /\ d[at].id # <<>> THEN Resolve(d[at].id, around) ELSE around]
           f == CHOOSE f : f = Step(f)
<1>1. \A g : IsBases(d, loc, n, g) <=> g = Step(g)
  BY DEF IsBases, BaseAt, Own
<1>2. \E g : g = Step(g)
  <2>1. n \in Nat
    BY DEF Path
  <2> HIDE DEF n, Step
  <2> QED BY <1>1, <2>1, BasesExist
<1>3. f = Step(f)
  <2> HIDE DEF Step
  <2> QED BY <1>2
<1>4. BaseIn(d, loc) = f[n]
  BY DEF BaseIn
<1> HIDE DEF Step, f
<1> QED BY <1>1, <1>3, <1>4

\* There is one such sequence only, so the base URI of a schema around is in it.
LEMMA BasesOfPrefix ==
  ASSUME NEW d, NEW loc \in Path, NEW n \in Nat, n =< Len(loc),
         NEW f, IsBases(d, loc, Len(loc), f)
  PROVE  f[n] = BaseIn(d, SubSeq(loc, 1, n))
<1> DEFINE s == SubSeq(loc, 1, n)
<1>1. s \in Path /\ Len(s) = n /\ \A k \in 0..n : SubSeq(s, 1, k) = SubSeq(loc, 1, k)
  <2>1. loc \in Seq(STRING) /\ s \in Seq(STRING) /\ Len(s) = n
    BY DEF Path
  <2>2. ASSUME NEW k \in 0..n
        PROVE  SubSeq(s, 1, k) = SubSeq(loc, 1, k)
    BY <2>1
  <2> QED BY <2>1, <2>2 DEF Path
<1>2. PICK g : IsBases(d, s, n, g) /\ BaseIn(d, s) = g[n]
  BY <1>1, BaseUnfolds
<1> HIDE DEF s
<1> DEFINE S == {k \in 0..n : f[k] = g[k]}
<1>3. ASSUME NEW k \in 0..n
      PROVE  f[k] = BaseAt(d, loc, f, k) /\ g[k] = BaseAt(d, s, g, k) /\ SubSeq(s, 1, k) = SubSeq(loc, 1, k)
  <2>1. Len(loc) \in Nat /\ k \in 0..Len(loc)
    BY DEF Path
  <2> QED BY <1>1, <1>2, <2>1 DEF IsBases
<1>4. 0 \in S
  <2>1. 0 \in 0..n
    OBVIOUS
  <2>2. f[0] = Own(d, SubSeq(loc, 1, 0), <<>>) /\ g[0] = Own(d, SubSeq(loc, 1, 0), <<>>)
    BY <1>3, <2>1 DEF BaseAt
  <2> QED BY <2>1, <2>2
<1>5. ASSUME NEW k \in 0..n, k \in S, k < n
      PROVE  k + 1 \in S
  <2>1. k + 1 \in 0..n /\ k + 1 # 0 /\ (k + 1) - 1 = k
    BY <1>5
  <2> QED BY <1>3, <1>5, <2>1 DEF BaseAt
<1>6. 0..n \subseteq S
  <2> HIDE DEF S
  <2> QED BY <1>4, <1>5, Upwards
<1> QED BY <1>2, <1>6 DEF s

\* The root has its own, and a schema in another without a resource between them
\* resolves its own against the other's.
LEMMA BaseOfRoot ==
  ASSUME NEW d
  PROVE  BaseIn(d, <<>>) = Own(d, <<>>, <<>>)
<1>1. <<>> \in Path /\ Len(<<>>) = 0 /\ 0 \in 0..0 /\ SubSeq(<<>>, 1, 0) = <<>>
  BY DEF Path
<1>2. PICK f : IsBases(d, <<>>, 0, f) /\ BaseIn(d, <<>>) = f[0]
  BY <1>1, BaseUnfolds
<1> QED BY <1>1, <1>2 DEF IsBases, BaseAt

\* A schema straight below another is based on its URI.
LEMMA BaseWithin ==
  ASSUME NEW d, NEW loc \in Path, NEW path \in Path, Direct(d, loc, path)
  PROVE  BaseIn(d, loc \o path) = Own(d, loc \o path, BaseIn(d, loc))
<1> DEFINE m == Len(loc)
           n == Len(path)
           whole == loc \o path
<1>1. m \in Nat /\ n \in Nat /\ n # 0 /\ whole \in Path /\ Len(whole) = m + n
  BY DEF Path, Direct
<1>2. SubSeq(whole, 1, m) = loc /\ SubSeq(whole, 1, m + n) = whole
  BY <1>1 DEF Path
<1>3. ASSUME NEW k \in 1..n
      PROVE  SubSeq(whole, 1, m + k) = loc \o SubSeq(path, 1, k)
  BY <1>1 DEF Path
<1>4. PICK f : IsBases(d, whole, m + n, f) /\ BaseIn(d, whole) = f[m + n]
  BY <1>1, BaseUnfolds
<1>5. f[m] = BaseIn(d, loc)
  <2>1. IsBases(d, whole, Len(whole), f) /\ m =< Len(whole)
    BY <1>1, <1>4
  <2> HIDE DEF whole, m, n
  <2> QED BY <1>1, <1>2, <2>1, BasesOfPrefix
<1>6. \A k \in 1..n - 1 : loc \o SubSeq(path, 1, k) \in DOMAIN d => d[loc \o SubSeq(path, 1, k)].id = <<>>
  BY DEF Direct
<1> HIDE DEF whole, m, n
<1>7. ASSUME NEW j \in m + 1..m + n
      PROVE  f[j] = Own(d, SubSeq(whole, 1, j), f[j - 1])
  <2>1. j \in 0..m + n /\ j # 0
    BY <1>1
  <2>2. f[j] = BaseAt(d, whole, f, j)
    BY <1>4, <2>1 DEF IsBases
  <2> QED BY <2>1, <2>2 DEF BaseAt
<1> DEFINE S == {k \in 0..n - 1 : f[m + k] = f[m]}
<1>8. 0 \in S
  BY <1>1
<1>9. ASSUME NEW k \in 0..n - 1, k \in S, k < n - 1
      PROVE  k + 1 \in S
  <2> DEFINE j == m + (k + 1)
  <2>1. k + 1 \in 1..n /\ k + 1 \in 1..n - 1 /\ j - 1 = m + k /\ j \in m + 1..m + n
    BY <1>1, <1>9
  <2>2. SubSeq(whole, 1, j) = loc \o SubSeq(path, 1, k + 1)
    BY <1>3, <2>1
  <2> HIDE DEF j
  <2>3. Own(d, SubSeq(whole, 1, j), f[j - 1]) = f[j - 1]
    BY <1>6, <2>1, <2>2 DEF Own
  <2>4. f[j] = f[m + k]
    BY <1>7, <2>1, <2>3
  <2> QED BY <1>9, <2>1, <2>4 DEF j
<1>10. 0..n - 1 \subseteq S
  <2>1. n - 1 \in Nat
    BY <1>1
  <2> HIDE DEF S
  <2> QED BY <1>8, <1>9, <2>1, Upwards
<1>11. f[m + n - 1] = f[m]
  <2>1. n - 1 \in 0..n - 1 /\ m + (n - 1) = m + n - 1
    BY <1>1
  <2> QED BY <1>10, <2>1
<1>12. f[m + n] = Own(d, SubSeq(whole, 1, m + n), f[m + n - 1])
  <2> DEFINE j == m + n
  <2>1. j \in m + 1..m + n
    BY <1>1
  <2> HIDE DEF j
  <2>2. f[j] = Own(d, SubSeq(whole, 1, j), f[j - 1])
    BY <1>7, <2>1
  <2> QED BY <1>1, <2>2 DEF j
<1> QED BY <1>2, <1>4, <1>5, <1>11, <1>12 DEF whole

\* Under a base URI that is not empty, none is empty.
LEMMA ResolvesToSome ==
  ASSUME NEW uri \in Uri, uri # <<>>, NEW base \in Uri
  PROVE  Resolve(uri, base) # <<>>
<1>1. CASE base = <<>>
  BY <1>1 DEF Resolve
<1>2. CASE base # <<>>
  <2>1. Front(base) \in Seq(STRING) /\ Head(base) \in STRING
    BY <1>2 DEF Front, Uri
  <2>2. Front(base) \o uri # <<>>
    <3>1. Len(Front(base) \o uri) # 0
      BY <2>1 DEF Uri
    <3> QED BY <3>1
  <2>3. <<Head(base)>> \o Tail(uri) # <<>>
    <3>1. Len(<<Head(base)>> \o Tail(uri)) # 0
      BY <2>1 DEF Uri
    <3> QED BY <3>1
  <2> QED BY <2>2, <2>3 DEF Resolve
<1> QED BY <1>1, <1>2

\* A base URI is a URI.
LEMMA BaseType ==
  ASSUME NEW d \in Docs, NEW loc \in Path
  PROVE  /\ BaseIn(d, loc) \in Uri
         /\ BaseIn(d, loc) = <<>> => BaseIn(d, <<>>) = <<>>
<1> DEFINE n == Len(loc)
<1>1. n \in Nat /\ n \in 0..n /\ 0 \in 0..n
  BY DEF Path
<1>2. PICK f : IsBases(d, loc, n, f) /\ BaseIn(d, loc) = f[n]
  BY BaseUnfolds
<1>3. f[0] = BaseIn(d, <<>>)
  <2>1. SubSeq(loc, 1, 0) = <<>> /\ 0 \in Nat /\ 0 =< n
    BY <1>1 DEF Path
  <2> QED BY <1>2, <2>1, BasesOfPrefix
<1>4. ASSUME NEW s, NEW base \in Uri
      PROVE  /\ Own(d, s, base) \in Uri
             /\ base # <<>> => Own(d, s, base) # <<>>
  <2>1. CASE s \in DOMAIN d /\ d[s].id # <<>>
    <3>1. d[s].id \in Uri
      BY <2>1, DocsAssumption DEF SchemaType
    <3> QED BY <2>1, <3>1, ResolveType, ResolvesToSome DEF Own
  <2>2. CASE ~(s \in DOMAIN d /\ d[s].id # <<>>)
    BY <2>2 DEF Own
  <2> QED BY <2>1, <2>2
<1> HIDE DEF n
<1>5. ASSUME NEW k \in 0..n
      PROVE  f[k] = Own(d, SubSeq(loc, 1, k), IF k = 0 THEN <<>> ELSE f[k - 1])
  BY <1>2 DEF IsBases, BaseAt
<1> DEFINE S == {k \in 0..n : f[k] \in Uri /\ (f[k] = <<>> => f[0] = <<>>)}
<1>6. 0 \in S
  <2>1. <<>> \in Uri /\ f[0] = Own(d, SubSeq(loc, 1, 0), <<>>)
    BY <1>1, <1>5 DEF Uri
  <2>2. f[0] \in Uri
    BY <1>4, <2>1
  <2> QED BY <1>1, <2>2
<1>7. ASSUME NEW k \in 0..n, k \in S, k < n
      PROVE  k + 1 \in S
  <2>1. k + 1 \in 0..n /\ k + 1 # 0 /\ (k + 1) - 1 = k
    BY <1>1, <1>7
  <2>2. f[k + 1] = Own(d, SubSeq(loc, 1, k + 1), f[k])
    BY <1>5, <2>1
  <2> QED BY <1>4, <1>7, <2>1, <2>2
<1>8. 0..n \subseteq S
  <2> HIDE DEF S
  <2> QED BY <1>1, <1>6, <1>7, Upwards
<1> QED BY <1>1, <1>2, <1>3, <1>8

\* Every subschema that a schema lists is its own, not that of a resource in it.
NestedDirectly ==
  \A d \in Docs : \A loc \in DOMAIN d :
    /\ \A k \in 1..Len(d[loc].defs) : Direct(d, loc, d[loc].defs[k])
    /\ \A k \in 1..Len(d[loc].keywords) : Direct(d, loc, d[loc].keywords[k])

\* No pointer leads through a resource into one that is embedded in it.
PointersStay ==
  \A d \in Docs : \A loc \in DOMAIN d : \A ref \in {d[loc].ref, d[loc].dynamicRef} :
    ref.part = "pointer" /\ ref.path # <<>> =>
      \A root \in DOMAIN d :
        (root = <<>> \/ d[root].id # <<>>) /\ root \o ref.path \in DOMAIN d => Direct(d, root, ref.path)

\* What a call knows: the base URI around its schema, and that its subschemas
\* lie directly in it.
FrameBase(d, f) ==
  /\ BaseIn(d, f.loc) = Own(d, f.loc, f.outer)
  /\ \A k \in 1..Len(f.defs) : Direct(d, f.loc, f.defs[k])
  /\ \A k \in 1..Len(f.keywords) : Direct(d, f.loc, f.keywords[k])

\* Each call was made by an open one, under the base URI of its schema, and the
\* first one under that of the document.
StackBase(d, st, current) ==
  LET n == Len(st)
  IN /\ \A k \in 1..n : FrameBase(d, st[k])
     /\ \A k \in 1..n - 1 : st[k].open /\ st[k + 1].outer = BaseIn(d, st[k].loc)
     /\ n > 0 => current = IF st[n].open THEN BaseIn(d, st[n].loc) ELSE st[n].outer

\* Linking starts and goes on under the empty base URI.
LoopBase ==
  /\ pc = "tree" => IF stack = <<>> THEN baseUri = <<>> ELSE stack[1].outer = <<>>
  /\ pc \in {"pass", "resolve"} => baseUri = <<>>
  /\ pc = "compile" => via.saved = <<>>
  /\ ~Compiling => stack = <<>>

ResourceBases(d, m) == \A uri \in DOMAIN m : BaseIn(d, m[uri]) = uri /\ d[m[uri]].id # <<>>

\* A node has the base URI of its place, and the reference that is written there.
NodeBase(d, node) ==
  /\ node.loc \in DOMAIN d
  /\ node.base = BaseIn(d, node.loc)
  /\ node.kind \in {"ref", "dynamicRef"} =>
       \E ref \in {d[node.loc].ref, d[node.loc].dynamicRef} : node.ref = Qualified(ref, node.base)
NodeBases(d, ns) == \A n \in 1..Len(ns) : NodeBase(d, ns[n])

BaseInv ==
  /\ StackBase(doc, stack, baseUri)
  /\ LoopBase
  /\ ResourceBases(doc, resources)
  /\ NodeBases(doc, nodes)

-----------------------------------------------------------------------------
(* The stack *)

\* The last call is changed, but neither its place nor what it knows of it.
LEMMA BaseOfSetTop ==
  ASSUME NEW d, NEW st \in Seq(FrameType), st # <<>>, NEW current, StackBase(d, st, current),
         NEW f \in FrameType, NEW base,
         f.loc = st[Len(st)].loc, f.outer = st[Len(st)].outer,
         \A k \in 1..Len(f.defs) : Direct(d, f.loc, f.defs[k]),
         \A k \in 1..Len(f.keywords) : Direct(d, f.loc, f.keywords[k]),
         base = IF f.open THEN BaseIn(d, f.loc) ELSE f.outer
  PROVE  /\ StackBase(d, [st EXCEPT ![Len(st)] = f], base)
         /\ [st EXCEPT ![Len(st)] = f] # <<>>
         /\ [st EXCEPT ![Len(st)] = f][1].outer = st[1].outer
<1> DEFINE n == Len(st)
           new == [st EXCEPT ![n] = f]
<1>1. n \in Nat /\ n > 0
  OBVIOUS
<1>2. Len(new) = n /\ new # <<>> /\ \A k \in 1..n : new[k] = IF k = n THEN f ELSE st[k]
  BY <1>1
<1>3. FrameBase(d, f)
  <2>1. FrameBase(d, st[n])
    BY <1>1 DEF StackBase
  <2> QED BY <2>1 DEF FrameBase
<1>4. /\ \A k \in 1..n : FrameBase(d, st[k])
      /\ \A k \in 1..n - 1 : st[k].open /\ st[k + 1].outer = BaseIn(d, st[k].loc)
      /\ f.outer = st[n].outer
  BY DEF StackBase
<1> HIDE DEF new, n
<1>5. \A k \in 1..n : FrameBase(d, new[k])
  BY <1>2, <1>3, <1>4
<1>6. ASSUME NEW k \in 1..n - 1
      PROVE  new[k].open /\ new[k + 1].outer = BaseIn(d, new[k].loc)
  <2>1. k \in 1..n /\ k + 1 \in 1..n /\ k # n
    BY <1>1
  <2>2. new[k] = st[k] /\ new[k + 1].outer = st[k + 1].outer
    BY <1>2, <1>4, <2>1
  <2> QED BY <1>4, <2>2
<1>7. new[n] = f /\ new[1].outer = st[1].outer
  BY <1>1, <1>2, <1>4
<1> QED BY <1>2, <1>5, <1>6, <1>7 DEF StackBase, new, n

\* It returns: its caller's base URI is in force again.
LEMMA BaseOfReturn ==
  ASSUME NEW d, NEW st \in Seq(FrameType), st # <<>>, NEW current, StackBase(d, st, current)
  PROVE  /\ StackBase(d, Front(st), st[Len(st)].outer)
         /\ Front(st) # <<>> => Front(st)[1] = st[1]
         /\ Front(st) = <<>> => st[Len(st)] = st[1]
<1> DEFINE n == Len(st)
<1>1. n \in Nat /\ n > 0 /\ n \in 1..n
  OBVIOUS
<1>2. /\ Len(Front(st)) = n - 1
      /\ \A k \in 1..n - 1 : Front(st)[k] = st[k]
      /\ Front(st) \in Seq(FrameType)
  <2>1. Front(st) = SubSeq(st, 1, n - 1)
    BY DEF Front
  <2>2. \A k \in 1..n - 1 : st[k] \in FrameType
    OBVIOUS
  <2> HIDE DEF n
  <2>3. /\ SubSeq(st, 1, n - 1) \in Seq(FrameType)
        /\ Len(SubSeq(st, 1, n - 1)) = IF 1 <= n - 1 THEN n - 1 - 1 + 1 ELSE 0
        /\ \A k \in 1..n - 1 - 1 + 1 : SubSeq(st, 1, n - 1)[k] = st[1 + k - 1]
    BY <1>1, <2>2, SubSeqProperties
  <2>4. \A k \in 1..n - 1 : SubSeq(st, 1, n - 1)[k] = st[k]
    BY <1>1, <2>3
  <2>5. Len(SubSeq(st, 1, n - 1)) = n - 1
    BY <1>1, <2>3
  <2> QED BY <2>1, <2>3, <2>4, <2>5
<1>3. /\ \A k \in 1..n : FrameBase(d, st[k])
      /\ \A k \in 1..n - 1 : st[k].open /\ st[k + 1].outer = BaseIn(d, st[k].loc)
  BY DEF StackBase
<1>4. Front(st) = <<>> <=> n = 1
  BY <1>1, <1>2
<1> HIDE DEF n
<1>5. n - 1 > 0 =>
        st[n].outer = IF Front(st)[n - 1].open THEN BaseIn(d, Front(st)[n - 1].loc) ELSE Front(st)[n - 1].outer
  <2> SUFFICES ASSUME n - 1 > 0
               PROVE  st[n].outer = IF Front(st)[n - 1].open THEN BaseIn(d, Front(st)[n - 1].loc)
                                    ELSE Front(st)[n - 1].outer
    OBVIOUS
  <2> DEFINE m == n - 1
  <2>1. m \in 1..n - 1 /\ m + 1 = n
    BY <1>1
  <2> HIDE DEF m
  <2>2. Front(st)[m] = st[m] /\ st[m].open /\ st[n].outer = BaseIn(d, st[m].loc)
    BY <1>2, <1>3, <2>1
  <2> QED BY <2>2 DEF m
<1>6. ASSUME NEW k \in 1..n - 1 - 1
      PROVE  Front(st)[k].open /\ Front(st)[k + 1].outer = BaseIn(d, Front(st)[k].loc)
  <2>1. k \in 1..n - 1 /\ k + 1 \in 1..n - 1
    BY <1>1
  <2> QED BY <1>2, <1>3, <2>1
<1>7. \A k \in 1..n - 1 : FrameBase(d, Front(st)[k])
  BY <1>1, <1>2, <1>3
<1>8. StackBase(d, Front(st), st[n].outer)
  BY <1>2, <1>5, <1>6, <1>7 DEF StackBase
<1>9. Front(st) # <<>> => Front(st)[1] = st[1]
  BY <1>1, <1>2, <1>4
<1> QED BY <1>4, <1>8, <1>9 DEF n

\* It calls for a subschema that lies directly in its schema.
LEMMA BaseOfCall ==
  ASSUME NEW d, NEW st \in Seq(FrameType), st # <<>>, NEW current, StackBase(d, st, current),
         st[Len(st)].open, NEW f \in FrameType, FrameBase(d, f), ~f.open, f.outer = current
  PROVE  /\ StackBase(d, Append(st, f), current)
         /\ Append(st, f) # <<>>
         /\ Append(st, f)[1] = st[1]
<1> DEFINE n == Len(st)
           new == Append(st, f)
<1>1. n \in Nat /\ n > 0
  OBVIOUS
<1>2. Len(new) = n + 1 /\ new # <<>> /\ new[n + 1] = f /\ \A k \in 1..n : new[k] = st[k]
  BY <1>1
<1>3. /\ \A k \in 1..n : FrameBase(d, st[k])
      /\ \A k \in 1..n - 1 : st[k].open /\ st[k + 1].outer = BaseIn(d, st[k].loc)
      /\ st[n].open /\ f.outer = BaseIn(d, st[n].loc)
  BY <1>1 DEF StackBase
<1> HIDE DEF new, n
<1>4. \A k \in 1..n + 1 : FrameBase(d, new[k])
  <2>1. \A k \in 1..n + 1 : k = n + 1 \/ k \in 1..n
    BY <1>1
  <2> QED BY <1>2, <1>3, <2>1
<1>5. ASSUME NEW k \in 1..n + 1 - 1
      PROVE  new[k].open /\ new[k + 1].outer = BaseIn(d, new[k].loc)
  <2>1. CASE k = n
    BY <1>1, <1>2, <1>3, <2>1
  <2>2. CASE k # n
    <3>1. k \in 1..n - 1 /\ k \in 1..n /\ k + 1 \in 1..n
      BY <1>1, <2>2
    <3> QED BY <1>2, <1>3, <3>1
  <2> QED BY <2>1, <2>2
<1>6. StackBase(d, new, current)
  BY <1>1, <1>2, <1>4, <1>5 DEF StackBase
<1>7. new[1] = st[1]
  BY <1>1, <1>2
<1> QED BY <1>2, <1>6, <1>7 DEF new

\* What a step of compilation has to show.
LEMMA CompileBase ==
  ASSUME IInv, BaseInv, Compiling, stack # <<>>, UNCHANGED <<doc, pc, linkVars>>,
         StackBase(doc, stack', baseUri'),
         stack' # <<>> => stack'[1].outer = stack[1].outer,
         stack' = <<>> => baseUri' = stack[1].outer,
         ResourceBases(doc, resources'), NodeBases(doc, nodes')
  PROVE  BaseInv'
<1>1. LoopBase'
  BY DEF BaseInv, LoopBase, Compiling, linkVars
<1> QED BY <1>1 DEF BaseInv

\* The base URI in force while a schema is compiled is that of its place.
LEMMA BaseInForce ==
  ASSUME IInv, BaseInv, stack # <<>>, Top.open \/ Schema.id = <<>>
  PROVE  baseUri = BaseIn(doc, Top.loc) /\ Top.loc \in DOMAIN doc
<1> DEFINE n == Len(stack)
<1>1. n \in 1..n /\ n > 0 /\ FrameOK(Top, Len(nodes)) /\ Top = stack[n]
  BY TopOK DEF Top
<1>2. Top.loc \in DOMAIN doc
  BY <1>1 DEF FrameOK
<1>3. FrameBase(doc, stack[n]) /\ baseUri = IF stack[n].open THEN BaseIn(doc, stack[n].loc) ELSE stack[n].outer
  BY <1>1 DEF BaseInv, StackBase
<1> HIDE DEF n
<1>4. CASE Top.open
  BY <1>1, <1>2, <1>3, <1>4
<1>5. CASE ~Top.open
  <2>1. Schema.id = <<>> /\ baseUri = Top.outer
    BY <1>1, <1>3, <1>5
  <2>2. BaseIn(doc, Top.loc) = Own(doc, Top.loc, Top.outer)
    BY <1>1, <1>3 DEF FrameBase
  <2> QED BY <1>2, <2>1, <2>2 DEF Own, Schema
<1> QED BY <1>4, <1>5

\* A node of the running call has the base URI of its place.
LEMMA NewNodeBase ==
  ASSUME IInv, BaseInv, stack # <<>>, Top.open \/ Schema.id = <<>>,
         NEW kind, NEW ref, NEW children, NEW self,
         kind \in {"ref", "dynamicRef"} =>
           \E written \in {Schema.ref, Schema.dynamicRef} : ref = Qualified(written, baseUri)
  PROVE  NodeBase(doc, NewNode(kind, ref, children, self))
<1> DEFINE node == NewNode(kind, ref, children, self)
<1>1. node.kind = kind /\ node.ref = ref /\ node.loc = Top.loc /\ node.base = baseUri
  BY DEF NewNode
<1> HIDE DEF node
<1> QED BY <1>1, BaseInForce DEF NodeBase, Schema, node

\* So has that of a reference, which is the one that is written there.
LEMMA RefNodeBase ==
  ASSUME IInv, BaseInv, stack # <<>>, Top.open, NEW self
  PROVE  NodeBase(doc, RefNode(self)) /\ NodeBase(doc, DynamicRefNode(self))
BY NewNodeBase, Zenon DEF RefNode, DynamicRefNode

\* A node is added.
LEMMA AppendBase ==
  ASSUME NEW d, NEW ns \in Seq(NodeType), NodeBases(d, ns), NEW node, NodeBase(d, node)
  PROVE  NodeBases(d, Append(ns, node))
<1> DEFINE n == Len(ns)
           new == Append(ns, node)
<1>1. n \in Nat /\ Len(new) = n + 1 /\ new[n + 1] = node /\ \A k \in 1..n : new[k] = ns[k]
  OBVIOUS
<1>2. \A k \in 1..n : NodeBase(d, ns[k])
  BY DEF NodeBases
<1> HIDE DEF n, new
<1>3. \A k \in 1..n + 1 : k = n + 1 \/ k \in 1..n
  BY <1>1
<1>4. NodeBases(d, new)
  BY <1>1, <1>2, <1>3 DEF NodeBases
<1> QED BY <1>4 DEF new

\* The parts of the invariant that a return restores.
LEMMA ReturnBase ==
  ASSUME IInv, BaseInv, stack # <<>>, NEW r, Return(r)
  PROVE  /\ StackBase(doc, stack', baseUri')
         /\ stack' # <<>> => stack'[1].outer = stack[1].outer
         /\ stack' = <<>> => baseUri' = stack[1].outer
<1>1. stack \in Seq(FrameType) /\ StackBase(doc, stack, baseUri)
  BY DEF IInv, StackOK, BaseInv
<1>2. stack' = Front(stack) /\ baseUri' = stack[Len(stack)].outer
  BY DEF Return, Top
<1> QED BY <1>1, <1>2, BaseOfReturn

\* The nodes and the stack have these types.
LEMMA Types ==
  ASSUME IInv, BaseInv
  PROVE  /\ nodes \in Seq(NodeType) /\ stack \in Seq(FrameType) /\ baseUri \in Uri /\ doc \in Docs
         /\ StackBase(doc, stack, baseUri) /\ NodeBases(doc, nodes) /\ ResourceBases(doc, resources)
BY DEF IInv, NodesOK, StackOK, BaseInv

-----------------------------------------------------------------------------
(* Every step compiles under the base URI of the place *)

LEMMA CompileLeafBase ==
  ASSUME IInv, BaseInv, CompileLeaf
  PROVE  BaseInv'
<1>1. /\ Compiling /\ stack # <<>> /\ Schema.kind # "object"
      /\ UNCHANGED <<doc, pc, anchors, resources, pending, linkVars>>
  BY DEF CompileLeaf, Running
<1>2. Schema.id = <<>>
  <2>1. doc \in Docs /\ Top.loc \in DOMAIN doc
    BY <1>1, TopOK DEF IInv, FrameOK
  <2> QED BY <1>1, <2>1, DocsAssumption DEF Schema
<1>3. \E r : Return(r)
  BY DEF CompileLeaf
<1>4. NodeBases(doc, nodes')
  <2>1. NodeBase(doc, NewNode("bool", NoRef, <<>>, 0))
    BY <1>1, <1>2, NewNodeBase
  <2>2. nodes' = nodes \/ nodes' = Append(nodes, NewNode("bool", NoRef, <<>>, 0))
    BY DEF CompileLeaf
  <2> QED BY <2>1, <2>2, Types, AppendBase
<1> QED BY <1>1, <1>3, <1>4, Types, ReturnBase, CompileBase

LEMMA PropagateBase ==
  ASSUME IInv, BaseInv, Propagate
  PROVE  BaseInv'
<1>1. Compiling /\ stack # <<>> /\ UNCHANGED <<doc, pc, nodes, anchors, resources, pending, linkVars>>
  BY DEF Propagate
<1>2. Return(Failed)
  BY DEF Propagate
<1> QED BY <1>1, <1>2, Types, ReturnBase, CompileBase

LEMMA CompileOnlyRefBase ==
  ASSUME IInv, BaseInv, CompileOnlyRef
  PROVE  BaseInv'
<1> DEFINE n == Len(nodes) + 1
           node == IF HasRef THEN RefNode(n) ELSE DynamicRefNode(n)
<1>1. /\ Compiling /\ stack # <<>> /\ Top.open /\ nodes' = Append(nodes, node) /\ Return(n)
      /\ UNCHANGED <<doc, pc, resources, pending, linkVars>>
  BY DEF CompileOnlyRef, AfterDefinitions, Running
<1>2. NodeBase(doc, node)
  BY <1>1, RefNodeBase
<1> HIDE DEF n, node
<1>3. NodeBases(doc, nodes')
  BY <1>1, <1>2, Types, AppendBase
<1> QED BY <1>1, <1>3, Types, ReturnBase, CompileBase

LEMMA CompileObjectBase ==
  ASSUME IInv, BaseInv, CompileObject
  PROVE  BaseInv'
<1> DEFINE n == Len(nodes) + 1
           node == NewNode("object", NoRef, Top.children, n)
<1>1. /\ Compiling /\ stack # <<>> /\ Top.open /\ nodes' = Append(nodes, node) /\ Return(n)
      /\ UNCHANGED <<doc, pc, resources, linkVars>>
  BY DEF CompileObject, AfterDefinitions, Running
<1>2. NodeBase(doc, node)
  BY <1>1, NewNodeBase
<1> HIDE DEF n, node
<1>3. NodeBases(doc, nodes')
  BY <1>1, <1>2, Types, AppendBase
<1> QED BY <1>1, <1>3, Types, ReturnBase, CompileBase

\* A change of the running call that leaves its place and its base URI alone.
LEMMA SetTopBase ==
  ASSUME IInv, BaseInv, Compiling, stack # <<>>, UNCHANGED <<doc, pc, linkVars>>,
         NEW f \in FrameType, SetTop(f), f.loc = Top.loc, f.outer = Top.outer,
         \A k \in 1..Len(f.defs) : Direct(doc, f.loc, f.defs[k]),
         \A k \in 1..Len(f.keywords) : Direct(doc, f.loc, f.keywords[k]),
         baseUri' = IF f.open THEN BaseIn(doc, f.loc) ELSE f.outer,
         ResourceBases(doc, resources'), NodeBases(doc, nodes')
  PROVE  BaseInv'
<1>1. stack' = [stack EXCEPT ![Len(stack)] = f]
  BY DEF SetTop
<1>2. f.loc = stack[Len(stack)].loc /\ f.outer = stack[Len(stack)].outer
  BY DEF Top
<1>3. StackBase(doc, stack', baseUri') /\ stack' # <<>> /\ stack'[1].outer = stack[1].outer
  BY <1>1, <1>2, Types, BaseOfSetTop
<1> QED BY <1>3, CompileBase

\* What the invariant says of the running call.
LEMMA TopBase ==
  ASSUME IInv, BaseInv, stack # <<>>
  PROVE  /\ FrameBase(doc, Top) /\ Top \in FrameType /\ Top.loc \in DOMAIN doc /\ Top.loc \in Path
         /\ baseUri = IF Top.open THEN BaseIn(doc, Top.loc) ELSE Top.outer
<1> DEFINE n == Len(stack)
<1>1. n \in 1..n /\ n > 0 /\ Top = stack[n] /\ Top \in FrameType /\ FrameOK(Top, Len(nodes)) /\ Top.loc \in Path
  BY TopOK DEF Top
<1> QED BY <1>1 DEF BaseInv, StackBase, FrameOK

LEMMA OpenBase ==
  ASSUME IInv, BaseInv, NestedDirectly, Open
  PROVE  BaseInv'
<1> DEFINE f == [Top EXCEPT !.open = TRUE, !.defs = Schema.defs, !.keywords = Schema.keywords]
<1>1. /\ Compiling /\ stack # <<>> /\ ~Top.open /\ SetTop(f)
      /\ UNCHANGED <<doc, pc, result, nodes, anchors, pending, linkVars>>
  BY DEF Open, Running
<1>2. /\ FrameBase(doc, Top) /\ Top \in FrameType /\ Top.loc \in DOMAIN doc /\ baseUri = Top.outer
      /\ doc \in Docs /\ Schema \in SchemaType
  BY <1>1, TopBase, TopOK DEF IInv
<1>3. f \in FrameType
  BY <1>2 DEF FrameType, SchemaType
<1>4. /\ f.loc = Top.loc /\ f.outer = Top.outer /\ f.open
      /\ f.defs = Schema.defs /\ f.keywords = Schema.keywords
  BY <1>2 DEF FrameType
<1> HIDE DEF f
<1>5. /\ \A k \in 1..Len(f.defs) : Direct(doc, f.loc, f.defs[k])
      /\ \A k \in 1..Len(f.keywords) : Direct(doc, f.loc, f.keywords[k])
  BY <1>2, <1>4 DEF NestedDirectly, Schema
<1>6. BaseIn(doc, Top.loc) = Own(doc, Top.loc, baseUri)
  BY <1>2 DEF FrameBase
<1>7. baseUri' = BaseIn(doc, Top.loc) /\ ResourceBases(doc, resources')
  <2>1. CASE Schema.id = <<>>
    <3>1. baseUri' = baseUri /\ resources' = resources
      BY <2>1 DEF Open
    <3>2. BaseIn(doc, Top.loc) = baseUri
      BY <1>6, <2>1 DEF Own, Schema
    <3> QED BY <3>1, <3>2, Types
  <2>2. CASE Schema.id # <<>>
    <3> DEFINE uri == Resolve(Schema.id, baseUri)
    <3>1. baseUri' = uri /\ resources' = Put(resources, uri, Top.loc)
      BY <2>2 DEF Open
    <3>2. BaseIn(doc, Top.loc) = uri
      BY <1>2, <1>6, <2>2 DEF Own, Schema
    <3> HIDE DEF uri
    <3>3. ResourceBases(doc, resources)
      BY Types
    <3>4. ResourceBases(doc, resources')
      BY <2>2, <3>1, <3>2, <3>3 DEF ResourceBases, Put, Schema
    <3> QED BY <3>1, <3>2, <3>4
  <2> QED BY <2>1, <2>2
<1>8. NodeBases(doc, nodes')
  BY <1>1, Types
<1> QED BY <1>1, <1>3, <1>4, <1>5, <1>7, <1>8, SetTopBase

\* A call for a subschema that lies directly in this one.
LEMMA SubcallBase ==
  ASSUME IInv, BaseInv, Compiling, stack # <<>>, Top.open, NEW path \in Path, Direct(doc, Top.loc, path),
         Top.loc \o path \in DOMAIN doc, Calls(Top.loc \o path),
         UNCHANGED <<doc, pc, result, baseUri, nodes, anchors, resources, pending, linkVars>>
  PROVE  BaseInv'
<1> DEFINE loc == Top.loc \o path
           f == Frame(loc)
<1>1. /\ Top.loc \in Path /\ baseUri = BaseIn(doc, Top.loc)
  BY TopBase
<1>2. f \in FrameType /\ f.loc = loc /\ f.outer = baseUri /\ ~f.open /\ f.defs = <<>> /\ f.keywords = <<>>
  <2>1. f \in FrameType
    BY NewFrameOK, 0 \in Nat
  <2> QED BY <2>1 DEF Frame
<1>3. BaseIn(doc, loc) = Own(doc, loc, baseUri)
  BY <1>1, BaseWithin
<1>4. stack' = Append(stack, f)
  BY DEF Calls
<1> HIDE DEF f, loc
<1>5. FrameBase(doc, f)
  <2>1. Len(f.defs) = 0 /\ Len(f.keywords) = 0
    BY <1>2
  <2> QED BY <1>2, <1>3, <2>1 DEF FrameBase
<1>6. StackBase(doc, stack', baseUri') /\ stack' # <<>> /\ stack'[1] = stack[1]
  BY <1>2, <1>4, <1>5, Types, BaseOfCall DEF Top
<1> QED BY <1>6, Types, CompileBase

LEMMA CallDefinitionBase ==
  ASSUME IInv, BaseInv, CallDefinition
  PROVE  BaseInv'
<1>1. /\ Compiling /\ stack # <<>> /\ Top.open /\ Top.defs # <<>>
      /\ Calls(Top.loc \o Head(Top.defs))
      /\ UNCHANGED <<doc, pc, result, baseUri, nodes, anchors, resources, pending, linkVars>>
  BY DEF CallDefinition, InDefinitions, Running
<1>2. Top.defs \in Seq(Path) /\ FrameOK(Top, Len(nodes)) /\ FrameBase(doc, Top)
  BY <1>1, TopOK, TopBase DEF FrameType
<1>3. 1 \in 1..Len(Top.defs) /\ Head(Top.defs) = Top.defs[1] /\ Top.defs[1] \in Path
  BY <1>1, <1>2, FirstAndRest
<1>4. Head(Top.defs) \in Path /\ Top.loc \o Head(Top.defs) \in DOMAIN doc /\ Direct(doc, Top.loc, Head(Top.defs))
  BY <1>2, <1>3 DEF FrameOK, FrameBase
<1> QED BY <1>1, <1>4, SubcallBase

LEMMA CallKeywordBase ==
  ASSUME IInv, BaseInv, CallKeyword
  PROVE  BaseInv'
<1>1. /\ Compiling /\ stack # <<>> /\ Top.open /\ Top.keywords # <<>>
      /\ Calls(Top.loc \o Head(Top.keywords))
      /\ UNCHANGED <<doc, pc, result, baseUri, nodes, anchors, resources, pending, linkVars>>
  BY DEF CallKeyword, AfterDefinitions, Running
<1>2. Top.keywords \in Seq(Path) /\ FrameOK(Top, Len(nodes)) /\ FrameBase(doc, Top)
  BY <1>1, TopOK, TopBase DEF FrameType
<1>3. 1 \in 1..Len(Top.keywords) /\ Head(Top.keywords) = Top.keywords[1] /\ Top.keywords[1] \in Path
  BY <1>1, <1>2, FirstAndRest
<1>4. /\ Head(Top.keywords) \in Path /\ Top.loc \o Head(Top.keywords) \in DOMAIN doc
      /\ Direct(doc, Top.loc, Head(Top.keywords))
  BY <1>2, <1>3 DEF FrameOK, FrameBase
<1> QED BY <1>1, <1>4, SubcallBase

LEMMA EndDefinitionBase ==
  ASSUME IInv, BaseInv, EndDefinition
  PROVE  BaseInv'
<1> DEFINE f == [Top EXCEPT !.defs = Tail(@)]
<1>1. /\ Compiling /\ stack # <<>> /\ Top.defs # <<>> /\ SetTop(f)
      /\ UNCHANGED <<doc, pc, baseUri, nodes, resources, pending, linkVars>>
  BY DEF EndDefinition
<1>2. /\ Top \in FrameType /\ FrameBase(doc, Top)
      /\ baseUri = IF Top.open THEN BaseIn(doc, Top.loc) ELSE Top.outer
  BY <1>1, TopBase
<1>3. /\ Tail(Top.defs) \in Seq(Path)
      /\ \A k \in 1..Len(Tail(Top.defs)) : Direct(doc, Top.loc, Tail(Top.defs)[k])
  <2>1. Top.defs \in Seq(Path)
    BY <1>2 DEF FrameType
  <2> QED BY <1>1, <1>2, <2>1, FirstAndRest DEF FrameBase
<1>4. f \in FrameType
  BY <1>2, <1>3 DEF FrameType
<1>5. /\ f.loc = Top.loc /\ f.outer = Top.outer /\ f.open = Top.open
      /\ f.defs = Tail(Top.defs) /\ f.keywords = Top.keywords
  BY <1>2 DEF FrameType
<1> HIDE DEF f
<1>6. \A k \in 1..Len(f.keywords) : Direct(doc, f.loc, f.keywords[k])
  BY <1>2, <1>5 DEF FrameBase
<1>7. baseUri' = IF f.open THEN BaseIn(doc, f.loc) ELSE f.outer
  BY <1>1, <1>2, <1>5
<1> QED BY <1>1, <1>3, <1>4, <1>5, <1>6, <1>7, Types, SetTopBase

LEMMA EndKeywordBase ==
  ASSUME IInv, BaseInv, EndKeyword
  PROVE  BaseInv'
<1> DEFINE f == [Top EXCEPT !.keywords = Tail(@), !.children = Append(@, result)]
<1>1. /\ Compiling /\ stack # <<>> /\ Top.keywords # <<>> /\ result > 0 /\ SetTop(f)
      /\ UNCHANGED <<doc, pc, baseUri, nodes, resources, pending, linkVars>>
  BY DEF EndKeyword
<1>2. /\ Top \in FrameType /\ FrameBase(doc, Top)
      /\ baseUri = IF Top.open THEN BaseIn(doc, Top.loc) ELSE Top.outer
  BY <1>1, TopBase
<1>3. /\ Tail(Top.keywords) \in Seq(Path)
      /\ \A k \in 1..Len(Tail(Top.keywords)) : Direct(doc, Top.loc, Tail(Top.keywords)[k])
  <2>1. Top.keywords \in Seq(Path)
    BY <1>2 DEF FrameType
  <2> QED BY <1>1, <1>2, <2>1, FirstAndRest DEF FrameBase
<1>4. f \in FrameType
  <2>1. Append(Top.children, result) \in Seq(Nat)
    <3>1. result \in Nat
      BY <1>1 DEF IInv, NodesOK, ResultOK
    <3> QED BY <1>2, <3>1 DEF FrameType
  <2> QED BY <1>2, <1>3, <2>1 DEF FrameType
<1>5. /\ f.loc = Top.loc /\ f.outer = Top.outer /\ f.open = Top.open
      /\ f.defs = Top.defs /\ f.keywords = Tail(Top.keywords)
  BY <1>2 DEF FrameType
<1> HIDE DEF f
<1>6. \A k \in 1..Len(f.defs) : Direct(doc, f.loc, f.defs[k])
  BY <1>2, <1>5 DEF FrameBase
<1>7. baseUri' = IF f.open THEN BaseIn(doc, f.loc) ELSE f.outer
  BY <1>1, <1>2, <1>5
<1> QED BY <1>1, <1>3, <1>4, <1>5, <1>6, <1>7, Types, SetTopBase

LEMMA AddRefsBase ==
  ASSUME IInv, BaseInv, AddRefs
  PROVE  BaseInv'
<1> DEFINE r == RefNode(0)
           d == DynamicRefNode(0)
           front == IF HasRef THEN <<r>> ELSE <<>>
           back == IF HasDynamicRef THEN <<d>> ELSE <<>>
           added == front \o back
           children == [k \in 1..Len(added) |-> Len(nodes) + k]
           f == [Top EXCEPT !.refsAdded = TRUE, !.children = children]
<1>1. /\ Compiling /\ stack # <<>> /\ Top.open /\ nodes' = nodes \o added /\ SetTop(f)
      /\ UNCHANGED <<doc, pc, result, baseUri, anchors, resources, pending, linkVars>>
  BY DEF AddRefs, AfterDefinitions, Running
<1>2. NodeBase(doc, r) /\ NodeBase(doc, d)
  BY <1>1, RefNodeBase
<1> HIDE DEF r, d
<1>3. NodeBases(doc, nodes \o added) /\ Len(added) \in Nat
  <2>1. /\ front \in Seq({r, d}) /\ back \in Seq({r, d})
    <3>1. <<>> \in Seq({r, d}) /\ <<r>> \in Seq({r, d}) /\ <<d>> \in Seq({r, d})
      OBVIOUS
    <3> QED BY <3>1
  <2> HIDE DEF front, back
  <2>2. added \in Seq({r, d})
    BY <2>1
  <2> HIDE DEF added
  <2> DEFINE n == Len(nodes)
             m == Len(added)
             new == nodes \o added
  <2>3. n \in Nat /\ m \in Nat /\ Len(new) = n + m /\ NodeBases(doc, nodes)
    BY <2>2, Types
  <2>4. /\ \A k \in 1..n : new[k] = nodes[k]
        /\ \A k \in n + 1..n + m : new[k] \in {r, d}
    BY <2>2, Types
  <2>5. \A k \in 1..n : NodeBase(doc, nodes[k])
    BY <2>3 DEF NodeBases
  <2> HIDE DEF new, n, m
  <2>6. \A k \in 1..n + m : k \in 1..n \/ k \in n + 1..n + m
    BY <2>3
  <2>7. \A k \in 1..n + m : NodeBase(doc, new[k])
    BY <1>2, <2>4, <2>5, <2>6
  <2>8. NodeBases(doc, new)
    BY <2>3, <2>7 DEF NodeBases
  <2> QED BY <2>3, <2>8 DEF new, m
<1> HIDE DEF added
<1>4. /\ Top \in FrameType /\ FrameBase(doc, Top)
      /\ baseUri = IF Top.open THEN BaseIn(doc, Top.loc) ELSE Top.outer
  BY <1>1, TopBase
<1>5. children \in Seq(Nat)
  BY <1>3, Types
<1> HIDE DEF children
<1>6. f \in FrameType
  BY <1>4, <1>5 DEF FrameType
<1>7. /\ f.loc = Top.loc /\ f.outer = Top.outer /\ f.open = Top.open
      /\ f.defs = Top.defs /\ f.keywords = Top.keywords
  BY <1>4 DEF FrameType
<1> HIDE DEF f
<1>8. /\ \A k \in 1..Len(f.defs) : Direct(doc, f.loc, f.defs[k])
      /\ \A k \in 1..Len(f.keywords) : Direct(doc, f.loc, f.keywords[k])
  BY <1>4, <1>7 DEF FrameBase
<1>9. baseUri' = IF f.open THEN BaseIn(doc, f.loc) ELSE f.outer
  BY <1>1, <1>4, <1>7
<1> QED BY <1>1, <1>3, <1>6, <1>7, <1>8, <1>9, Types, SetTopBase

\* Links, and the resource of a reference, are no part of what a node's base
\* URI depends on.
LEMMA LinkBase ==
  ASSUME NEW d, NEW ns, NodesOK(ns), NodeBases(d, ns), NEW n \in 1..Len(ns), NEW t \in 0..Len(ns)
  PROVE  /\ NodeBases(d, [ns EXCEPT ![n].target = t])
         /\ NodeBases(d, [ns EXCEPT ![n].self = t])
<1>1. ns \in Seq(NodeType) /\ ns[n] \in NodeType /\ NodeBase(d, ns[n]) /\ Len(ns) \in Nat
  BY DEF NodesOK, NodeBases
<1>2. ASSUME NEW node, NodeBase(d, node)
      PROVE  NodeBases(d, [ns EXCEPT ![n] = node])
  <2>1. /\ Len([ns EXCEPT ![n] = node]) = Len(ns)
        /\ \A k \in 1..Len(ns) : [ns EXCEPT ![n] = node][k] = IF k = n THEN node ELSE ns[k]
    BY <1>1
  <2> QED BY <1>2, <2>1 DEF NodeBases
<1>3. NodeBase(d, [ns[n] EXCEPT !.target = t])
  <2> DEFINE node == [ns[n] EXCEPT !.target = t]
  <2>1. node.kind = ns[n].kind /\ node.ref = ns[n].ref /\ node.loc = ns[n].loc /\ node.base = ns[n].base
    BY <1>1 DEF NodeType
  <2> HIDE DEF node
  <2>2. NodeBase(d, node)
    BY <1>1, <2>1 DEF NodeBase
  <2> QED BY <2>2 DEF node
<1>4. NodeBase(d, [ns[n] EXCEPT !.self = t])
  <2> DEFINE node == [ns[n] EXCEPT !.self = t]
  <2>1. node.kind = ns[n].kind /\ node.ref = ns[n].ref /\ node.loc = ns[n].loc /\ node.base = ns[n].base
    BY <1>1 DEF NodeType
  <2> HIDE DEF node
  <2>2. NodeBase(d, node)
    BY <1>1, <2>1 DEF NodeBase
  <2> QED BY <2>2 DEF node
<1>5. /\ [ns EXCEPT ![n].target = t] = [ns EXCEPT ![n] = [ns[n] EXCEPT !.target = t]]
      /\ [ns EXCEPT ![n].self = t] = [ns EXCEPT ![n] = [ns[n] EXCEPT !.self = t]]
  OBVIOUS
<1> QED BY <1>2, <1>3, <1>4, <1>5

\* A step of the passes, which compiles nothing.
LEMMA PassBase ==
  ASSUME IInv, BaseInv, ~Compiling, ~Compiling', NodeBases(doc, nodes'),
         UNCHANGED <<doc, stack, baseUri, resources>>,
         pc' \in {"pass", "resolve"} => pc \in {"pass", "resolve"}
  PROVE  BaseInv'
<1>1. LoopBase'
  BY DEF BaseInv, LoopBase, Compiling
<1>2. StackBase(doc', stack', baseUri') /\ ResourceBases(doc', resources') /\ NodeBases(doc', nodes')
  BY Types
<1> QED BY <1>1, <1>2 DEF BaseInv

LEMMA BeginPassBase ==
  ASSUME IInv, BaseInv, BeginPass
  PROVE  BaseInv'
BY Types, PassBase DEF BeginPass, Compiling

LEMMA SkipBase ==
  ASSUME IInv, BaseInv, Skip
  PROVE  BaseInv'
BY Types, PassBase DEF Skip, AtNode, Compiling

LEMMA EndPassBase ==
  ASSUME IInv, BaseInv, EndPass
  PROVE  BaseInv'
BY Types, PassBase DEF EndPass, Compiling

LEMMA CheckPolicyBase ==
  ASSUME IInv, BaseInv, CheckPolicy
  PROVE  BaseInv'
<1>1. pc = "linked" /\ pc' \in {"failed", "scopes"} /\ UNCHANGED <<doc, stack, baseUri, resources, nodes>>
  BY DEF CheckPolicy
<1> QED BY <1>1, Types, PassBase DEF Compiling

LEMMA BuildScopesBase ==
  ASSUME IInv, BaseInv, BuildScopes
  PROVE  BaseInv'
BY Types, PassBase DEF BuildScopes, Compiling

LEMMA TreeCompiledBase ==
  ASSUME IInv, BaseInv, TreeCompiled
  PROVE  BaseInv'
<1>1. /\ pc = "tree" /\ stack = <<>> /\ pc' \in {"failed", "pass"}
      /\ UNCHANGED <<doc, stack, baseUri, resources, nodes>>
  BY DEF TreeCompiled
<1>2. LoopBase'
  BY <1>1 DEF BaseInv, LoopBase, Compiling
<1>3. StackBase(doc', stack', baseUri') /\ ResourceBases(doc', resources') /\ NodeBases(doc', nodes')
  BY <1>1, Types
<1> QED BY <1>2, <1>3 DEF BaseInv

LEMMA LinkStepBase ==
  ASSUME IInv, BaseInv, Link
  PROVE  BaseInv'
<1> DEFINE t == IF Early # Unresolved THEN Early ELSE Lookup(KeysAfter(Located))
<1>1. /\ AtNode /\ pc = "resolve" /\ i =< end
      /\ nodes' = [nodes EXCEPT ![i].target = t]
      /\ UNCHANGED <<doc, pc, stack, baseUri, resources>>
  BY DEF Link, LinkTo, AtNode
<1>2. NodesOK(nodes) /\ i \in 1..Len(nodes) /\ Node \in NodeType
  BY <1>1, AtNodeOK
<1>3. t \in 0..Len(nodes)
  <2>1. Early \in 0..Len(nodes)
    BY <1>1, EarlyOK
  <2>2. Lookup(KeysAfter(Located)) \in 0..Len(nodes)
    <3>1. <<>> \in Uri
      BY DEF Uri
    <3>2. Located \in Uri
      BY <1>2, <3>1, KeysOK
    <3> QED BY <1>2, <3>2, KeysOK, LookupOK
  <2> QED BY <2>1, <2>2
<1> HIDE DEF t
<1>4. NodeBases(doc, nodes')
  BY <1>1, <1>2, <1>3, Types, LinkBase
<1> QED BY <1>1, <1>4, PassBase DEF Compiling

\* The schema that a pointer leads to lies directly in the resource that the
\* pointer starts from, whose base URI is put in force.
LEMMA CompileTargetBase ==
  ASSUME IInv, BaseInv, PointersStay, CompileTarget
  PROVE  BaseInv'
<1> DEFINE f == [Frame(Place) EXCEPT !.outer = baseUri']
           root == IF Node.ref.uri = <<>> THEN <<>> ELSE resources[Located]
<1>1. /\ AtNode /\ pc = "resolve" /\ i =< end /\ Place \in DOMAIN doc /\ pc' = "compile" /\ stack' = <<f>>
      /\ Node.ref.part = "pointer" /\ Node.ref.path # <<>>
      /\ Node.kind \in {"ref", "dynamicRef"}
      /\ Node.ref.uri = <<>> \/ Located \in DOMAIN resources
      /\ Place = root \o Node.ref.path
      /\ UNCHANGED <<doc, nodes, resources>>
  BY DEF CompileTarget, AtNode, IsPointer, HasPlace, IsOpen, Place
<1>2. /\ via'.saved = baseUri
      /\ baseUri' = IF Node.ref.uri = <<>> THEN baseUri ELSE Located
  BY DEF CompileTarget
<1>3. /\ NodeBase(doc, Node) /\ Node \in NodeType /\ baseUri = <<>> /\ doc \in Docs
      /\ ResourceBases(doc, resources) /\ ResourcesOK /\ Len(nodes) \in Nat
  <2>1. NodeBase(doc, Node)
    BY <1>1, AtNodeOK, Types DEF NodeBases, Node
  <2>2. baseUri = <<>>
    BY <1>1 DEF BaseInv, LoopBase
  <2> QED BY <1>1, <2>1, <2>2, AtNodeOK, Types DEF IInv
<1>4. PICK ref \in {doc[Node.loc].ref, doc[Node.loc].dynamicRef} : Node.ref = Qualified(ref, Node.base)
  BY <1>1, <1>3 DEF NodeBase
<1>5. Node.loc \in DOMAIN doc /\ Node.loc \in Path /\ ref \in RefType /\ Node.base = BaseIn(doc, Node.loc)
  <2>1. Node.loc \in DOMAIN doc /\ Node.base = BaseIn(doc, Node.loc)
    BY <1>3 DEF NodeBase
  <2> QED BY <1>3, <1>4, <2>1, DocsAssumption DEF SchemaType
<1>6. ref.part = "pointer" /\ ref.path = Node.ref.path /\ ref.path # <<>> /\ ref.path \in Path
  <2>1. Node.ref.part = ref.part /\ Node.ref.path = ref.path
    BY <1>4, <1>5 DEF Qualified, RefType
  <2> QED BY <1>1, <1>5, <2>1 DEF RefType
<1>7. Node.ref.uri = <<>> => Node.base = <<>>
  BY <1>4, <1>5, <1>6 DEF Qualified, RefType
<1>8. /\ root \in DOMAIN doc /\ root \in Path
      /\ root = <<>> \/ doc[root].id # <<>>
      /\ BaseIn(doc, root) = baseUri'
  <2>1. CASE Node.ref.uri = <<>>
    <3>1. root = <<>> /\ baseUri' = <<>> /\ BaseIn(doc, Node.loc) = <<>>
      BY <1>2, <1>3, <1>5, <1>7, <2>1
    <3>2. BaseIn(doc, <<>>) = <<>>
      BY <1>3, <1>5, <3>1, BaseType
    <3> QED BY <1>3, <3>1, <3>2, DocsAssumption
  <2>2. CASE Node.ref.uri # <<>>
    <3>1. root = resources[Located] /\ Located \in DOMAIN resources /\ baseUri' = Located
      BY <1>1, <1>2, <2>2
    <3>2. root \in DOMAIN doc
      BY <1>3, <3>1 DEF ResourcesOK
    <3>3. BaseIn(doc, root) = Located /\ doc[root].id # <<>>
      BY <1>3, <3>1 DEF ResourceBases
    <3> HIDE DEF root
    <3> QED BY <1>3, <3>1, <3>2, <3>3, DocsAssumption
  <2> QED BY <2>1, <2>2
<1> HIDE DEF root
<1>9. Direct(doc, root, ref.path)
  BY <1>1, <1>3, <1>4, <1>5, <1>6, <1>8 DEF PointersStay
<1>10. BaseIn(doc, Place) = Own(doc, Place, baseUri')
  BY <1>1, <1>6, <1>8, <1>9, BaseWithin
<1>11. /\ f.loc = Place /\ f.outer = baseUri' /\ ~f.open /\ Len(f.defs) = 0 /\ Len(f.keywords) = 0
  <2>1. Frame(Place) \in FrameType
    BY <1>1, <1>3, NewFrameOK
  <2>2. /\ f.loc = Frame(Place).loc /\ f.outer = baseUri' /\ f.open = Frame(Place).open
        /\ f.defs = Frame(Place).defs /\ f.keywords = Frame(Place).keywords
    BY <2>1 DEF FrameType
  <2> HIDE DEF f
  <2> QED BY <2>2 DEF Frame
<1> HIDE DEF f
<1>12. FrameBase(doc, f)
  BY <1>10, <1>11 DEF FrameBase
<1>13. StackBase(doc, stack', baseUri')
  <2>1. Len(stack') = 1 /\ stack'[1] = f
    BY <1>1
  <2> QED BY <1>11, <1>12, <2>1 DEF StackBase
<1>14. LoopBase'
  BY <1>1, <1>2, <1>3 DEF LoopBase, Compiling
<1>15. ResourceBases(doc', resources') /\ NodeBases(doc', nodes') /\ doc' = doc
  BY <1>1, Types
<1> QED BY <1>13, <1>14, <1>15 DEF BaseInv

LEMMA TargetCompiledBase ==
  ASSUME IInv, BaseInv, TargetCompiled
  PROVE  BaseInv'
<1>1. /\ pc = "compile" /\ stack = <<>> /\ pc' = "resolve" /\ baseUri' = via.saved
      /\ UNCHANGED <<doc, stack, resources, via>>
  BY DEF TargetCompiled
<1>2. /\ LoopOK /\ i =< end /\ result \in -1..Len(nodes) /\ result # 0
      /\ via.uri \in Uri /\ MapOK(anchors, Len(nodes))
  BY <1>1 DEF IInv, LoopOK, ResultOK, Compiling, Nothing
<1>3. NodesOK(nodes) /\ Len(nodes) \in Nat /\ i \in 1..Len(nodes) /\ Node \in NodeType /\ NodeBases(doc, nodes)
  BY <1>1, <1>2, AtNodeOK, Types
<1>4. NodeBases(doc, nodes')
  <2>1. CASE result = Failed
    <3>1. Lookup(KeysAfter(via.uri)) \in 0..Len(nodes)
      BY <1>2, <1>3, KeysOK, LookupOK
    <3> QED BY <1>3, <2>1, <3>1, LinkBase DEF TargetCompiled
  <2>2. CASE result # Failed
    <3>1. result \in 1..Len(nodes)
      BY <1>2, <1>3, <2>2 DEF Failed
    <3>2. NodesOK(Owned) /\ Len(Owned) = Len(nodes) /\ NodeBases(doc, Owned)
      <4>1. CASE UriKey(via.uri) \in DOMAIN anchors
        <5>1. anchors[UriKey(via.uri)] \in 0..Len(nodes)
          BY <1>2, <1>3, <4>1 DEF MapOK
        <5> QED BY <1>3, <3>1, <5>1, SelfOK, LinkBase DEF Owned
      <4>2. CASE UriKey(via.uri) \notin DOMAIN anchors
        BY <1>3, <4>2 DEF Owned
      <4> QED BY <4>1, <4>2
    <3>3. i \in 1..Len(Owned) /\ result \in 0..Len(Owned)
      BY <1>3, <3>1, <3>2
    <3>4. nodes' = [Owned EXCEPT ![i].target = result]
      BY <2>2 DEF TargetCompiled
    <3> QED BY <3>2, <3>3, <3>4, LinkBase
  <2> QED BY <2>1, <2>2
<1>5. baseUri' = <<>>
  BY <1>1 DEF BaseInv, LoopBase
<1>6. LoopBase'
  BY <1>1, <1>5 DEF LoopBase, Compiling
<1>7. StackBase(doc', stack', baseUri') /\ ResourceBases(doc', resources') /\ NodeBases(doc', nodes')
  <2>1. Len(stack') = 0
    BY <1>1
  <2>2. StackBase(doc', stack', baseUri')
    BY <2>1 DEF StackBase
  <2> QED BY <1>1, <1>4, <2>2, Types
<1> QED BY <1>6, <1>7 DEF BaseInv

LEMMA InitBase ==
  ASSUME Init
  PROVE  BaseInv
<1> DEFINE f == Frame(<<>>)
<1>1. f.loc = <<>> /\ f.outer = <<>> /\ ~f.open /\ Len(f.defs) = 0 /\ Len(f.keywords) = 0
  BY DEF Init, Frame
<1>2. stack = <<f>> /\ baseUri = <<>> /\ pc = "tree"
  BY DEF Init
<1> HIDE DEF f
<1>3. FrameBase(doc, f)
  BY <1>1, BaseOfRoot DEF FrameBase
<1>4. StackBase(doc, stack, baseUri)
  BY <1>1, <1>2, <1>3 DEF StackBase
<1>5. LoopBase
  BY <1>1, <1>2 DEF LoopBase, Compiling
<1>6. ResourceBases(doc, resources) /\ NodeBases(doc, nodes)
  BY DEF Init, ResourceBases, NodeBases
<1> QED BY <1>4, <1>5, <1>6 DEF BaseInv

LEMMA NextBase ==
  ASSUME NestedDirectly, PointersStay, IInv, BaseInv, [Next]_vars
  PROVE  BaseInv'
<1>1. CASE Compile
  BY <1>1, CompileLeafBase, OpenBase, CallDefinitionBase, EndDefinitionBase, PropagateBase,
     CompileOnlyRefBase, AddRefsBase, CallKeywordBase, EndKeywordBase, CompileObjectBase,
     TreeCompiledBase DEF Compile
<1>2. CASE Resolution
  BY <1>2, BeginPassBase, SkipBase, LinkStepBase, CompileTargetBase, TargetCompiledBase, EndPassBase,
     CheckPolicyBase, BuildScopesBase DEF Resolution
<1>3. CASE UNCHANGED vars
  <2>1. UNCHANGED <<doc, pc, stack, baseUri, nodes, resources, via>>
    BY <1>3 DEF vars, linkVars
  <2> QED BY <2>1 DEF BaseInv, LoopBase, Compiling
<1> QED BY <1>1, <1>2, <1>3 DEF Next

\* Whatever the document, if its schemas list their own subschemas and no pointer
\* leads into a resource embedded in another: every node is compiled under the
\* base URI of its place, however often and from wherever it is compiled.
THEOREM BasesAreLexical == NestedDirectly /\ PointersStay /\ Spec => []BaseIsLexical
<1> SUFFICES ASSUME NestedDirectly, PointersStay PROVE Spec => []BaseIsLexical
  OBVIOUS
<1>1. BaseInv => BaseIsLexical
  BY DEF BaseInv, NodeBases, NodeBase, BaseIsLexical, LexicalBase, Index
<1>2. Init => BaseInv
  BY InitBase
<1>3. IInv /\ BaseInv /\ [Next]_vars => BaseInv'
  BY NextBase
<1> QED BY <1>1, <1>2, <1>3, Inductive, PTL DEF Spec

-----------------------------------------------------------------------------
(* What a document must be for its resources to be told apart *)

ResourceRoots(d) == {q \in DOMAIN d : d[q].id # <<>>}

\* No two resources have the same URI.
DistinctResources ==
  \A d \in Docs : \A q, r \in ResourceRoots(d) : BaseIn(d, q) = BaseIn(d, r) => q = r

\* The URI of a resource is no other's unresolved $id, and no name of an anchor.
DistinctKeys ==
  \A d \in Docs : \A q \in ResourceRoots(d), loc \in DOMAIN d :
    /\ d[loc].id = BaseIn(d, q) => BaseIn(d, loc) = BaseIn(d, q)
    /\ BaseIn(d, q) \notin {<<d[loc].anchor>>, <<d[loc].dynamicAnchor>>}

\* A resource has at most one dynamic anchor of a name.
DistinctAnchors ==
  \A d \in Docs : \A q, r \in DOMAIN d :
    /\ d[q].dynamicAnchor # "" /\ d[q].dynamicAnchor = d[r].dynamicAnchor
    /\ BaseIn(d, q) = BaseIn(d, r)
    => q = r

\* All that keywords and pointers lead to is a schema.
OnlySchemas == \A d \in Docs : \A loc \in DOMAIN d : d[loc].kind # "malformed"

-----------------------------------------------------------------------------
(* The invariant behind the scopes *)

\* No call fails, and the first one compiles the root.
RootFound ==
  /\ result # Failed
  /\ pc = "tree" => IF stack = <<>> THEN nodes[result].loc = <<>> ELSE stack[1].loc = <<>>
  /\ pc \notin {"tree", "failed"} => nodes[rootIndex].loc = <<>>

\* The key of a resource's URI leads to a node of that resource's root.
RegisteredAt(d, ns, as) ==
  \A q \in ResourceRoots(d) :
    UriKey(BaseIn(d, q)) \in DOMAIN as =>
      LET loc == ns[as[UriKey(BaseIn(d, q))]].loc
      IN d[loc].id # <<>> /\ BaseIn(d, loc) = BaseIn(d, q)

\* A base URI is a key of the table, or will be when the call for its resource
\* returns.
Known(d, as, st, uri) ==
  \/ uri = <<>>
  \/ UriKey(uri) \in DOMAIN as
  \/ \E k \in 1..Len(st) : st[k].open /\ d[st[k].loc].id # <<>> /\ BaseIn(d, st[k].loc) = uri
AllKnown(d, as, st, ns, rs, current) ==
  /\ \A n \in 1..Len(ns) : Known(d, as, st, ns[n].base)
  /\ \A uri \in DOMAIN rs : Known(d, as, st, uri)
  /\ \A k \in 1..Len(st) : Known(d, as, st, st[k].outer)
  /\ Known(d, as, st, current)

PendingAt(d, ns, ps) ==
  \A k \in 1..Len(ps) :
    /\ ps[k].uri = ns[ps[k].node].base
    /\ ps[k].name = d[ns[ps[k].node].loc].dynamicAnchor
    /\ ps[k].name # ""

ScopeInv ==
  /\ RootFound
  /\ RegisteredAt(doc, nodes, anchors)
  /\ AllKnown(doc, anchors, stack, nodes, resources, baseUri)
  /\ PendingAt(doc, nodes, pending)

\* Nodes keep their places.
SamePlaces(ns, ms) ==
  /\ Len(ns) =< Len(ms)
  /\ \A n \in 1..Len(ns) : ms[n].loc = ns[n].loc /\ ms[n].base = ns[n].base

-----------------------------------------------------------------------------
(* Its parts after a step *)

\* What is known stays known, if the calls for resources go on or are registered.
LEMMA StaysKnown ==
  ASSUME NEW d, NEW as, NEW bs, DOMAIN as \subseteq DOMAIN bs, NEW st, NEW su,
         \A k \in 1..Len(st) : st[k].open /\ d[st[k].loc].id # <<>> =>
           \/ UriKey(BaseIn(d, st[k].loc)) \in DOMAIN bs
           \/ \E m \in 1..Len(su) : su[m].open /\ su[m].loc = st[k].loc
  PROVE  \A uri : Known(d, as, st, uri) => Known(d, bs, su, uri)
<1> SUFFICES ASSUME NEW uri, Known(d, as, st, uri) PROVE Known(d, bs, su, uri)
  OBVIOUS
<1>1. CASE uri = <<>> \/ UriKey(uri) \in DOMAIN as
  BY <1>1 DEF Known
<1>2. CASE \E k \in 1..Len(st) : st[k].open /\ d[st[k].loc].id # <<>> /\ BaseIn(d, st[k].loc) = uri
  <2>1. PICK k \in 1..Len(st) : st[k].open /\ d[st[k].loc].id # <<>> /\ BaseIn(d, st[k].loc) = uri
    BY <1>2
  <2>2. CASE UriKey(BaseIn(d, st[k].loc)) \in DOMAIN bs
    BY <2>1, <2>2 DEF Known
  <2>3. CASE \E m \in 1..Len(su) : su[m].open /\ su[m].loc = st[k].loc
    <3>1. PICK m \in 1..Len(su) : su[m].open /\ su[m].loc = st[k].loc
      BY <2>3
    <3>2. su[m].open /\ d[su[m].loc].id # <<>> /\ BaseIn(d, su[m].loc) = uri
      BY <2>1, <3>1
    <3> QED BY <3>2 DEF Known
  <2> QED BY <2>1, <2>2, <2>3
<1> QED BY <1>1, <1>2 DEF Known

\* The running call is changed.
LEMMA SetTopKnown ==
  ASSUME NEW d, NEW as, NEW bs, DOMAIN as \subseteq DOMAIN bs,
         NEW st \in Seq(FrameType), st # <<>>, NEW f, f.loc = st[Len(st)].loc,
         st[Len(st)].open => f.open
  PROVE  \A uri : Known(d, as, st, uri) => Known(d, bs, [st EXCEPT ![Len(st)] = f], uri)
<1> DEFINE n == Len(st)
           su == [st EXCEPT ![n] = f]
<1>1. Len(su) = n /\ \A k \in 1..n : su[k] = IF k = n THEN f ELSE st[k]
  OBVIOUS
<1>2. f.loc = st[n].loc /\ (st[n].open => f.open)
  OBVIOUS
<1> HIDE DEF su, n
<1>3. \A k \in 1..n : st[k].open => su[k].open /\ su[k].loc = st[k].loc
  BY <1>1, <1>2
<1>4. \A k \in 1..n : st[k].open => \E m \in 1..Len(su) : su[m].open /\ su[m].loc = st[k].loc
  BY <1>1, <1>3
<1>5. \A uri : Known(d, as, st, uri) => Known(d, bs, su, uri)
  BY <1>4, StaysKnown DEF n
<1> QED BY <1>5 DEF su, n

\* It calls for a subschema.
LEMMA CallKnown ==
  ASSUME NEW d, NEW as, NEW st \in Seq(FrameType), NEW f
  PROVE  \A uri : Known(d, as, st, uri) => Known(d, as, Append(st, f), uri)
<1> DEFINE n == Len(st)
           su == Append(st, f)
<1>1. n \in Nat /\ Len(su) = n + 1 /\ \A k \in 1..n : su[k] = st[k]
  OBVIOUS
<1> HIDE DEF su
<1>2. \A k \in 1..n : k \in 1..Len(su) /\ su[k] = st[k]
  BY <1>1
<1>3. \A uri : Known(d, as, st, uri) => Known(d, as, su, uri)
  BY <1>2, StaysKnown
<1> QED BY <1>3 DEF su

\* It returns, and its resource is registered.
LEMMA ReturnKnown ==
  ASSUME NEW d, NEW as, NEW bs, DOMAIN as \subseteq DOMAIN bs,
         NEW st \in Seq(FrameType), st # <<>>,
         st[Len(st)].open /\ d[st[Len(st)].loc].id # <<>> => UriKey(BaseIn(d, st[Len(st)].loc)) \in DOMAIN bs
  PROVE  \A uri : Known(d, as, st, uri) => Known(d, bs, Front(st), uri)
<1> DEFINE n == Len(st)
           su == Front(st)
<1>1. n \in Nat /\ n > 0
  OBVIOUS
<1>2. Len(su) = n - 1 /\ \A k \in 1..n - 1 : su[k] = st[k]
  <2>1. su = SubSeq(st, 1, n - 1)
    BY DEF Front
  <2>2. \A k \in 1..n - 1 : st[k] \in FrameType
    OBVIOUS
  <2> HIDE DEF n, su
  <2>3. /\ Len(SubSeq(st, 1, n - 1)) = IF 1 <= n - 1 THEN n - 1 - 1 + 1 ELSE 0
        /\ \A k \in 1..n - 1 - 1 + 1 : SubSeq(st, 1, n - 1)[k] = st[1 + k - 1]
    BY <1>1, <2>2, SubSeqProperties
  <2>4. \A k \in 1..n - 1 : SubSeq(st, 1, n - 1)[k] = st[k]
    BY <1>1, <2>3
  <2>5. Len(SubSeq(st, 1, n - 1)) = n - 1
    BY <1>1, <2>3
  <2> QED BY <2>1, <2>4, <2>5
<1>3. st[n].open /\ d[st[n].loc].id # <<>> => UriKey(BaseIn(d, st[n].loc)) \in DOMAIN bs
  OBVIOUS
<1> HIDE DEF su, n
<1>4. \A k \in 1..n : k = n \/ k \in 1..n - 1
  BY <1>1
<1>5. ASSUME NEW k \in 1..n, st[k].open, d[st[k].loc].id # <<>>
      PROVE  \/ UriKey(BaseIn(d, st[k].loc)) \in DOMAIN bs
             \/ \E m \in 1..Len(su) : su[m].open /\ su[m].loc = st[k].loc
  <2>1. CASE k = n
    BY <1>3, <1>5, <2>1
  <2>2. CASE k \in 1..n - 1
    BY <1>2, <1>5, <2>2
  <2> QED BY <1>4, <2>1, <2>2
<1>6. \A uri : Known(d, as, st, uri) => Known(d, bs, su, uri)
  BY <1>5, StaysKnown DEF n
<1> QED BY <1>6 DEF su

\* Nodes that are added at the end, or of which a link is changed.
LEMMA AppendPlaces ==
  ASSUME NEW ns \in Seq(NodeType), NEW node
  PROVE  SamePlaces(ns, Append(ns, node)) /\ SamePlaces(ns, ns)
BY DEF SamePlaces

\* A node is replaced by one at the same place.
LEMMA ReplacePlaces ==
  ASSUME NEW ns \in Seq(NodeType), NEW n \in 1..Len(ns), NEW node, node.loc = ns[n].loc, node.base = ns[n].base
  PROVE  SamePlaces(ns, [ns EXCEPT ![n] = node]) /\ Len([ns EXCEPT ![n] = node]) = Len(ns)
<1>1. /\ Len([ns EXCEPT ![n] = node]) = Len(ns)
      /\ \A k \in 1..Len(ns) : [ns EXCEPT ![n] = node][k] = IF k = n THEN node ELSE ns[k]
  OBVIOUS
<1> QED BY <1>1 DEF SamePlaces

\* It is linked.
LEMMA TargetPlaces ==
  ASSUME NEW ns, NodesOK(ns), NEW n \in 1..Len(ns), NEW t \in 0..Len(ns)
  PROVE  /\ SamePlaces(ns, [ns EXCEPT ![n].target = t])
         /\ Len([ns EXCEPT ![n].target = t]) = Len(ns)
<1> DEFINE node == [ns[n] EXCEPT !.target = t]
<1>1. ns \in Seq(NodeType) /\ ns[n] \in NodeType
  BY DEF NodesOK
<1>2. node.loc = ns[n].loc /\ node.base = ns[n].base
  BY <1>1 DEF NodeType
<1>3. [ns EXCEPT ![n].target = t] = [ns EXCEPT ![n] = node]
  OBVIOUS
<1> HIDE DEF node
<1> QED BY <1>1, <1>2, <1>3, ReplacePlaces

\* It is given to a resource.
LEMMA SelfPlaces ==
  ASSUME NEW ns, NodesOK(ns), NEW n \in 1..Len(ns), NEW t \in 0..Len(ns)
  PROVE  /\ SamePlaces(ns, [ns EXCEPT ![n].self = t])
         /\ Len([ns EXCEPT ![n].self = t]) = Len(ns)
<1> DEFINE node == [ns[n] EXCEPT !.self = t]
<1>1. ns \in Seq(NodeType) /\ ns[n] \in NodeType
  BY DEF NodesOK
<1>2. node.loc = ns[n].loc /\ node.base = ns[n].base
  BY <1>1 DEF NodeType
<1>3. [ns EXCEPT ![n].self = t] = [ns EXCEPT ![n] = node]
  OBVIOUS
<1> HIDE DEF node
<1> QED BY <1>1, <1>2, <1>3, ReplacePlaces

\* The entries of the tables stay right while nodes keep their places.
LEMMA RegisteredKept ==
  ASSUME NEW d, NEW ns, NEW ms, SamePlaces(ns, ms), NEW as, MapOK(as, Len(ns)), RegisteredAt(d, ns, as)
  PROVE  RegisteredAt(d, ms, as)
<1> SUFFICES ASSUME NEW q \in ResourceRoots(d), UriKey(BaseIn(d, q)) \in DOMAIN as
             PROVE  LET loc == ms[as[UriKey(BaseIn(d, q))]].loc
                    IN d[loc].id # <<>> /\ BaseIn(d, loc) = BaseIn(d, q)
  BY DEF RegisteredAt
<1> DEFINE n == as[UriKey(BaseIn(d, q))]
<1>1. n \in 1..Len(ns)
  BY DEF MapOK
<1>2. d[ns[n].loc].id # <<>> /\ BaseIn(d, ns[n].loc) = BaseIn(d, q)
  BY DEF RegisteredAt
<1>3. ms[n].loc = ns[n].loc
  BY <1>1 DEF SamePlaces
<1> QED BY <1>2, <1>3

\* Keys are added for a node that carries their URIs.
LEMMA RegisteredAdded ==
  ASSUME NEW d, NEW ns, NEW as, RegisteredAt(d, ns, as), NEW K, NEW n,
         \A q \in ResourceRoots(d) : UriKey(BaseIn(d, q)) \in K =>
           d[ns[n].loc].id # <<>> /\ BaseIn(d, ns[n].loc) = BaseIn(d, q)
  PROVE  RegisteredAt(d, ns, PutAll(as, K, n))
<1> SUFFICES ASSUME NEW q \in ResourceRoots(d), UriKey(BaseIn(d, q)) \in DOMAIN PutAll(as, K, n)
             PROVE  LET loc == ns[PutAll(as, K, n)[UriKey(BaseIn(d, q))]].loc
                    IN d[loc].id # <<>> /\ BaseIn(d, loc) = BaseIn(d, q)
  BY DEF RegisteredAt
<1> DEFINE key == UriKey(BaseIn(d, q))
<1>1. key \in DOMAIN as => d[ns[as[key]].loc].id # <<>> /\ BaseIn(d, ns[as[key]].loc) = BaseIn(d, q)
  BY DEF RegisteredAt
<1>2. key \in K => d[ns[n].loc].id # <<>> /\ BaseIn(d, ns[n].loc) = BaseIn(d, q)
  OBVIOUS
<1> HIDE DEF key
<1>3. key \in DOMAIN as \cup K /\ PutAll(as, K, n)[key] = IF key \in K THEN n ELSE as[key]
  BY DEF PutAll, key
<1> QED BY <1>1, <1>2, <1>3 DEF key

\* The anchors that wait belong to the same schemas.
LEMMA PendingKept ==
  ASSUME NEW d, NEW ns, NEW ms, SamePlaces(ns, ms), NEW ps, PendingOK(ps, Len(ns)), PendingAt(d, ns, ps)
  PROVE  PendingAt(d, ms, ps)
<1> SUFFICES ASSUME NEW k \in 1..Len(ps)
             PROVE  /\ ps[k].uri = ms[ps[k].node].base
                    /\ ps[k].name = d[ms[ps[k].node].loc].dynamicAnchor
                    /\ ps[k].name # ""
  BY DEF PendingAt
<1>1. ps[k].node \in 1..Len(ns)
  BY DEF PendingOK
<1>2. ms[ps[k].node].loc = ns[ps[k].node].loc /\ ms[ps[k].node].base = ns[ps[k].node].base
  BY <1>1 DEF SamePlaces
<1> QED BY <1>2 DEF PendingAt

\* What is known of the variables before a step.
LEMMA Before ==
  ASSUME IInv, BaseInv, ScopeInv
  PROVE  /\ nodes \in Seq(NodeType) /\ stack \in Seq(FrameType) /\ baseUri \in Uri /\ doc \in Docs
         /\ MapOK(anchors, Len(nodes)) /\ PendingOK(pending, Len(nodes)) /\ Len(nodes) \in Nat
         /\ RootFound /\ RegisteredAt(doc, nodes, anchors) /\ PendingAt(doc, nodes, pending)
         /\ \A n \in 1..Len(nodes) : Known(doc, anchors, stack, nodes[n].base)
         /\ \A uri \in DOMAIN resources : Known(doc, anchors, stack, uri)
         /\ \A k \in 1..Len(stack) : Known(doc, anchors, stack, stack[k].outer)
         /\ Known(doc, anchors, stack, baseUri)
BY Types DEF IInv, NodesOK, ScopeInv, AllKnown

\* A step of a call that does not return.
LEMMA CallScope ==
  ASSUME IInv, BaseInv, ScopeInv, Compiling, stack # <<>>,
         UNCHANGED <<doc, pc, pending, linkVars>>,
         SamePlaces(nodes, nodes'),
         \A n \in 1..Len(nodes') : n \in 1..Len(nodes) \/ nodes'[n].base = baseUri,
         RegisteredAt(doc, nodes', anchors'),
         result' # Failed, stack' # <<>>, stack'[1].loc = stack[1].loc,
         \A uri : Known(doc, anchors, stack, uri) => Known(doc, anchors', stack', uri),
         \A k \in 1..Len(stack') :
           stack'[k].outer = baseUri \/ \E m \in 1..Len(stack) : stack'[k].outer = stack[m].outer,
         Known(doc, anchors', stack', baseUri'),
         \A uri \in DOMAIN resources' : uri \in DOMAIN resources \/ uri = baseUri'
  PROVE  ScopeInv'
<1>1. RootFound'
  <2>1. RootFound /\ UNCHANGED <<pc, rootIndex>>
    BY Before DEF linkVars
  <2>2. pc \notin {"tree", "failed"} => nodes'[rootIndex].loc = <<>>
    <3>1. pc \notin {"tree", "failed"} => rootIndex \in 1..Len(nodes)
      BY DEF IInv, LoopOK, Phases, Compiling
    <3> QED BY <2>1, <3>1 DEF RootFound, SamePlaces
  <2> QED BY <2>1, <2>2 DEF RootFound
<1>2. AllKnown(doc, anchors', stack', nodes', resources', baseUri')
  <2>1. \A n \in 1..Len(nodes') : Known(doc, anchors', stack', nodes'[n].base)
    BY Before DEF SamePlaces
  <2>2. \A uri \in DOMAIN resources' : Known(doc, anchors', stack', uri)
    BY Before
  <2>3. \A k \in 1..Len(stack') : Known(doc, anchors', stack', stack'[k].outer)
    BY Before
  <2> QED BY <2>1, <2>2, <2>3 DEF AllKnown
<1>3. PendingAt(doc, nodes', pending')
  BY Before, PendingKept
<1>4. AllKnown(doc', anchors', stack', nodes', resources', baseUri')
  BY <1>2
<1> QED BY <1>1, <1>3, <1>4 DEF ScopeInv

\* A call that returns the node n it has added at the end.
LEMMA ReturnScope ==
  ASSUME IInv, BaseInv, ScopeInv, Compiling, stack # <<>>,
         UNCHANGED <<doc, pc, resources, linkVars>>,
         NEW node \in NodeType, nodes' = Append(nodes, node), node.loc = Top.loc, node.base = baseUri,
         Return(Len(nodes) + 1),
         DOMAIN anchors \subseteq DOMAIN anchors', RegisteredAt(doc, nodes', anchors'),
         PendingAt(doc, nodes', pending'),
         Top.open /\ doc[Top.loc].id # <<>> => UriKey(baseUri) \in DOMAIN anchors'
  PROVE  ScopeInv'
<1> DEFINE n == Len(nodes) + 1
<1>1. /\ stack \in Seq(FrameType) /\ nodes \in Seq(NodeType) /\ n - 1 \in Nat /\ n \in Nat
      /\ Top = stack[Len(stack)]
  BY Before DEF Top
<1>2. stack' = Front(stack) /\ result' = n /\ baseUri' = Top.outer
  BY DEF Return
<1>3. Top.open => baseUri = BaseIn(doc, Top.loc)
  BY TopBase
<1>4. \A uri : Known(doc, anchors, stack, uri) => Known(doc, anchors', stack', uri)
  BY <1>1, <1>2, <1>3, ReturnKnown
<1>5. /\ Len(nodes') = n /\ nodes'[n] = node /\ \A k \in 1..n - 1 : nodes'[k] = nodes[k]
  BY <1>1
<1>6. SamePlaces(nodes, nodes')
  BY <1>1, AppendPlaces
<1>7. /\ \A k \in 1..Len(stack') : stack'[k] = stack[k] /\ k \in 1..Len(stack)
      /\ stack' # <<>> => stack'[1] = stack[1]
      /\ stack' = <<>> => Top = stack[1]
  <2>1. /\ stack' # <<>> => stack'[1] = stack[1]
        /\ stack' = <<>> => Top = stack[1]
    BY <1>1, <1>2, Types, BaseOfReturn
  <2> DEFINE m == Len(stack)
  <2>2. m \in Nat /\ m > 0 /\ stack' = SubSeq(stack, 1, m - 1) /\ \A k \in 1..m - 1 : stack[k] \in FrameType
    BY <1>1, <1>2 DEF Front
  <2> HIDE DEF m
  <2>3. /\ Len(SubSeq(stack, 1, m - 1)) = IF 1 <= m - 1 THEN m - 1 - 1 + 1 ELSE 0
        /\ \A k \in 1..m - 1 - 1 + 1 : SubSeq(stack, 1, m - 1)[k] = stack[1 + k - 1]
    BY <2>2, SubSeqProperties
  <2>4. \A k \in 1..m - 1 : stack'[k] = stack[k]
    BY <2>2, <2>3
  <2>5. Len(stack') = m - 1
    BY <2>2, <2>3
  <2>6. \A k \in 1..m - 1 : k \in 1..m
    BY <2>2
  <2> QED BY <2>1, <2>4, <2>5, <2>6 DEF m
<1> HIDE DEF n
<1>8. RootFound'
  <2>1. RootFound /\ UNCHANGED <<pc, rootIndex>>
    BY Before DEF linkVars
  <2>2. result' # Failed
    BY <1>1, <1>2 DEF Failed
  <2>3. pc = "tree" => IF stack' = <<>> THEN nodes'[result'].loc = <<>> ELSE stack'[1].loc = <<>>
    <3>1. pc = "tree" => stack[1].loc = <<>>
      BY <2>1 DEF RootFound
    <3> QED BY <1>2, <1>5, <1>7, <3>1
  <2>4. pc \notin {"tree", "failed"} => nodes'[rootIndex].loc = <<>>
    <3>1. pc \notin {"tree", "failed"} => rootIndex \in 1..Len(nodes)
      BY DEF IInv, LoopOK, Phases, Compiling
    <3> QED BY <1>6, <2>1, <3>1 DEF RootFound, SamePlaces
  <2> QED BY <2>1, <2>2, <2>3, <2>4 DEF RootFound
<1>9. AllKnown(doc, anchors', stack', nodes', resources', baseUri')
  <2>1. \A k \in 1..n : Known(doc, anchors', stack', nodes'[k].base)
    <3>1. \A k \in 1..n : k = n \/ k \in 1..n - 1
      BY <1>1
    <3>2. \A k \in 1..n - 1 : Known(doc, anchors', stack', nodes[k].base)
      BY <1>1, <1>4, Before DEF n
    <3>3. Known(doc, anchors', stack', baseUri)
      BY <1>4, Before
    <3> QED BY <1>5, <3>1, <3>2, <3>3
  <2>2. \A uri \in DOMAIN resources' : Known(doc, anchors', stack', uri)
    BY <1>4, Before
  <2>3. \A k \in 1..Len(stack') : Known(doc, anchors', stack', stack'[k].outer)
    BY <1>4, <1>7, Before
  <2>4. Known(doc, anchors', stack', Top.outer)
    <3>1. Len(stack) \in 1..Len(stack)
      BY <1>1
    <3> QED BY <1>1, <1>4, <3>1, Before
  <2> QED BY <1>2, <1>5, <2>1, <2>2, <2>3, <2>4 DEF AllKnown
<1>10. AllKnown(doc', anchors', stack', nodes', resources', baseUri')
  BY <1>9
<1> QED BY <1>8, <1>10 DEF ScopeInv

\* The keys under which a schema is registered lead to no other resource.
LEMMA OwnKeys ==
  ASSUME IInv, BaseInv, DistinctKeys, stack # <<>>, Top.open, NEW q \in ResourceRoots(doc),
         UriKey(BaseIn(doc, q)) \in CompiledKeys
  PROVE  doc[Top.loc].id # <<>> /\ BaseIn(doc, Top.loc) = BaseIn(doc, q)
<1> DEFINE u == BaseIn(doc, q)
<1>1. doc \in Docs /\ Top.loc \in DOMAIN doc /\ baseUri = BaseIn(doc, Top.loc)
  BY TopBase DEF IInv
<1>2. /\ Schema.id = u => BaseIn(doc, Top.loc) = u
      /\ u # <<Schema.anchor>> /\ u # <<Schema.dynamicAnchor>>
  BY <1>1 DEF DistinctKeys, Schema
<1> HIDE DEF u
<1>3. \A v : UriKey(u) = UriKey(v) => u = v
  BY DEF UriKey, Reference
<1>4. \A name : UriKey(u) = ScopedKey(name, baseUri) => u = <<name>>
  BY <1>3 DEF ScopedKey, UriKey, Reference
<1>5. UriKey(u) \in IdKeys
  <2>1. UriKey(u) \notin {ScopedKey(Schema.anchor, baseUri)}
    BY <1>2, <1>4
  <2>2. UriKey(u) \notin {ScopedKey(Schema.dynamicAnchor, baseUri), UriKey(<<Schema.dynamicAnchor>>)}
    BY <1>2, <1>3, <1>4
  <2> QED BY <2>1, <2>2 DEF CompiledKeys, u
<1>6. Schema.id # <<>> /\ (u = Schema.id \/ u = baseUri)
  BY <1>3, <1>5 DEF IdKeys
<1> QED BY <1>1, <1>2, <1>6 DEF Schema, u

\* What a return with one of these sets of keys leaves in the table.
LEMMA KeysScope ==
  ASSUME IInv, BaseInv, ScopeInv, DistinctKeys, stack # <<>>, Top.open,
         NEW node, node.loc = Top.loc, NEW K, K \subseteq CompiledKeys, IdKeys \subseteq K
  PROVE  LET n == Len(nodes) + 1
             as == PutAll(anchors, K, n)
         IN /\ DOMAIN anchors \subseteq DOMAIN as
            /\ RegisteredAt(doc, Append(nodes, node), as)
            /\ doc[Top.loc].id # <<>> => UriKey(baseUri) \in DOMAIN as
<1> DEFINE n == Len(nodes) + 1
           ns == Append(nodes, node)
<1>1. SamePlaces(nodes, ns) /\ ns[n] = node
  BY Before, AppendPlaces
<1> HIDE DEF ns, n
<1>2. RegisteredAt(doc, ns, anchors)
  BY <1>1, Before, RegisteredKept
<1>3. \A q \in ResourceRoots(doc) : UriKey(BaseIn(doc, q)) \in K =>
        doc[ns[n].loc].id # <<>> /\ BaseIn(doc, ns[n].loc) = BaseIn(doc, q)
  BY <1>1, OwnKeys
<1>4. RegisteredAt(doc, ns, PutAll(anchors, K, n))
  BY <1>2, <1>3, RegisteredAdded
<1>5. doc[Top.loc].id # <<>> => UriKey(baseUri) \in DOMAIN PutAll(anchors, K, n)
  BY DEF IdKeys, Schema, PutAll
<1>6. DOMAIN anchors \subseteq DOMAIN PutAll(anchors, K, n)
  BY DEF PutAll
<1> QED BY <1>4, <1>5, <1>6 DEF ns, n

-----------------------------------------------------------------------------
(* Every step keeps the tables and what waits for them right *)

LEMMA CompileLeafScope ==
  ASSUME IInv, BaseInv, ScopeInv, OnlySchemas, CompileLeaf
  PROVE  ScopeInv'
<1> DEFINE node == NewNode("bool", NoRef, <<>>, 0)
<1>1. /\ Compiling /\ stack # <<>> /\ ~Top.open /\ Schema.kind # "object"
      /\ UNCHANGED <<doc, pc, anchors, resources, pending, linkVars>>
  BY DEF CompileLeaf, Running
<1>2. Schema.kind = "bool"
  <2>1. doc \in Docs /\ Top.loc \in DOMAIN doc /\ Schema \in SchemaType
    BY <1>1, TopBase, TopOK DEF IInv
  <2> QED BY <1>1, <2>1 DEF OnlySchemas, Schema, SchemaType
<1>3. nodes' = Append(nodes, node) /\ Return(Len(nodes) + 1)
  BY <1>2 DEF CompileLeaf
<1>4. node \in NodeType /\ node.loc = Top.loc /\ node.base = baseUri
  <2>1. NoRef \in RefType /\ <<>> \in Seq(Nat) /\ "bool" \in {"bool", "object", "ref", "dynamicRef"} /\ 0 \in Nat
    BY DEF NoRef, Reference, RefType, Uri, Path
  <2>2. node \in NodeType
    BY <1>1, <2>1, NewNodeType, Zenon
  <2> QED BY <2>2 DEF NewNode
<1> HIDE DEF node
<1>5. SamePlaces(nodes, nodes')
  BY <1>3, Before, AppendPlaces
<1>6. RegisteredAt(doc, nodes', anchors') /\ PendingAt(doc, nodes', pending')
  BY <1>1, <1>5, Before, RegisteredKept, PendingKept
<1> QED BY <1>1, <1>3, <1>4, <1>6, ReturnScope

LEMMA PropagateScope ==
  ASSUME ScopeInv, Propagate
  PROVE  ScopeInv'
BY DEF ScopeInv, RootFound, Propagate

LEMMA CompileOnlyRefScope ==
  ASSUME IInv, BaseInv, ScopeInv, DistinctKeys, CompileOnlyRef
  PROVE  ScopeInv'
<1> DEFINE n == Len(nodes) + 1
           node == IF HasRef THEN RefNode(n) ELSE DynamicRefNode(n)
<1>1. /\ Compiling /\ stack # <<>> /\ Top.open /\ nodes' = Append(nodes, node) /\ Return(n)
      /\ anchors' = PutAll(anchors, IdKeys, n)
      /\ UNCHANGED <<doc, pc, resources, pending, linkVars>>
  BY DEF CompileOnlyRef, AfterDefinitions, Running
<1>2. node \in NodeType /\ node.loc = Top.loc /\ node.base = baseUri
  <2>1. n \in Nat /\ n =< n
    BY Before
  <2>2. RefNode(n) \in NodeType /\ DynamicRefNode(n) \in NodeType
    BY <1>1, <2>1, RefNodeOK
  <2>3. /\ RefNode(n).loc = Top.loc /\ RefNode(n).base = baseUri
        /\ DynamicRefNode(n).loc = Top.loc /\ DynamicRefNode(n).base = baseUri
    BY DEF RefNode, DynamicRefNode, NewNode
  <2> QED BY <2>2, <2>3
<1> HIDE DEF node
<1>3. /\ DOMAIN anchors \subseteq DOMAIN anchors' /\ RegisteredAt(doc, nodes', anchors')
      /\ doc[Top.loc].id # <<>> => UriKey(baseUri) \in DOMAIN anchors'
  <2>1. IdKeys \subseteq CompiledKeys
    BY DEF CompiledKeys
  <2> QED BY <1>1, <1>2, <2>1, KeysScope
<1>4. PendingAt(doc, nodes', pending')
  BY <1>1, Before, AppendPlaces, PendingKept
<1> QED BY <1>1, <1>2, <1>3, <1>4, ReturnScope

LEMMA CompileObjectScope ==
  ASSUME IInv, BaseInv, ScopeInv, DistinctKeys, CompileObject
  PROVE  ScopeInv'
<1> DEFINE n == Len(nodes) + 1
           node == NewNode("object", NoRef, Top.children, n)
           entry == [uri |-> baseUri, name |-> Schema.dynamicAnchor, node |-> n]
<1>1. /\ Compiling /\ stack # <<>> /\ Top.open /\ nodes' = Append(nodes, node) /\ Return(n)
      /\ anchors' = PutAll(anchors, CompiledKeys, n)
      /\ pending' = IF Schema.dynamicAnchor = "" THEN pending ELSE Append(pending, entry)
      /\ UNCHANGED <<doc, pc, resources, linkVars>>
  BY DEF CompileObject, AfterDefinitions, Running
<1>2. node \in NodeType /\ node.loc = Top.loc /\ node.base = baseUri
  <2>1. NoRef \in RefType /\ "object" \in {"bool", "object", "ref", "dynamicRef"} /\ n \in Nat
    BY Before DEF NoRef, Reference, RefType, Uri, Path
  <2>2. Top.children \in Seq(Nat)
    BY <1>1, TopOK DEF FrameType
  <2>3. node \in NodeType
    BY <1>1, <2>1, <2>2, NewNodeType, Zenon
  <2> QED BY <2>3 DEF NewNode
<1> HIDE DEF node
<1>3. /\ DOMAIN anchors \subseteq DOMAIN anchors' /\ RegisteredAt(doc, nodes', anchors')
      /\ doc[Top.loc].id # <<>> => UriKey(baseUri) \in DOMAIN anchors'
  <2>1. IdKeys \subseteq CompiledKeys
    BY DEF CompiledKeys
  <2> QED BY <1>1, <1>2, <2>1, KeysScope
<1>4. PendingAt(doc, nodes', pending)
  BY <1>1, Before, AppendPlaces, PendingKept
<1>5. PendingAt(doc, nodes', pending')
  <2>1. CASE Schema.dynamicAnchor = ""
    BY <1>1, <1>4, <2>1
  <2>2. CASE Schema.dynamicAnchor # ""
    <3>1. pending' = Append(pending, entry) /\ nodes'[n] = node
      <4>1. Append(nodes, node)[Len(nodes) + 1] = node
        BY Before
      <4> HIDE DEF entry
      <4> QED BY <1>1, <2>2, <4>1
    <3>2. /\ entry.uri = node.base /\ entry.node = n
          /\ entry.name = doc[node.loc].dynamicAnchor /\ entry.name # ""
      BY <1>2, <2>2 DEF Schema
    <3> HIDE DEF entry, n
    <3> DEFINE L == Len(pending)
    <3>3. /\ L \in Nat /\ Len(pending') = L + 1 /\ pending'[L + 1] = entry
          /\ \A k \in 1..L : pending'[k] = pending[k]
      BY <3>1, Before DEF PendingOK
    <3>4. \A k \in 1..L + 1 : k = L + 1 \/ k \in 1..L
      BY <3>3
    <3>5. \A k \in 1..L :
            /\ pending[k].uri = nodes'[pending[k].node].base
            /\ pending[k].name = doc[nodes'[pending[k].node].loc].dynamicAnchor
            /\ pending[k].name # ""
      BY <1>4 DEF PendingAt
    <3> HIDE DEF L
    <3>6. ASSUME NEW k \in 1..L + 1
          PROVE  /\ pending'[k].uri = nodes'[pending'[k].node].base
                 /\ pending'[k].name = doc[nodes'[pending'[k].node].loc].dynamicAnchor
                 /\ pending'[k].name # ""
      <4>1. CASE k = L + 1
        BY <3>1, <3>2, <3>3, <4>1
      <4>2. CASE k \in 1..L
        BY <3>3, <3>5, <4>2
      <4> QED BY <3>4, <4>1, <4>2
    <3> QED BY <3>3, <3>6 DEF PendingAt
  <2> QED BY <2>1, <2>2
<1> QED BY <1>1, <1>2, <1>3, <1>5, ReturnScope

\* A step that changes the running call.
LEMMA SetTopScope ==
  ASSUME IInv, BaseInv, ScopeInv, Compiling, stack # <<>>,
         UNCHANGED <<doc, pc, pending, linkVars>>,
         SamePlaces(nodes, nodes'),
         \A n \in 1..Len(nodes') : n \in 1..Len(nodes) \/ nodes'[n].base = baseUri,
         RegisteredAt(doc, nodes', anchors'), DOMAIN anchors \subseteq DOMAIN anchors',
         result' # Failed,
         NEW f, SetTop(f), f.loc = Top.loc, f.outer = Top.outer, Top.open => f.open,
         \/ baseUri' = baseUri
         \/ f.open /\ doc[f.loc].id # <<>> /\ baseUri' = BaseIn(doc, f.loc),
         \A uri \in DOMAIN resources' : uri \in DOMAIN resources \/ uri = baseUri'
  PROVE  ScopeInv'
<1> DEFINE n == Len(stack)
<1>1. /\ n \in Nat /\ n > 0 /\ n \in 1..n /\ 1 \in 1..n
      /\ Len(stack') = n /\ stack' # <<>> /\ \A k \in 1..n : stack'[k] = IF k = n THEN f ELSE stack[k]
  BY Before DEF SetTop
<1>2. f.loc = stack[n].loc /\ f.outer = stack[n].outer /\ (stack[n].open => f.open)
  BY DEF Top
<1>3. \A uri : Known(doc, anchors, stack, uri) => Known(doc, anchors', stack', uri)
  <2>1. stack' = [stack EXCEPT ![n] = f] /\ stack \in Seq(FrameType)
    BY Before DEF SetTop
  <2> QED BY <1>2, <2>1, SetTopKnown
<1> HIDE DEF n
<1>4. stack'[1].loc = stack[1].loc
  BY <1>1, <1>2
<1>5. \A k \in 1..n : stack'[k].outer = stack[k].outer
  BY <1>1, <1>2
<1>6. Known(doc, anchors', stack', baseUri')
  <2>1. CASE baseUri' = baseUri
    BY <1>3, <2>1, Before
  <2>2. CASE f.open /\ doc[f.loc].id # <<>> /\ baseUri' = BaseIn(doc, f.loc)
    <3>1. stack'[n] = f /\ n \in 1..Len(stack')
      BY <1>1
    <3> QED BY <2>2, <3>1 DEF Known
  <2> QED BY <2>1, <2>2
<1>7. \A k \in 1..Len(stack') : \E m \in 1..Len(stack) : stack'[k].outer = stack[m].outer
  BY <1>1, <1>5 DEF n
<1> QED BY <1>1, <1>3, <1>4, <1>6, <1>7, CallScope

LEMMA OpenScope ==
  ASSUME IInv, BaseInv, ScopeInv, Open
  PROVE  ScopeInv'
<1> DEFINE f == [Top EXCEPT !.open = TRUE, !.defs = Schema.defs, !.keywords = Schema.keywords]
<1>1. /\ Compiling /\ stack # <<>> /\ ~Top.open /\ SetTop(f) /\ result = Nothing
      /\ UNCHANGED <<doc, pc, result, nodes, anchors, pending, linkVars>>
  BY DEF Open, Running
<1>2. /\ FrameBase(doc, Top) /\ Top \in FrameType /\ Top.loc \in DOMAIN doc /\ baseUri = Top.outer
  BY <1>1, TopBase
<1>3. f.loc = Top.loc /\ f.outer = Top.outer /\ f.open
  BY <1>2 DEF FrameType
<1> HIDE DEF f
<1>4. BaseIn(doc, Top.loc) = Own(doc, Top.loc, baseUri)
  BY <1>2 DEF FrameBase
<1>5. /\ \/ baseUri' = baseUri
         \/ f.open /\ doc[f.loc].id # <<>> /\ baseUri' = BaseIn(doc, f.loc)
      /\ \A uri \in DOMAIN resources' : uri \in DOMAIN resources \/ uri = baseUri'
  <2>1. CASE Schema.id = <<>>
    BY <2>1 DEF Open
  <2>2. CASE Schema.id # <<>>
    <3>1. baseUri' = Resolve(Schema.id, baseUri) /\ resources' = Put(resources, Resolve(Schema.id, baseUri), Top.loc)
      BY <2>2 DEF Open
    <3>2. BaseIn(doc, Top.loc) = Resolve(Schema.id, baseUri)
      BY <1>2, <1>4, <2>2 DEF Own, Schema
    <3>3. \A uri \in DOMAIN resources' : uri \in DOMAIN resources \/ uri = baseUri'
      BY <3>1 DEF Put
    <3> QED BY <1>3, <2>2, <3>1, <3>2, <3>3 DEF Schema
  <2> QED BY <2>1, <2>2
<1>6. /\ SamePlaces(nodes, nodes') /\ RegisteredAt(doc, nodes', anchors')
      /\ \A n \in 1..Len(nodes') : n \in 1..Len(nodes)
      /\ DOMAIN anchors \subseteq DOMAIN anchors' /\ result' # Failed
  <2>1. SamePlaces(nodes, nodes)
    BY Before DEF SamePlaces
  <2> QED BY <1>1, <2>1, Before DEF Nothing, Failed
<1> QED BY <1>1, <1>3, <1>5, <1>6, SetTopScope

LEMMA EndDefinitionScope ==
  ASSUME IInv, BaseInv, ScopeInv, EndDefinition
  PROVE  ScopeInv'
<1> DEFINE f == [Top EXCEPT !.defs = Tail(@)]
           key == Reference(<<>>, "pointer", Head(Top.defs))
<1>1. /\ Compiling /\ stack # <<>> /\ SetTop(f) /\ result' # Failed
      /\ anchors' = Put(anchors, key, result)
      /\ UNCHANGED <<doc, pc, baseUri, nodes, resources, pending, linkVars>>
  BY DEF EndDefinition, Nothing, Failed
<1>2. f.loc = Top.loc /\ f.outer = Top.outer /\ f.open = Top.open
  <2>1. Top \in FrameType
    BY <1>1, TopBase
  <2> QED BY <2>1 DEF FrameType
<1> HIDE DEF f
<1>3. RegisteredAt(doc, nodes, anchors')
  <2>1. \A u : UriKey(u) # key
    BY DEF UriKey, Reference
  <2> HIDE DEF key
  <2>2. /\ DOMAIN anchors' = DOMAIN anchors \cup {key}
        /\ \A k \in DOMAIN anchors : k # key => anchors'[k] = anchors[k]
    BY <1>1 DEF Put
  <2>3. RegisteredAt(doc, nodes, anchors)
    BY Before
  <2> QED BY <2>1, <2>2, <2>3 DEF RegisteredAt
<1>4. /\ SamePlaces(nodes, nodes') /\ RegisteredAt(doc, nodes', anchors')
      /\ \A n \in 1..Len(nodes') : n \in 1..Len(nodes)
      /\ DOMAIN anchors \subseteq DOMAIN anchors'
  <2>1. SamePlaces(nodes, nodes)
    BY Before DEF SamePlaces
  <2>2. DOMAIN anchors \subseteq DOMAIN anchors'
    BY <1>1 DEF Put
  <2> QED BY <1>1, <1>3, <2>1, <2>2
<1> QED BY <1>1, <1>2, <1>4, SetTopScope

LEMMA EndKeywordScope ==
  ASSUME IInv, BaseInv, ScopeInv, EndKeyword
  PROVE  ScopeInv'
<1> DEFINE f == [Top EXCEPT !.keywords = Tail(@), !.children = Append(@, result)]
<1>1. /\ Compiling /\ stack # <<>> /\ SetTop(f) /\ result' # Failed
      /\ UNCHANGED <<doc, pc, baseUri, nodes, anchors, resources, pending, linkVars>>
  BY DEF EndKeyword, Nothing, Failed
<1>2. f.loc = Top.loc /\ f.outer = Top.outer /\ f.open = Top.open
  <2>1. Top \in FrameType
    BY <1>1, TopBase
  <2> QED BY <2>1 DEF FrameType
<1> HIDE DEF f
<1>3. /\ SamePlaces(nodes, nodes') /\ RegisteredAt(doc, nodes', anchors')
      /\ \A n \in 1..Len(nodes') : n \in 1..Len(nodes)
      /\ DOMAIN anchors \subseteq DOMAIN anchors'
  <2>1. SamePlaces(nodes, nodes)
    BY Before DEF SamePlaces
  <2> QED BY <1>1, <2>1, Before
<1> QED BY <1>1, <1>2, <1>3, SetTopScope

LEMMA AddRefsScope ==
  ASSUME IInv, BaseInv, ScopeInv, AddRefs
  PROVE  ScopeInv'
<1> DEFINE r == RefNode(0)
           d == DynamicRefNode(0)
           front == IF HasRef THEN <<r>> ELSE <<>>
           back == IF HasDynamicRef THEN <<d>> ELSE <<>>
           added == front \o back
           f == [Top EXCEPT !.refsAdded = TRUE, !.children = [k \in 1..Len(added) |-> Len(nodes) + k]]
<1>1. /\ Compiling /\ stack # <<>> /\ nodes' = nodes \o added /\ SetTop(f) /\ result = Nothing
      /\ UNCHANGED <<doc, pc, result, baseUri, anchors, resources, pending, linkVars>>
  BY DEF AddRefs, AfterDefinitions, Running
<1>2. f.loc = Top.loc /\ f.outer = Top.outer /\ f.open = Top.open
  <2>1. Top \in FrameType
    BY <1>1, TopBase
  <2> QED BY <2>1 DEF FrameType
<1> HIDE DEF f
<1>3. r.base = baseUri /\ d.base = baseUri
  BY DEF RefNode, DynamicRefNode, NewNode
<1> HIDE DEF r, d
<1>4. /\ SamePlaces(nodes, nodes')
      /\ \A n \in 1..Len(nodes') : n \in 1..Len(nodes) \/ nodes'[n].base = baseUri
  <2>1. /\ front \in Seq({r, d}) /\ back \in Seq({r, d})
    <3>1. <<>> \in Seq({r, d}) /\ <<r>> \in Seq({r, d}) /\ <<d>> \in Seq({r, d})
      OBVIOUS
    <3> QED BY <3>1
  <2> HIDE DEF front, back
  <2>2. added \in Seq({r, d})
    BY <2>1
  <2> HIDE DEF added
  <2> DEFINE n == Len(nodes)
             m == Len(added)
             new == nodes \o added
  <2>3. n \in Nat /\ m \in Nat /\ Len(new) = n + m
    BY <2>2, Before
  <2>4. /\ \A k \in 1..n : new[k] = nodes[k]
        /\ \A k \in n + 1..n + m : new[k] \in {r, d}
    BY <2>2, Before
  <2> HIDE DEF new, n, m
  <2>5. \A k \in 1..n + m : k \in 1..n \/ k \in n + 1..n + m
    BY <2>3
  <2>6. \A k \in 1..n + m : k \in 1..n \/ new[k].base = baseUri
    BY <1>3, <2>4, <2>5
  <2>7. n =< n + m
    BY <2>3
  <2>8. nodes' = new
    BY <1>1 DEF new
  <2> QED BY <2>3, <2>4, <2>6, <2>7, <2>8 DEF SamePlaces, n
<1>5. RegisteredAt(doc, nodes', anchors') /\ DOMAIN anchors \subseteq DOMAIN anchors' /\ result' # Failed
  BY <1>1, <1>4, Before, RegisteredKept DEF Nothing, Failed
<1> QED BY <1>1, <1>2, <1>4, <1>5, SetTopScope

\* A step that calls for a subschema.
LEMMA SubcallScope ==
  ASSUME IInv, BaseInv, ScopeInv, Running, NEW loc, Calls(loc),
         UNCHANGED <<doc, pc, result, baseUri, nodes, anchors, resources, pending, linkVars>>
  PROVE  ScopeInv'
<1> DEFINE n == Len(stack)
           f == Frame(loc)
<1>1. stack # <<>> /\ Compiling /\ result = Nothing /\ f.outer = baseUri /\ stack' = Append(stack, f)
  BY DEF Running, Frame, Calls
<1> HIDE DEF f
<1>2. /\ n \in Nat /\ n > 0 /\ 1 \in 1..n /\ stack' # <<>>
      /\ Len(stack') = n + 1 /\ stack'[n + 1] = f /\ \A k \in 1..n : stack'[k] = stack[k]
  BY <1>1, Before
<1>3. \A uri : Known(doc, anchors, stack, uri) => Known(doc, anchors', stack', uri)
  BY <1>1, CallKnown, Before
<1>4. \A k \in 1..n + 1 : k \in 1..n \/ k = n + 1
  BY <1>2
<1>5. \A k \in 1..Len(stack') :
        stack'[k].outer = baseUri \/ \E m \in 1..Len(stack) : stack'[k].outer = stack[m].outer
  <2> HIDE DEF n
  <2>1. \A k \in 1..Len(stack') :
          stack'[k].outer = baseUri \/ \E m \in 1..n : stack'[k].outer = stack[m].outer
    BY <1>1, <1>2, <1>4
  <2> QED BY <2>1 DEF n
<1>6. Known(doc, anchors', stack', baseUri')
  BY <1>3, Before
<1>7. SamePlaces(nodes, nodes') /\ RegisteredAt(doc, nodes', anchors') /\ result' # Failed
      /\ \A k \in 1..Len(nodes') : k \in 1..Len(nodes)
  <2>1. SamePlaces(nodes, nodes)
    BY Before DEF SamePlaces
  <2> QED BY <1>1, <2>1, Before DEF Nothing, Failed
<1>8. stack'[1].loc = stack[1].loc
  BY <1>2
<1> QED BY <1>1, <1>2, <1>3, <1>5, <1>6, <1>7, <1>8, CallScope

LEMMA CallDefinitionScope ==
  ASSUME IInv, BaseInv, ScopeInv, CallDefinition
  PROVE  ScopeInv'
BY SubcallScope DEF CallDefinition, InDefinitions

LEMMA CallKeywordScope ==
  ASSUME IInv, BaseInv, ScopeInv, CallKeyword
  PROVE  ScopeInv'
BY SubcallScope DEF CallKeyword, AfterDefinitions

\* A step of linking, which adds no node and no key.
LEMMA LinkingScope ==
  ASSUME IInv, BaseInv, ScopeInv, UNCHANGED <<doc, anchors, resources, pending, rootIndex>>,
         pc \in {"pass", "resolve", "compile", "linked", "scopes"}, pc' # "tree",
         SamePlaces(nodes, nodes'), Len(nodes') = Len(nodes), result' # Failed,
         stack = <<>>,
         stack' = <<>> \/ \E f : stack' = <<f>> /\ f.outer = baseUri',
         baseUri' \in {<<>>, baseUri} \cup DOMAIN resources
  PROVE  ScopeInv'
<1>1. \A uri : Known(doc, anchors, stack, uri) => Known(doc, anchors', stack', uri)
  <2>1. Len(stack) = 0 /\ DOMAIN anchors \subseteq DOMAIN anchors'
    OBVIOUS
  <2>2. \A k \in 1..Len(stack) : FALSE
    BY <2>1
  <2> QED BY <2>1, <2>2, StaysKnown
<1>2. Known(doc, anchors', stack', baseUri')
  <2>1. Known(doc, anchors, stack, <<>>)
    BY DEF Known
  <2> QED BY <1>1, <2>1, Before
<1>3. RootFound'
  <2>1. RootFound /\ rootIndex \in 1..Len(nodes)
    BY Before DEF IInv, LoopOK
  <2>2. nodes'[rootIndex].loc = nodes[rootIndex].loc
    BY <2>1 DEF SamePlaces
  <2> QED BY <2>1, <2>2 DEF RootFound
<1>4. AllKnown(doc, anchors', stack', nodes', resources', baseUri')
  <2>1. \A n \in 1..Len(nodes') : Known(doc, anchors', stack', nodes'[n].base)
    BY <1>1, Before DEF SamePlaces
  <2>2. \A uri \in DOMAIN resources' : Known(doc, anchors', stack', uri)
    BY <1>1, Before
  <2>3. \A k \in 1..Len(stack') : Known(doc, anchors', stack', stack'[k].outer)
    <3>1. CASE stack' = <<>>
      BY <3>1
    <3>2. CASE \E f : stack' = <<f>> /\ f.outer = baseUri'
      <4>1. PICK f : stack' = <<f>> /\ f.outer = baseUri'
        BY <3>2
      <4>2. Len(<<f>>) = 1 /\ <<f>>[1] = f
        OBVIOUS
      <4>3. ASSUME NEW k \in 1..Len(stack')
            PROVE  stack'[k].outer = baseUri'
        BY <4>1, <4>2
      <4> QED BY <1>2, <4>3
    <3> QED BY <3>1, <3>2
  <2> QED BY <1>2, <2>1, <2>2, <2>3 DEF AllKnown
<1>5. RegisteredAt(doc, nodes', anchors') /\ PendingAt(doc, nodes', pending')
  BY Before, RegisteredKept, PendingKept
<1>6. AllKnown(doc', anchors', stack', nodes', resources', baseUri')
  BY <1>4
<1> QED BY <1>3, <1>5, <1>6 DEF ScopeInv

\* Outside compilation no call is in progress, and none has failed.
LEMMA NoCalls ==
  ASSUME IInv, BaseInv, ScopeInv, ~Compiling
  PROVE  stack = <<>> /\ SamePlaces(nodes, nodes) /\ result # Failed
BY Before DEF BaseInv, LoopBase, SamePlaces, RootFound

LEMMA BeginPassScope ==
  ASSUME IInv, BaseInv, ScopeInv, BeginPass
  PROVE  ScopeInv'
<1>1. pc = "pass" /\ pc' # "tree" /\ UNCHANGED <<doc, stack, result, baseUri, nodes, anchors, resources, pending, rootIndex>>
  BY DEF BeginPass
<1> QED BY <1>1, NoCalls, LinkingScope DEF Compiling

LEMMA SkipScope ==
  ASSUME IInv, BaseInv, ScopeInv, Skip
  PROVE  ScopeInv'
<1>1. pc = "resolve" /\ pc' # "tree" /\ UNCHANGED <<doc, stack, result, baseUri, nodes, anchors, resources, pending, rootIndex>>
  BY DEF Skip, AtNode
<1> QED BY <1>1, NoCalls, LinkingScope DEF Compiling

LEMMA EndPassScope ==
  ASSUME IInv, BaseInv, ScopeInv, EndPass
  PROVE  ScopeInv'
<1>1. pc = "resolve" /\ pc' # "tree" /\ UNCHANGED <<doc, stack, result, baseUri, nodes, anchors, resources, pending, rootIndex>>
  BY DEF EndPass
<1> QED BY <1>1, NoCalls, LinkingScope DEF Compiling

LEMMA CheckPolicyScope ==
  ASSUME IInv, BaseInv, ScopeInv, CheckPolicy
  PROVE  ScopeInv'
<1>1. pc = "linked" /\ pc' # "tree" /\ UNCHANGED <<doc, stack, result, baseUri, nodes, anchors, resources, pending, rootIndex>>
  BY DEF CheckPolicy, linkVars
<1> QED BY <1>1, NoCalls, LinkingScope DEF Compiling

LEMMA BuildScopesScope ==
  ASSUME IInv, BaseInv, ScopeInv, BuildScopes
  PROVE  ScopeInv'
<1>1. pc = "scopes" /\ pc' # "tree" /\ UNCHANGED <<doc, stack, result, baseUri, nodes, anchors, resources, pending, rootIndex>>
  BY DEF BuildScopes
<1> QED BY <1>1, NoCalls, LinkingScope DEF Compiling

LEMMA TreeCompiledScope ==
  ASSUME IInv, BaseInv, ScopeInv, TreeCompiled
  PROVE  ScopeInv'
<1>1. /\ pc = "tree" /\ stack = <<>> /\ result # Failed /\ nodes[result].loc = <<>>
      /\ rootIndex' = result /\ result' = Nothing /\ pc' = "pass"
      /\ UNCHANGED <<doc, stack, baseUri, nodes, anchors, resources, pending>>
  BY Before DEF TreeCompiled, RootFound
<1>2. RootFound'
  BY <1>1 DEF RootFound, Nothing, Failed
<1> QED BY <1>1, <1>2 DEF ScopeInv

LEMMA LinkStepScope ==
  ASSUME IInv, BaseInv, ScopeInv, Link
  PROVE  ScopeInv'
<1> DEFINE t == IF Early # Unresolved THEN Early ELSE Lookup(KeysAfter(Located))
<1>1. /\ pc = "resolve" /\ i =< end /\ nodes' = [nodes EXCEPT ![i].target = t]
      /\ UNCHANGED <<doc, pc, stack, result, baseUri, anchors, resources, pending, rootIndex>>
  BY DEF Link, LinkTo, AtNode
<1>3. t \in 0..Len(nodes)
  <2>1. Early \in 0..Len(nodes)
    BY <1>1, EarlyOK DEF AtNode
  <2>2. Lookup(KeysAfter(Located)) \in 0..Len(nodes)
    <3>1. <<>> \in Uri /\ Node \in NodeType
      BY <1>1, AtNodeOK DEF Uri
    <3>2. Located \in Uri
      BY <3>1, KeysOK
    <3> QED BY <3>1, <3>2, KeysOK, LookupOK
  <2> QED BY <2>1, <2>2
<1> HIDE DEF t
<1>2. SamePlaces(nodes, nodes') /\ Len(nodes') = Len(nodes)
  <2>1. i \in 1..Len(nodes) /\ NodesOK(nodes)
    BY <1>1, AtNodeOK
  <2>2. /\ SamePlaces(nodes, [nodes EXCEPT ![i].target = t])
        /\ Len([nodes EXCEPT ![i].target = t]) = Len(nodes)
    BY <1>3, <2>1, TargetPlaces
  <2> QED BY <1>1, <2>2
<1> QED BY <1>1, <1>2, NoCalls, LinkingScope DEF Compiling

LEMMA CompileTargetScope ==
  ASSUME IInv, BaseInv, ScopeInv, CompileTarget
  PROVE  ScopeInv'
<1> DEFINE f == [Frame(Place) EXCEPT !.outer = baseUri']
<1>1. /\ pc = "resolve" /\ pc' # "tree" /\ stack' = <<f>>
      /\ baseUri' \in {baseUri} \cup DOMAIN resources
      /\ UNCHANGED <<doc, result, nodes, anchors, resources, pending, rootIndex>>
  BY DEF CompileTarget, AtNode, IsPointer, HasPlace
<1>2. f.outer = baseUri'
  BY DEF Frame
<1> HIDE DEF f
<1> QED BY <1>1, <1>2, NoCalls, LinkingScope DEF Compiling

LEMMA TargetCompiledScope ==
  ASSUME IInv, BaseInv, ScopeInv, TargetCompiled
  PROVE  ScopeInv'
<1>1. /\ pc = "compile" /\ stack = <<>> /\ pc' = "resolve" /\ baseUri' = via.saved /\ result' = Nothing
      /\ result # Failed
      /\ nodes' = [Owned EXCEPT ![i].target = result]
      /\ UNCHANGED <<doc, stack, anchors, resources, pending, rootIndex>>
  BY Before DEF TargetCompiled, RootFound
<1>2. via.saved = <<>> /\ i =< end /\ result \in 1..Len(nodes) /\ i \in 1..Len(nodes)
  <2>1. via.saved = <<>> /\ i =< end /\ result \in -1..Len(nodes) /\ result # 0 /\ Len(nodes) \in Nat
    BY <1>1, Before DEF BaseInv, LoopBase, IInv, LoopOK, ResultOK, Compiling, Nothing
  <2>2. i \in 1..Len(nodes)
    BY <1>1, <2>1, AtNodeOK
  <2> QED BY <1>1, <2>1, <2>2 DEF Failed
<1>3. /\ SamePlaces(nodes, Owned) /\ Len(Owned) = Len(nodes) /\ NodesOK(Owned)
  <2>1. CASE UriKey(via.uri) \in DOMAIN anchors
    <3>1. anchors[UriKey(via.uri)] \in 0..Len(nodes) /\ NodesOK(nodes)
      BY <2>1, Before DEF MapOK, IInv
    <3>2. NodesOK([nodes EXCEPT ![result].self = anchors[UriKey(via.uri)]])
      BY <1>2, <3>1, SelfOK
    <3> QED BY <1>2, <2>1, <3>1, <3>2, Before, SelfPlaces, AppendPlaces DEF Owned
  <2>2. CASE UriKey(via.uri) \notin DOMAIN anchors
    BY <2>2, Before, AppendPlaces DEF Owned, IInv
  <2> QED BY <2>1, <2>2
<1>4. SamePlaces(Owned, nodes') /\ Len(nodes') = Len(Owned)
  <2>1. i \in 1..Len(Owned) /\ result \in 0..Len(Owned)
    BY <1>2, <1>3, Before
  <2>2. /\ SamePlaces(Owned, [Owned EXCEPT ![i].target = result])
        /\ Len([Owned EXCEPT ![i].target = result]) = Len(Owned)
    BY <1>3, <2>1, TargetPlaces
  <2> QED BY <1>1, <2>2
<1>5. SamePlaces(nodes, nodes') /\ Len(nodes') = Len(nodes)
  BY <1>3, <1>4 DEF SamePlaces
<1> QED BY <1>1, <1>2, <1>5, LinkingScope DEF Nothing, Failed

LEMMA InitScope ==
  ASSUME Init
  PROVE  ScopeInv
<1> DEFINE f == Frame(<<>>)
<1>1. stack = <<f>> /\ f.loc = <<>> /\ f.outer = <<>>
  BY DEF Init, Frame
<1> HIDE DEF f
<1>2. /\ baseUri = <<>> /\ pc = "tree" /\ result = 0 /\ nodes = <<>> /\ pending = <<>>
      /\ DOMAIN anchors = {} /\ DOMAIN resources = {}
  BY DEF Init, Nothing
<1>3. RootFound
  BY <1>1, <1>2 DEF RootFound, Failed
<1>4. RegisteredAt(doc, nodes, anchors) /\ PendingAt(doc, nodes, pending)
  BY <1>2 DEF RegisteredAt, PendingAt
<1>5. AllKnown(doc, anchors, stack, nodes, resources, baseUri)
  <2>1. Known(doc, anchors, stack, <<>>)
    BY DEF Known
  <2>2. \A k \in 1..Len(stack) : stack[k].outer = <<>>
    <3>1. Len(<<f>>) = 1 /\ <<f>>[1] = f
      OBVIOUS
    <3> QED BY <1>1, <3>1
  <2> QED BY <1>2, <2>1, <2>2 DEF AllKnown
<1> QED BY <1>3, <1>4, <1>5 DEF ScopeInv

LEMMA NextScope ==
  ASSUME OnlySchemas, DistinctKeys, IInv, BaseInv, ScopeInv, [Next]_vars
  PROVE  ScopeInv'
<1>1. CASE Compile
  BY <1>1, CompileLeafScope, OpenScope, CallDefinitionScope, EndDefinitionScope, PropagateScope,
     CompileOnlyRefScope, AddRefsScope, CallKeywordScope, EndKeywordScope, CompileObjectScope,
     TreeCompiledScope DEF Compile
<1>2. CASE Resolution
  BY <1>2, BeginPassScope, SkipScope, LinkStepScope, CompileTargetScope, TargetCompiledScope, EndPassScope,
     CheckPolicyScope, BuildScopesScope DEF Resolution
<1>3. CASE UNCHANGED vars
  <2>1. UNCHANGED <<doc, pc, stack, result, baseUri, nodes, anchors, resources, pending, rootIndex>>
    BY <1>3 DEF vars, linkVars
  <2> QED BY <2>1 DEF ScopeInv, RootFound
<1> QED BY <1>1, <1>2, <1>3 DEF Next

-----------------------------------------------------------------------------
(* The resource that a location is in *)

\* No schema on the way to loc, after the first k segments, is a resource.
NoneAfter(d, loc, k) ==
  \A j \in k + 1..Len(loc) : SubSeq(loc, 1, j) \in DOMAIN d => d[SubSeq(loc, 1, j)].id = <<>>

\* A location is in the resource after which none begins on the way to it.
LEMMA InResourceOf ==
  ASSUME NEW loc \in DOMAIN doc, loc \in Path, NEW k \in 0..Len(loc), NoneAfter(doc, loc, k),
         \A q \in DOMAIN doc : q \in Path
  PROVE  InResource(SubSeq(loc, 1, k), loc)
<1> DEFINE root == SubSeq(loc, 1, k)
           n == Len(loc)
<1>1. n \in Nat /\ Len(root) = k /\ root \in Seq(STRING) /\ loc \in Seq(STRING) /\ SubSeq(loc, 1, n) = loc
  BY DEF Path
<1>k. k \in Nat /\ k =< n
  BY <1>1
<1>2. IsPrefix(root, loc)
  BY <1>1 DEF IsPrefix
<1>3. ASSUME NEW q \in DOMAIN doc, IsStrictPrefix(root, q), IsStrictPrefix(q, loc)
      PROVE  ~IsResource(q)
  <2>1. /\ q \in Seq(STRING) /\ Len(q) \in Nat /\ k =< Len(q) /\ SubSeq(q, 1, k) = SubSeq(root, 1, k)
        /\ q # root /\ Len(q) =< n /\ SubSeq(q, 1, Len(q)) = SubSeq(loc, 1, Len(q))
    BY <1>1, <1>3 DEF IsStrictPrefix, IsPrefix, Path
  <2>2. SubSeq(q, 1, Len(q)) = q
    BY <2>1
  <2>3. Len(q) # k
    BY <2>1, <2>2
  <2> DEFINE m == Len(q)
  <2>4. m \in Nat /\ k =< m /\ m # k /\ m =< n /\ SubSeq(loc, 1, m) = q
    BY <2>1, <2>2, <2>3
  <2>5. m # 0 => q # <<>>
    BY <2>1
  <2> HIDE DEF m, n
  <2>6. m \in k + 1..n /\ m # 0
    BY <1>1, <1>k, <2>4
  <2>7. SubSeq(loc, 1, m) \in DOMAIN doc
    BY <1>3, <2>4
  <2>8. doc[SubSeq(loc, 1, m)].id = <<>>
    BY <2>6, <2>7 DEF NoneAfter, n
  <2> QED BY <2>4, <2>5, <2>6, <2>8 DEF IsResource
<1>4. Within(root, loc)
  BY <1>2, <1>3 DEF Within
<1>5. loc = root \/ ~IsResource(loc)
  <2>1. CASE k = n
    BY <1>1, <2>1
  <2>2. CASE k # n
    <3>1. n # 0 => loc # <<>>
      BY <1>1
    <3> HIDE DEF n
    <3>2. n \in k + 1..n /\ n # 0
      BY <1>1, <1>k, <2>2
    <3> QED BY <1>1, <3>1, <3>2 DEF NoneAfter, IsResource, n
  <2> QED BY <2>1, <2>2
<1> QED BY <1>4, <1>5 DEF InResource

\* A resource that has an $id has a base URI.
LEMMA ResourceHasBase ==
  ASSUME NEW d \in Docs, NEW q \in ResourceRoots(d)
  PROVE  BaseIn(d, q) # <<>> /\ q \in Path
<1>1. q \in DOMAIN d /\ q \in Path /\ d[q].id \in Uri /\ d[q].id # <<>>
  BY DocsAssumption DEF ResourceRoots, SchemaType
<1> DEFINE n == Len(q)
<1>2. n \in Nat /\ n \in 0..n /\ (n # 0 => n - 1 \in Nat /\ n - 1 =< n) /\ SubSeq(q, 1, n) = q
  BY <1>1 DEF Path
<1>3. PICK f : IsBases(d, q, n, f) /\ BaseIn(d, q) = f[n]
  BY <1>1, BaseUnfolds
<1> DEFINE around == IF n = 0 THEN <<>> ELSE f[n - 1]
<1>4. around \in Uri
  <2>1. CASE n = 0
    BY <2>1 DEF Uri
  <2>2. CASE n # 0
    <3>1. f[n - 1] = BaseIn(d, SubSeq(q, 1, n - 1))
      <4> DEFINE m == n - 1
      <4>1. m \in Nat /\ m =< n
        BY <1>2, <2>2
      <4> HIDE DEF m
      <4>2. f[m] = BaseIn(d, SubSeq(q, 1, m))
        BY <1>1, <1>3, <4>1, BasesOfPrefix
      <4> QED BY <4>2 DEF m
    <3>2. SubSeq(q, 1, n - 1) \in Path
      BY <1>1, <1>2, <2>2 DEF Path
    <3> QED BY <2>2, <3>1, <3>2, BaseType
  <2> QED BY <2>1, <2>2
<1>5. f[n] = Own(d, q, around)
  <2> HIDE DEF n
  <2> QED BY <1>2, <1>3 DEF IsBases, BaseAt
<1> HIDE DEF around
<1> QED BY <1>1, <1>3, <1>4, <1>5, ResolvesToSome DEF Own

\* A location without a base URI is in no resource with an $id.
LEMMA NoResourceAround ==
  ASSUME NEW d \in Docs, NEW loc \in Path, BaseIn(d, loc) = <<>>
  PROVE  NoneAfter(d, loc, 0) /\ BaseIn(d, <<>>) = <<>>
<1> DEFINE n == Len(loc)
<1>1. n \in Nat /\ n \in 0..n
  BY DEF Path
<1>2. PICK f : IsBases(d, loc, n, f) /\ BaseIn(d, loc) = f[n]
  BY BaseUnfolds
<1>3. ASSUME NEW k \in 0..n
      PROVE  /\ f[k] = BaseIn(d, SubSeq(loc, 1, k)) /\ SubSeq(loc, 1, k) \in Path /\ f[k] \in Uri
             /\ f[k] = Own(d, SubSeq(loc, 1, k), IF k = 0 THEN <<>> ELSE f[k - 1])
  <2>1. SubSeq(loc, 1, k) \in Path /\ k \in Nat /\ k =< n
    BY <1>1 DEF Path
  <2>2. f[k] = BaseIn(d, SubSeq(loc, 1, k))
    BY <1>2, <2>1, BasesOfPrefix
  <2>3. f[k] = Own(d, SubSeq(loc, 1, k), IF k = 0 THEN <<>> ELSE f[k - 1])
    <3> HIDE DEF n
    <3> QED BY <1>2 DEF IsBases, BaseAt
  <2> QED BY <2>1, <2>2, <2>3, BaseType
<1> HIDE DEF n
<1> DEFINE S == {k \in 0..n : f[n - k] = <<>>}
<1>4. 0 \in S
  BY <1>1, <1>2
<1>5. ASSUME NEW k \in 0..n, k \in S, k < n
      PROVE  k + 1 \in S
  <2> DEFINE j == n - k
  <2>1. j \in 0..n /\ j # 0 /\ j - 1 \in 0..n /\ j - 1 = n - (k + 1) /\ k + 1 \in 0..n
    BY <1>1, <1>5
  <2>2. f[j] = <<>>
    BY <1>5
  <2> HIDE DEF j
  <2>3. f[j] = Own(d, SubSeq(loc, 1, j), f[j - 1]) /\ f[j - 1] \in Uri
    BY <1>3, <2>1
  <2>4. f[j - 1] = <<>>
    <3>1. CASE SubSeq(loc, 1, j) \in DOMAIN d /\ d[SubSeq(loc, 1, j)].id # <<>>
      <4>1. d[SubSeq(loc, 1, j)].id \in Uri
        BY <3>1, DocsAssumption DEF SchemaType
      <4> QED BY <2>2, <2>3, <3>1, <4>1, ResolvesToSome DEF Own
    <3>2. CASE ~(SubSeq(loc, 1, j) \in DOMAIN d /\ d[SubSeq(loc, 1, j)].id # <<>>)
      BY <2>2, <2>3, <3>2 DEF Own
    <3> QED BY <3>1, <3>2
  <2> QED BY <2>1, <2>4
<1>6. 0..n \subseteq S
  <2> HIDE DEF S
  <2> QED BY <1>1, <1>4, <1>5, Upwards
<1>7. ASSUME NEW j \in 0..n
      PROVE  f[j] = <<>>
  <2>1. n - j \in 0..n /\ n - (n - j) = j
    BY <1>1
  <2>2. n - j \in S
    BY <1>6, <2>1
  <2>3. f[n - (n - j)] = <<>>
    BY <2>2
  <2> QED BY <2>1, <2>3
<1>8. ASSUME NEW j \in 1..n, SubSeq(loc, 1, j) \in DOMAIN d
      PROVE  d[SubSeq(loc, 1, j)].id = <<>>
  <2>1. j \in 0..n
    BY <1>1
  <2>2. BaseIn(d, SubSeq(loc, 1, j)) = <<>>
    BY <1>3, <1>7, <2>1
  <2> QED BY <1>8, <2>2, ResourceHasBase DEF ResourceRoots
<1>9. NoneAfter(d, loc, 0)
  BY <1>8 DEF NoneAfter, n
<1> QED BY <1>9, BaseType

\* Another is in the innermost of those around it, and has its base URI.
LEMMA InnermostResource ==
  ASSUME NEW d \in Docs, NEW loc \in Path, BaseIn(d, loc) # <<>>
  PROVE  \E k \in 0..Len(loc) :
           /\ SubSeq(loc, 1, k) \in ResourceRoots(d)
           /\ BaseIn(d, SubSeq(loc, 1, k)) = BaseIn(d, loc)
           /\ NoneAfter(d, loc, k)
<1> DEFINE n == Len(loc)
           Resource(k) == SubSeq(loc, 1, k) \in DOMAIN d /\ d[SubSeq(loc, 1, k)].id # <<>>
<1>1. n \in Nat /\ n \in 0..n
  BY DEF Path
<1>2. PICK f : IsBases(d, loc, n, f) /\ BaseIn(d, loc) = f[n]
  BY BaseUnfolds
<1>3. ASSUME NEW k \in 0..n
      PROVE  /\ f[k] = BaseIn(d, SubSeq(loc, 1, k))
             /\ ~Resource(k) => f[k] = IF k = 0 THEN <<>> ELSE f[k - 1]
  <2>1. k \in Nat /\ k =< n
    BY <1>1
  <2>2. f[k] = BaseIn(d, SubSeq(loc, 1, k))
    BY <1>2, <2>1, BasesOfPrefix
  <2>3. f[k] = Own(d, SubSeq(loc, 1, k), IF k = 0 THEN <<>> ELSE f[k - 1])
    <3> HIDE DEF n
    <3> QED BY <1>2 DEF IsBases, BaseAt
  <2> QED BY <2>2, <2>3 DEF Own
<1> HIDE DEF n, Resource
<1> DEFINE Inner(m, k) == Resource(m) /\ f[m] = f[k] /\ \A j \in m + 1..k : ~Resource(j)
           S == {k \in 0..n : f[k] = <<>> \/ \E m \in 0..k : Inner(m, k)}
<1>4. ASSUME NEW k \in 0..n, Resource(k)
      PROVE  k \in S
  <2>1. k \in 0..k /\ k + 1..k = {}
    BY <1>1
  <2> QED BY <1>4, <2>1
<1>5. 0 \in S
  BY <1>1, <1>3, <1>4
<1>6. ASSUME NEW k \in 0..n, k \in S, k < n
      PROVE  k + 1 \in S
  <2>1. k + 1 \in 0..n /\ k + 1 # 0 /\ (k + 1) - 1 = k
    BY <1>1, <1>6
  <2>2. CASE Resource(k + 1)
    <3> DEFINE i1 == k + 1
    <3>1. i1 \in 0..n /\ Resource(i1)
      BY <2>1, <2>2
    <3> HIDE DEF i1, S
    <3>2. i1 \in S
      BY <1>4, <3>1
    <3> QED BY <3>2 DEF i1
  <2>3. CASE ~Resource(k + 1)
    <3>1. f[k + 1] = f[k]
      BY <1>3, <2>1, <2>3
    <3>2. CASE f[k] = <<>>
      BY <2>1, <3>1, <3>2
    <3>3. CASE \E m \in 0..k : Inner(m, k)
      <4>1. PICK m \in 0..k : Inner(m, k)
        BY <3>3
      <4>2. \A j \in m + 1..k + 1 : j = k + 1 \/ j \in m + 1..k
        BY <1>1
      <4>3. m \in 0..k + 1
        BY <1>1
      <4>4. Inner(m, k + 1)
        BY <2>3, <3>1, <4>1, <4>2
      <4> QED BY <2>1, <4>3, <4>4
    <3> QED BY <1>6, <3>2, <3>3
  <2> QED BY <2>2, <2>3
<1>7. 0..n \subseteq S
  <2> HIDE DEF S
  <2> QED BY <1>1, <1>5, <1>6, Upwards
<1>8. PICK m \in 0..n : Inner(m, n)
  <2>1. n \in S
    BY <1>1, <1>7
  <2> QED BY <1>2, <2>1
<1>9. SubSeq(loc, 1, m) \in ResourceRoots(d) /\ BaseIn(d, SubSeq(loc, 1, m)) = BaseIn(d, loc)
  BY <1>2, <1>3, <1>8 DEF ResourceRoots, Resource
<1>10. NoneAfter(d, loc, m)
  BY <1>8 DEF NoneAfter, Resource, n
<1> QED BY <1>9, <1>10 DEF n

-----------------------------------------------------------------------------
(* The map of dynamic anchors *)

\* The key of an entry: the node of its resource's root, and its name.
KeyIn(as, root, p) ==
  <<IF p.uri # <<>> /\ UriKey(p.uri) \in DOMAIN as THEN as[UriKey(p.uri)] ELSE root, p.name>>

\* The map holds the key of every entry, with the node of an entry of that key.
Built ==
  pc = "done" =>
    /\ \A key \in DOMAIN scopes : \E k \in 1..Len(pending) :
         key = KeyIn(anchors, rootIndex, pending[k]) /\ scopes[key] = pending[k].node
    /\ \A k \in 1..Len(pending) : KeyIn(anchors, rootIndex, pending[k]) \in DOMAIN scopes

\* The steps of a compilation that is not over, and does not end in this one.
LEMMA NotYetDone ==
  ASSUME Compile \/ Resolution, ~BuildScopes
  PROVE  pc # "done" /\ pc' # "done"
<1> DEFINE Goes == pc \in {"tree", "compile"} /\ pc' = pc
<1>1. CompileLeaf => Goes
  BY DEF CompileLeaf, Compiling, AfterDefinitions, Running
<1>2. Open => Goes
  BY DEF Open, Compiling, AfterDefinitions, Running
<1>3. CallDefinition => Goes
  BY DEF CallDefinition, Compiling, Running, InDefinitions
<1>4. EndDefinition => Goes
  BY DEF EndDefinition, Compiling, AfterDefinitions, Running
<1>5. Propagate => Goes
  BY DEF Propagate, Compiling, AfterDefinitions, Running
<1>6. CompileOnlyRef => Goes
  BY DEF CompileOnlyRef, Compiling, AfterDefinitions, Running
<1>7. AddRefs => Goes
  BY DEF AddRefs, Compiling, AfterDefinitions, Running
<1>8. CallKeyword => Goes
  BY DEF CallKeyword, Compiling, AfterDefinitions, Running
<1>9. EndKeyword => Goes
  BY DEF EndKeyword, Compiling, AfterDefinitions, Running
<1>10. CompileObject => Goes
  BY DEF CompileObject, Compiling, AfterDefinitions, Running
<1>11. BeginPass \/ EndPass \/ CheckPolicy => pc # "done" /\ pc' # "done"
  BY DEF BeginPass, EndPass, CheckPolicy
<1>12. Skip \/ Link \/ CompileTarget => pc # "done" /\ pc' # "done"
  BY DEF Skip, Link, CompileTarget, AtNode
<1>13. TreeCompiled \/ TargetCompiled => pc # "done" /\ pc' # "done"
  BY DEF TreeCompiled, TargetCompiled
<1>14. Goes => pc # "done" /\ pc' # "done"
  OBVIOUS
<1> HIDE DEF Goes
<1> QED BY <1>1, <1>2, <1>3, <1>4, <1>5, <1>6, <1>7, <1>8, <1>9, <1>10, <1>11, <1>12, <1>13, <1>14
        DEF Compile, Resolution

\* The map is built from these entries, and then it stays.
LEMMA NextBuilt ==
  ASSUME IInv, Built, [Next]_vars
  PROVE  Built'
<1>1. CASE BuildScopes
  <2>1. Len(pending) \in Nat /\ UNCHANGED <<anchors, pending, rootIndex>>
    BY <1>1 DEF IInv, PendingOK, BuildScopes
  <2>2. \A p : ScopeKey(p) = KeyIn(anchors, rootIndex, p)
    BY DEF ScopeKey, ResourceIndex, KeyIn
  <2>3. /\ DOMAIN scopes' = {ScopeKey(pending[k]) : k \in 1..Len(pending)}
        /\ \A key \in DOMAIN scopes' :
             scopes'[key] = pending[Max({k \in 1..Len(pending) : ScopeKey(pending[k]) = key})].node
    BY <1>1 DEF BuildScopes
  <2>4. ASSUME NEW key \in DOMAIN scopes'
        PROVE  \E k \in 1..Len(pending) : key = ScopeKey(pending[k]) /\ scopes'[key] = pending[k].node
    <3> DEFINE K == {k \in 1..Len(pending) : ScopeKey(pending[k]) = key}
    <3>1. K # {} /\ K \in SUBSET (1..Len(pending))
      BY <2>3
    <3>2. Max(K) \in K
      BY <2>1, <3>1, MaxIn
    <3>3. scopes'[key] = pending[Max(K)].node
      BY <2>3
    <3> HIDE DEF ScopeKey
    <3> QED BY <3>2, <3>3
  <2> HIDE DEF ScopeKey
  <2>5. \A k \in 1..Len(pending) : ScopeKey(pending[k]) \in DOMAIN scopes'
    BY <2>3
  <2> QED BY <2>1, <2>2, <2>4, <2>5 DEF Built
<1>2. CASE (Compile \/ Resolution) /\ ~BuildScopes
  BY <1>2, NotYetDone DEF Built
<1>3. CASE UNCHANGED vars
  <2>1. UNCHANGED <<pc, anchors, pending, rootIndex, scopes>>
    BY <1>3 DEF vars, linkVars
  <2> QED BY <2>1 DEF Built
<1> QED BY <1>1, <1>2, <1>3 DEF Next

\* The node of an entry's key is that of the resource that the entry is in.
LEMMA RootOfEntry ==
  ASSUME DistinctResources, IInv, BaseInv, ScopeInv, pc = "done", NEW k \in 1..Len(pending)
  PROVE  LET q == nodes[pending[k].node].loc
             root == nodes[KeyIn(anchors, rootIndex, pending[k])[1]].loc
         IN /\ IsResource(root) /\ InResource(root, q)
            /\ q \in DOMAIN doc /\ doc[q].dynamicAnchor = pending[k].name /\ pending[k].name # ""
            /\ BaseIn(doc, q) = BaseIn(doc, root)
<1> DEFINE p == pending[k]
           q == nodes[p.node].loc
           uri == BaseIn(doc, q)
           n == KeyIn(anchors, rootIndex, p)[1]
           root == nodes[n].loc
<1>1. /\ doc \in Docs /\ stack = <<>> /\ p.node \in 1..Len(nodes) /\ rootIndex \in 1..Len(nodes)
      /\ \A key \in DOMAIN anchors : anchors[key] \in 1..Len(nodes)
  BY DEF IInv, BaseInv, LoopBase, Compiling, PendingOK, LoopOK, MapOK
<1>2. q \in DOMAIN doc /\ p.uri = uri /\ p.name = doc[q].dynamicAnchor /\ p.name # ""
  BY <1>1 DEF BaseInv, NodeBases, NodeBase, ScopeInv, PendingAt
<1>3. \A loc \in DOMAIN doc : loc \in Path
  BY <1>1, DocsAssumption
<1>4. q \in Path /\ Len(q) \in Nat /\ SubSeq(q, 1, 0) = <<>>
  <2> HIDE DEF q
  <2>1. q \in Seq(STRING)
    BY <1>2, <1>3 DEF Path
  <2> QED BY <2>1 DEF Path
<1>5. CASE uri = <<>>
  <2>1. n = rootIndex /\ root = <<>>
    BY <1>2, <1>5 DEF KeyIn, ScopeInv, RootFound
  <2>2. NoneAfter(doc, q, 0) /\ BaseIn(doc, <<>>) = <<>>
    BY <1>1, <1>4, <1>5, NoResourceAround
  <2>3. InResource(SubSeq(q, 1, 0), q)
    <3>1. 0 \in 0..Len(q)
      <4> HIDE DEF q
      <4> QED BY <1>4
    <3> QED BY <1>2, <1>3, <1>4, <2>2, <3>1, InResourceOf
  <2>4. IsResource(root) /\ InResource(root, q) /\ BaseIn(doc, q) = BaseIn(doc, root)
    BY <1>4, <1>5, <2>1, <2>2, <2>3 DEF IsResource
  <2> QED BY <1>2, <2>4
<1>6. CASE uri # <<>>
  <2>1. PICK j \in 0..Len(q) : /\ SubSeq(q, 1, j) \in ResourceRoots(doc)
                               /\ BaseIn(doc, SubSeq(q, 1, j)) = uri
                               /\ NoneAfter(doc, q, j)
    BY <1>1, <1>4, <1>6, InnermostResource
  <2> DEFINE around == SubSeq(q, 1, j)
  <2>2. UriKey(uri) \in DOMAIN anchors
    <3>1. Known(doc, anchors, stack, nodes[p.node].base)
      BY <1>1 DEF ScopeInv, AllKnown
    <3>2. nodes[p.node].base = uri
      BY <1>1 DEF BaseInv, NodeBases, NodeBase
    <3> QED BY <1>1, <1>6, <3>1, <3>2 DEF Known
  <2>3. n = anchors[UriKey(uri)] /\ n \in 1..Len(nodes)
    BY <1>1, <1>2, <1>6, <2>2 DEF KeyIn
  <2>4. doc[root].id # <<>> /\ BaseIn(doc, root) = uri
    <3>1. UriKey(BaseIn(doc, around)) \in DOMAIN anchors
      BY <2>1, <2>2
    <3> QED BY <2>1, <2>3, <3>1 DEF ScopeInv, RegisteredAt
  <2>5. root \in ResourceRoots(doc)
    BY <2>3, <2>4 DEF BaseInv, NodeBases, NodeBase, ResourceRoots
  <2> HIDE DEF root, uri
  <2>6. root = around
    BY <1>1, <2>1, <2>4, <2>5 DEF DistinctResources
  <2>7. InResource(around, q)
    BY <1>2, <1>3, <1>4, <2>1, InResourceOf
  <2>8. IsResource(root) /\ InResource(root, q) /\ BaseIn(doc, q) = BaseIn(doc, root)
    BY <2>4, <2>6, <2>7 DEF IsResource, uri
  <2> QED BY <1>2, <2>8 DEF root
<1> QED BY <1>5, <1>6

\* Whatever the document, if its resources and their dynamic anchors can be told
\* apart: a dynamic anchor belongs to the resource that it is written in, and to
\* no other, and none is lost.
THEOREM ScopesAreMeant ==
  /\ NestedDirectly /\ PointersStay /\ OnlySchemas
  /\ DistinctResources /\ DistinctKeys /\ DistinctAnchors
  /\ Spec
  => []ScopesAsMeant
<1> SUFFICES ASSUME NestedDirectly, PointersStay, OnlySchemas,
                    DistinctResources, DistinctKeys, DistinctAnchors
             PROVE  Spec => []ScopesAsMeant
  OBVIOUS
<1>1. IInv /\ BaseInv /\ ScopeInv /\ Built => ScopesAsMeant
  <2> SUFFICES ASSUME IInv, BaseInv, ScopeInv, Built, pc = "done"
               PROVE  ScopesAsMeant
    BY DEF ScopesAsMeant
  <2> DEFINE PlaceOf(k) == nodes[pending[k].node].loc
             KeyAt(k) == KeyIn(anchors, rootIndex, pending[k])
             RootAt(k) == nodes[KeyAt(k)[1]].loc
  <2>1. \A k \in 1..Len(pending) :
          /\ IsResource(RootAt(k)) /\ InResource(RootAt(k), PlaceOf(k))
          /\ PlaceOf(k) \in DOMAIN doc /\ doc[PlaceOf(k)].dynamicAnchor = pending[k].name /\ pending[k].name # ""
          /\ BaseIn(doc, PlaceOf(k)) = BaseIn(doc, RootAt(k))
    BY RootOfEntry
  <2>2. /\ \A key \in DOMAIN scopes : \E k \in 1..Len(pending) : key = KeyAt(k) /\ scopes[key] = pending[k].node
        /\ \A k \in 1..Len(pending) : KeyAt(k) \in DOMAIN scopes
    BY DEF Built
  <2>3. \A k \in 1..Len(pending) : KeyAt(k)[2] = pending[k].name
    BY DEF KeyIn
  <2> HIDE DEF KeyAt
  <2>4. ASSUME NEW key \in DOMAIN scopes
        PROVE  /\ IsResource(nodes[key[1]].loc)
               /\ InResource(nodes[key[1]].loc, nodes[scopes[key]].loc)
               /\ doc[nodes[scopes[key]].loc].dynamicAnchor = key[2]
    <3>1. PICK k \in 1..Len(pending) : key = KeyAt(k) /\ scopes[key] = pending[k].node
      BY <2>2
    <3> QED BY <2>1, <2>3, <3>1
  <2>5. ASSUME NEW k \in 1..Len(pending)
        PROVE  \E key \in DOMAIN scopes :
                 key[2] = pending[k].name /\ nodes[scopes[key]].loc = nodes[pending[k].node].loc
    <3>1. PICK m \in 1..Len(pending) : KeyAt(k) = KeyAt(m) /\ scopes[KeyAt(k)] = pending[m].node
      BY <2>2
    <3>2. BaseIn(doc, PlaceOf(k)) = BaseIn(doc, PlaceOf(m)) /\ pending[k].name = pending[m].name
      BY <2>1, <2>3, <3>1
    <3>3. doc \in Docs
      BY DEF IInv
    <3> HIDE DEF PlaceOf
    <3>4. PlaceOf(k) = PlaceOf(m)
      BY <2>1, <3>2, <3>3 DEF DistinctAnchors
    <3> QED BY <2>2, <2>3, <3>1, <3>4 DEF PlaceOf
  <2> QED BY <2>4, <2>5 DEF ScopesAsMeant
<1>2. Init => BaseInv /\ ScopeInv /\ Built
  BY InitBase, InitScope DEF Init, Built
<1>3. IInv /\ BaseInv /\ ScopeInv /\ Built /\ [Next]_vars => BaseInv' /\ ScopeInv' /\ Built'
  BY NextBase, NextScope, NextBuilt
<1> QED BY <1>1, <1>2, <1>3, Inductive, PTL DEF Spec

==============================================================================
