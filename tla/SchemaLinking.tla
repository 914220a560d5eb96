----------------------------- MODULE SchemaLinking -----------------------------
(***************************************************************************)
(* Compilation of a schema document into nodes, and the linking of its     *)
(* references: compileSchemaNode, one call per frame of the stack, and the *)
(* passes of resolveAllReferences without a fetcher (fetching is the       *)
(* subject of SchemaRegistry).                                             *)
(*                                                                         *)
(* A document is a function from the locations of its schemas (paths from  *)
(* the root) to what compilation looks at: kind, $id, $anchor,             *)
(* $dynamicAnchor, $ref, $dynamicRef, the locations of definitions and of  *)
(* the subschemas of other keywords in the order of compilation, and       *)
(* whether there are keywords besides the metadata.  A URI is a sequence   *)
(* of segments, absolute if the first is an authority; a reference is a    *)
(* URI and what follows its "#", and so is a key of the anchor table: the  *)
(* key "n" of an unscoped anchor is that of the relative URI "n", as it is *)
(* in the code.  Dot segments, percent escapes and pointers to anything    *)
(* but a schema are left out.                                              *)
(***************************************************************************)
EXTENDS Integers, Sequences, SequencesExt

CONSTANTS
  Docs,         \* schema documents
  Authorities,  \* scheme and host: the first segment of an absolute URI
  MaxPasses     \* kMaxPasses: 16 in the code

Uri == Seq(STRING)
Path == Seq(STRING)
RefType == [uri : Uri, part : {"absent", "none", "pointer", "name"}, path : Path]
SchemaType ==
  [kind : {"object", "bool", "malformed"}, id : Uri, anchor : STRING, dynamicAnchor : STRING,
   ref : RefType, dynamicRef : RefType, defs : Seq(Path), keywords : Seq(Path), asserts : BOOLEAN]

\* The definitions and subschemas that a schema lists are in the document; only
\* an object has members.
ASSUME DocsAssumption ==
  \A d \in Docs :
    /\ <<>> \in DOMAIN d
    /\ \A loc \in DOMAIN d :
         /\ loc \in Path
         /\ d[loc] \in SchemaType
         /\ d[loc].kind # "object" => d[loc].id = <<>>
         /\ \A k \in 1..Len(d[loc].defs) : loc \o d[loc].defs[k] \in DOMAIN d
         /\ \A k \in 1..Len(d[loc].keywords) : loc \o d[loc].keywords[k] \in DOMAIN d
ASSUME AuthoritiesAssumption == Authorities \subseteq STRING
ASSUME MaxPassesAssumption == MaxPasses \in Nat

VARIABLES
  doc,          \* the schema document
  pc,           \* phase of compileSchema
  stack,        \* compileSchemaNode calls in progress
  result,       \* what the last of them returned: a node, Failed, or Nothing
  baseUri,      \* ctx.baseUri
  nodes,        \* compiled.nodes; loc and base are history
  anchors,      \* ctx.anchors
  resources,    \* ctx.resourceDocuments, by location
  pending,      \* ctx.pendingDynamicAnchors
  rootIndex,    \* compiled.rootIndex
  start, end,   \* the nodes of the pass
  i, pass,      \* the loops of resolveAllReferences
  via,          \* resolveRef: the resource whose pointer is compiled, and the
                \* base URI to restore
  scopes        \* compiled.resourceDynamicAnchors: by resource root and name

linkVars == <<rootIndex, start, end, i, pass, via, scopes>>
vars == <<doc, pc, stack, result, baseUri, nodes, anchors, resources, pending, linkVars>>

Phases == {"tree", "pass", "resolve", "compile", "linked", "scopes", "done", "failed"}
FrameType ==
  [loc : Path, outer : Uri, open : BOOLEAN, defs : Seq(Path), keywords : Seq(Path),
   refsAdded : BOOLEAN, children : Seq(Nat)]
NodeType ==
  [kind : {"bool", "object", "ref", "dynamicRef"}, ref : RefType, target : Nat, children : Seq(Nat),
   self : Nat, loc : Path, base : Uri]
PendingType == [uri : Uri, name : STRING, node : Nat]

Nothing == 0
Failed == -1
Unresolved == 0   \* RefSchema::kUnresolved; nodes are counted from 1

-----------------------------------------------------------------------------
(* URIs, references and keys *)

Reference(uri, part, path) == [uri |-> uri, part |-> part, path |-> path]
NoRef == Reference(<<>>, "absent", <<>>)
UriKey(uri) == Reference(uri, "none", <<>>)

Absolute(uri) == uri # <<>> /\ Head(uri) \in Authorities

\* resolveUri; a base URI has a path
Resolve(uri, base) ==
  IF Absolute(uri) \/ base = <<>> THEN uri
  ELSE IF uri # <<>> /\ Head(uri) = ""
  THEN IF Absolute(base) THEN <<Head(base)>> \o Tail(uri) ELSE uri
  ELSE IF Len(base) = 1 THEN uri ELSE Front(base) \o uri

\* A local fragment belongs to the current resource; "#" stays as it is.
Qualified(ref, base) ==
  IF ref.uri = <<>> /\ ref.path # <<>> THEN [ref EXCEPT !.uri = base] ELSE ref

\* scopedAnchorKey
ScopedKey(name, base) ==
  IF base = <<>> THEN UriKey(<<name>>) ELSE Reference(base, "name", <<name>>)

\* The text after "#", taken as a key.
FragmentKey(ref) ==
  IF ref.part = "name" \/ ref.path = <<>> THEN UriKey(ref.path) ELSE UriKey(<<"">> \o ref.path)

\* The same fragment of the last segment of a URI.
FilenameKey(ref, uri) == [ref EXCEPT !.uri = IF uri = <<>> THEN uri ELSE <<Last(uri)>>]

Put(m, k, x) == [q \in DOMAIN m \cup {k} |-> IF q = k THEN x ELSE m[q]]
PutAll(m, K, x) == [q \in DOMAIN m \cup K |-> IF q \in K THEN x ELSE m[q]]

-----------------------------------------------------------------------------
(* compileSchemaNode *)

Top == stack[Len(stack)]
Schema == doc[Top.loc]
Frame(loc) == [loc |-> loc, outer |-> baseUri, open |-> FALSE, defs |-> <<>>, keywords |-> <<>>,
               refsAdded |-> FALSE, children |-> <<>>]

Compiling == pc \in {"tree", "compile"}
Running == Compiling /\ stack # <<>> /\ result = Nothing
InDefinitions == Running /\ Top.open /\ Top.defs # <<>>
AfterDefinitions == Running /\ Top.open /\ Top.defs = <<>>

SetTop(frame) == stack' = [stack EXCEPT ![Len(stack)] = frame]
NewNode(kind, ref, children, self) ==
  [kind |-> kind, ref |-> ref, target |-> Unresolved, children |-> children, self |-> self,
   loc |-> Top.loc, base |-> baseUri]

\* BaseUriScope restores the base URI, whatever is returned.
Return(r) == stack' = Front(stack) /\ result' = r /\ baseUri' = Top.outer

Calls(loc) == stack' = Append(stack, Frame(loc))

\* A boolean, or something that is no schema.  A keyword with a value it cannot
\* have is such a subschema, too: compilation ends there.
CompileLeaf ==
  /\ Running
  /\ ~Top.open
  /\ Schema.kind # "object"
  /\ IF Schema.kind = "bool"
     THEN /\ nodes' = Append(nodes, NewNode("bool", NoRef, <<>>, 0))
          /\ Return(Len(nodes) + 1)
     ELSE Return(Failed) /\ UNCHANGED nodes
  /\ UNCHANGED <<doc, pc, anchors, resources, pending, linkVars>>

\* processSchemaId
Open ==
  /\ Running
  /\ ~Top.open
  /\ Schema.kind = "object"
  /\ SetTop([Top EXCEPT !.open = TRUE, !.defs = Schema.defs, !.keywords = Schema.keywords])
  /\ IF Schema.id = <<>> THEN UNCHANGED <<baseUri, resources>>
     ELSE LET uri == Resolve(Schema.id, baseUri)
          IN baseUri' = uri /\ resources' = Put(resources, uri, Top.loc)
  /\ UNCHANGED <<doc, pc, result, nodes, anchors, pending, linkVars>>

\* compileDefinitionsBlock: the next definition, and the key for it.
CallDefinition ==
  /\ InDefinitions
  /\ Calls(Top.loc \o Head(Top.defs))
  /\ UNCHANGED <<doc, pc, result, baseUri, nodes, anchors, resources, pending, linkVars>>

EndDefinition ==
  /\ Compiling
  /\ stack # <<>>
  /\ Top.defs # <<>>
  /\ result > 0
  /\ anchors' = Put(anchors, Reference(<<>>, "pointer", Head(Top.defs)), result)
  /\ SetTop([Top EXCEPT !.defs = Tail(@)])
  /\ result' = Nothing
  /\ UNCHANGED <<doc, pc, baseUri, nodes, resources, pending, linkVars>>

\* A call for a subschema failed: so does this one.
Propagate ==
  /\ Compiling
  /\ stack # <<>>
  /\ result = Failed
  /\ Return(Failed)
  /\ UNCHANGED <<doc, pc, nodes, anchors, resources, pending, linkVars>>

HasRef == Schema.ref # NoRef
HasDynamicRef == Schema.dynamicRef # NoRef
IsOnlyRef == HasRef # HasDynamicRef /\ ~Schema.asserts

IdKeys == IF Schema.id = <<>> THEN {} ELSE {UriKey(Schema.id), UriKey(baseUri)}

RefNode(self) == NewNode("ref", Qualified(Schema.ref, baseUri), <<>>, self)
DynamicRefNode(self) == NewNode("dynamicRef", Qualified(Schema.dynamicRef, baseUri), <<>>, self)

\* A schema of nothing but a reference; $anchor and $dynamicAnchor are not looked at.
CompileOnlyRef ==
  /\ AfterDefinitions
  /\ IsOnlyRef
  /\ LET n == Len(nodes) + 1
     IN /\ nodes' = Append(nodes, IF HasRef THEN RefNode(n) ELSE DynamicRefNode(n))
        /\ anchors' = PutAll(anchors, IdKeys, n)
        /\ Return(n)
  /\ UNCHANGED <<doc, pc, resources, pending, linkVars>>

\* Mutant: the index of a reference is taken after it was added.
AddRefsTakesNext ==
  /\ AfterDefinitions
  /\ ~IsOnlyRef
  /\ ~Top.refsAdded
  /\ LET added == (IF HasRef THEN <<RefNode(0)>> ELSE <<>>)
                    \o (IF HasDynamicRef THEN <<DynamicRefNode(0)>> ELSE <<>>)
     IN /\ nodes' = nodes \o added
        /\ SetTop([Top EXCEPT !.refsAdded = TRUE,
                              !.children = [k \in 1..Len(added) |-> Len(nodes) + k + 1]])
  /\ UNCHANGED <<doc, pc, result, baseUri, anchors, resources, pending, linkVars>>

\* The references of a schema with other keywords are members of its allOf.
AddRefs ==
  /\ AfterDefinitions
  /\ ~IsOnlyRef
  /\ ~Top.refsAdded
  /\ LET added == (IF HasRef THEN <<RefNode(0)>> ELSE <<>>)
                    \o (IF HasDynamicRef THEN <<DynamicRefNode(0)>> ELSE <<>>)
     IN /\ nodes' = nodes \o added
        /\ SetTop([Top EXCEPT !.refsAdded = TRUE,
                              !.children = [k \in 1..Len(added) |-> Len(nodes) + k]])
  /\ UNCHANGED <<doc, pc, result, baseUri, anchors, resources, pending, linkVars>>

CallKeyword ==
  /\ AfterDefinitions
  /\ Top.refsAdded
  /\ Top.keywords # <<>>
  /\ Calls(Top.loc \o Head(Top.keywords))
  /\ UNCHANGED <<doc, pc, result, baseUri, nodes, anchors, resources, pending, linkVars>>

EndKeyword ==
  /\ Compiling
  /\ stack # <<>>
  /\ Top.defs = <<>>
  /\ Top.keywords # <<>>
  /\ result > 0
  /\ SetTop([Top EXCEPT !.keywords = Tail(@), !.children = Append(@, result)])
  /\ result' = Nothing
  /\ UNCHANGED <<doc, pc, baseUri, nodes, anchors, resources, pending, linkVars>>

CompiledKeys ==
  IdKeys
    \cup (IF Schema.anchor = "" THEN {} ELSE {ScopedKey(Schema.anchor, baseUri)})
    \cup (IF Schema.dynamicAnchor = "" THEN {}
          ELSE {ScopedKey(Schema.dynamicAnchor, baseUri), UriKey(<<Schema.dynamicAnchor>>)})

\* The schema's own node, after those of its subschemas.
CompileObject ==
  /\ AfterDefinitions
  /\ Top.refsAdded
  /\ Top.keywords = <<>>
  /\ LET n == Len(nodes) + 1
     IN /\ nodes' = Append(nodes, NewNode("object", NoRef, Top.children, n))
        /\ anchors' = PutAll(anchors, CompiledKeys, n)
        /\ pending' = IF Schema.dynamicAnchor = "" THEN pending
                      ELSE Append(pending, [uri |-> baseUri, name |-> Schema.dynamicAnchor, node |-> n])
        /\ Return(n)
  /\ UNCHANGED <<doc, pc, resources, linkVars>>

\* phase2_CompileSchemaTree returns.
TreeCompiled ==
  /\ pc = "tree"
  /\ stack = <<>>
  /\ pc' = IF result = Failed THEN "failed" ELSE "pass"
  /\ rootIndex' = IF result = Failed THEN rootIndex ELSE result
  /\ result' = Nothing
  /\ UNCHANGED <<doc, stack, baseUri, nodes, anchors, resources, pending, start, end, i, pass, via, scopes>>

-----------------------------------------------------------------------------
(* resolveAllReferences, resolveRef, resolveDynRef *)

BeginPass ==
  /\ pc = "pass"
  /\ IF pass < MaxPasses /\ start < Len(nodes)
     THEN end' = Len(nodes) /\ i' = start + 1 /\ pc' = "resolve"
     ELSE pc' = "linked" /\ UNCHANGED <<end, i>>
  /\ UNCHANGED <<doc, stack, result, baseUri, nodes, anchors, resources, pending, rootIndex, start, pass, via, scopes>>

AtNode == pc = "resolve" /\ i <= end
Node == nodes[i]
IsOpen == Node.kind \in {"ref", "dynamicRef"} /\ Node.target = Unresolved

Skip ==
  /\ AtNode
  /\ ~IsOpen
  /\ i' = i + 1
  /\ UNCHANGED <<doc, pc, stack, result, baseUri, nodes, anchors, resources, pending, rootIndex, start, end, pass, via, scopes>>

\* The URI of a relative reference is resolved if that is a known resource.
Located ==
  LET resolved == Resolve(Node.ref.uri, Node.base)
  IN IF /\ ~Absolute(Node.ref.uri) /\ Absolute(Node.base)
        /\ UriKey(resolved) \in DOMAIN anchors \/ resolved \in DOMAIN resources
     THEN resolved ELSE Node.ref.uri

\* The keys tried first, in this order.
KeysBefore ==
  IF Node.ref.uri = <<>> THEN <<Node.ref, FragmentKey(Node.ref)>>
  ELSE IF Node.ref.part = "none" THEN <<Node.ref>>
  ELSE <<Node.ref, [Node.ref EXCEPT !.uri = Located], FragmentKey(Node.ref)>>

\* The keys tried last; a $dynamicRef falls back to its anchor's name.
KeysAfter(uri) ==
  (IF Node.ref.uri = <<>> \/ Node.ref.part = "none" THEN <<>> ELSE <<FilenameKey(Node.ref, uri)>>)
    \o (IF Node.ref.uri # <<>> /\ ~Absolute(Node.ref.uri) /\ Absolute(Node.base)
        THEN <<[Node.ref EXCEPT !.uri = Resolve(@, Node.base)]>> ELSE <<>>)
    \o (IF Node.kind = "ref" THEN <<>>
        ELSE IF Node.ref.part = "none" THEN <<Node.ref>>
        ELSE <<FragmentKey(Node.ref), FilenameKey(Node.ref, Node.ref.uri)>>)

\* The node of the first key that the table has.
Lookup(keys) ==
  LET found == {k \in DOMAIN keys : keys[k] \in DOMAIN anchors}
  IN IF found = {} THEN Unresolved ELSE anchors[keys[Min(found)]]

IsRoot == Node.ref = Reference(<<>>, "pointer", <<>>)   \* "#"
RootOfResource ==
  IF Node.base # <<>> /\ UriKey(Node.base) \in DOMAIN anchors THEN anchors[UriKey(Node.base)]
  ELSE rootIndex

\* A pointer into the document, or into that of a known resource.
HasPlace ==
  /\ Node.ref.part = "pointer"
  /\ Node.ref.path # <<>>
  /\ Node.ref.uri = <<>> \/ Located \in DOMAIN resources
Place == (IF Node.ref.uri = <<>> THEN <<>> ELSE resources[Located]) \o Node.ref.path
IsPointer == HasPlace /\ Place \in DOMAIN doc

\* A resource root that a pointer leads to has been compiled already.
KnownRoot ==
  IF Node.ref.uri # <<>> /\ doc[Place].kind = "object" /\ doc[Place].id # <<>>
  THEN Lookup(<<UriKey(doc[Place].id)>>) ELSE Unresolved

Early ==
  IF IsRoot THEN RootOfResource
  ELSE IF Lookup(KeysBefore) # Unresolved THEN Lookup(KeysBefore)
  ELSE IF IsPointer THEN KnownRoot
  ELSE Unresolved

LinkTo(n) ==
  /\ nodes' = [nodes EXCEPT ![i].target = n]
  /\ i' = i + 1

\* Found in the anchor table, or nowhere.
Link ==
  /\ AtNode
  /\ IsOpen
  /\ Early # Unresolved \/ ~IsPointer
  /\ LinkTo(IF Early # Unresolved THEN Early ELSE Lookup(KeysAfter(Located)))
  /\ UNCHANGED <<doc, pc, stack, result, baseUri, anchors, resources, pending, rootIndex, start, end, pass, via, scopes>>

\* Mutant: the target is compiled under the base URI in force.
CompileTargetWithoutBase ==
  /\ AtNode
  /\ IsOpen
  /\ Early = Unresolved
  /\ IsPointer
  /\ pc' = "compile"
  /\ via' = [uri |-> IF Node.ref.uri = <<>> THEN <<>> ELSE Located, saved |-> baseUri]
  /\ baseUri' = baseUri
  /\ stack' = <<[Frame(Place) EXCEPT !.outer = baseUri']>>
  /\ UNCHANGED <<doc, result, nodes, anchors, resources, pending, rootIndex, start, end, i, pass, scopes>>

\* The schema that a pointer leads to is compiled, again if need be.
CompileTarget ==
  /\ AtNode
  /\ IsOpen
  /\ Early = Unresolved
  /\ IsPointer
  /\ pc' = "compile"
  /\ via' = [uri |-> IF Node.ref.uri = <<>> THEN <<>> ELSE Located, saved |-> baseUri]
  /\ baseUri' = IF Node.ref.uri = <<>> THEN baseUri ELSE Located
  /\ stack' = <<[Frame(Place) EXCEPT !.outer = baseUri']>>
  /\ UNCHANGED <<doc, result, nodes, anchors, resources, pending, rootIndex, start, end, i, pass, scopes>>

\* A new reference belongs to the resource that it was found in.
Owned ==
  IF UriKey(via.uri) \in DOMAIN anchors /\ nodes[result].kind \in {"ref", "dynamicRef"}
  THEN [nodes EXCEPT ![result].self = anchors[UriKey(via.uri)]] ELSE nodes

TargetCompiled ==
  /\ pc = "compile"
  /\ stack = <<>>
  /\ nodes' = IF result = Failed THEN [nodes EXCEPT ![i].target = Lookup(KeysAfter(via.uri))]
              ELSE [Owned EXCEPT ![i].target = result]
  /\ i' = i + 1
  /\ pc' = "resolve"
  /\ result' = Nothing
  /\ baseUri' = via.saved
  /\ UNCHANGED <<doc, stack, anchors, resources, pending, rootIndex, start, end, pass, via, scopes>>

\* Mutant: the nodes added in a pass are not looked at.
EndPassIgnoresNew ==
  /\ pc = "resolve"
  /\ i > end
  /\ start' = end
  /\ pc' = "linked"
  /\ UNCHANGED <<doc, stack, result, baseUri, nodes, anchors, resources, pending, rootIndex, end, i, pass, via, scopes>>

\* Mutant: the last pass is repeated.
EndPassStays ==
  /\ pc = "resolve"
  /\ i > end
  /\ pc' = IF Len(nodes) = end THEN "pass" ELSE "linked"
  /\ UNCHANGED <<doc, stack, result, baseUri, nodes, anchors, resources, pending, rootIndex, start, end, i, pass, via, scopes>>

EndPass ==
  /\ pc = "resolve"
  /\ i > end
  /\ start' = end
  /\ IF Len(nodes) = end THEN pc' = "linked" /\ UNCHANGED pass
     ELSE pc' = "pass" /\ pass' = pass + 1
  /\ UNCHANGED <<doc, stack, result, baseUri, nodes, anchors, resources, pending, rootIndex, end, i, via, scopes>>

-----------------------------------------------------------------------------
(* The policy for unresolved references, and the dynamic anchors of each resource *)

HasOpen == \E n \in DOMAIN nodes : nodes[n].kind \in {"ref", "dynamicRef"} /\ nodes[n].target = Unresolved

\* Under UnresolvedRefPolicy::Fail, failClosed, open references are an error.
CheckPolicy ==
  /\ pc = "linked"
  /\ \E failClosed \in BOOLEAN :
       pc' = IF failClosed /\ HasOpen THEN "failed" ELSE "scopes"
  /\ UNCHANGED <<doc, stack, result, baseUri, nodes, anchors, resources, pending, linkVars>>

ResourceIndex(p) ==
  IF p.uri # <<>> /\ UriKey(p.uri) \in DOMAIN anchors THEN anchors[UriKey(p.uri)] ELSE rootIndex

\* Mutant: all dynamic anchors belong to the root.
ScopeKeyAtRoot(p) == <<rootIndex, p.name>>

ScopeKey(p) == <<ResourceIndex(p), p.name>>

\* Of two entries for one key, the later one stays.
BuildScopes ==
  /\ pc = "scopes"
  /\ scopes' = [key \in {ScopeKey(pending[k]) : k \in 1..Len(pending)} |->
                  pending[Max({k \in 1..Len(pending) : ScopeKey(pending[k]) = key})].node]
  /\ pc' = "done"
  /\ UNCHANGED <<doc, stack, result, baseUri, nodes, anchors, resources, pending, rootIndex, start, end, i, pass, via>>

-----------------------------------------------------------------------------

Init ==
  /\ doc \in Docs
  /\ pc = "tree"
  /\ baseUri = <<>>
  /\ stack = <<Frame(<<>>)>>
  /\ result = Nothing
  /\ nodes = <<>>
  /\ anchors = <<>>
  /\ resources = <<>>
  /\ pending = <<>>
  /\ rootIndex = 0
  /\ start = 0 /\ end = 0 /\ i = 0 /\ pass = 0
  /\ via = [uri |-> <<>>, saved |-> <<>>]
  /\ scopes = <<>>

Compile ==
  \/ CompileLeaf \/ Open \/ CallDefinition \/ EndDefinition \/ Propagate \/ CompileOnlyRef
  \/ AddRefs \/ CallKeyword \/ EndKeyword \/ CompileObject \/ TreeCompiled

Resolution == BeginPass \/ Skip \/ Link \/ CompileTarget \/ TargetCompiled \/ EndPass
              \/ CheckPolicy \/ BuildScopes

Next == Compile \/ Resolution

Spec == Init /\ [][Next]_vars

\* compileSchema runs on the caller's thread to its end.
FairSpec == Spec /\ WF_vars(Next)

-----------------------------------------------------------------------------
(* What references mean, from the document alone *)

\* The base URI of a location: that of the schemas around it, and its own.
BaseIn(d, loc) ==
  LET bases[k \in 0..Len(loc)] ==
        LET around == IF k = 0 THEN <<>> ELSE bases[k - 1]
            at == SubSeq(loc, 1, k)
        IN IF at \in DOMAIN d /\ d[at].id # <<>> THEN Resolve(d[at].id, around) ELSE around
  IN bases[Len(loc)]
LexicalBase(loc) == BaseIn(doc, loc)

IsResource(loc) == loc = <<>> \/ doc[loc].id # <<>>

\* The resource that loc is in; a resource root is in the resource around it, too.
Within(root, loc) ==
  /\ IsPrefix(root, loc)
  /\ \A q \in DOMAIN doc : IsStrictPrefix(root, q) /\ IsStrictPrefix(q, loc) => ~IsResource(q)
InResource(root, loc) == Within(root, loc) /\ (loc = root \/ ~IsResource(loc))

\* A location with something that is no schema in it cannot be compiled.
WellFormed(loc) == \A q \in DOMAIN doc : IsPrefix(loc, q) => doc[q].kind # "malformed"

\* The locations that a reference, written at a location, stands for.
Meant(ref, loc) ==
  LET base == LexicalBase(loc)
      uri == IF ref.uri = <<>> THEN base ELSE Resolve(ref.uri, base)
      roots == {q \in DOMAIN doc : IsResource(q) /\ LexicalBase(q) = uri}
  IN {t \in DOMAIN doc : WellFormed(t) /\ \E root \in roots :
        CASE ref.part = "none" -> t = root
          [] ref.part = "pointer" -> t = root \o ref.path /\ Within(root, t)
          [] ref.part = "name" -> /\ InResource(root, t)
                                  /\ Head(ref.path) \in {doc[t].anchor, doc[t].dynamicAnchor}}

Written(n) == IF nodes[n].kind = "ref" THEN doc[nodes[n].loc].ref ELSE doc[nodes[n].loc].dynamicRef
RefNodes == {n \in DOMAIN nodes : nodes[n].kind \in {"ref", "dynamicRef"}}

-----------------------------------------------------------------------------
(* Properties *)

Index == 1..Len(nodes)

\* The state of a compilation: what the C++ declarations say of each variable.
TypeOK ==
  /\ pc \in Phases
  /\ stack \in Seq(FrameType)
  /\ result \in Nat \cup {Failed}
  /\ baseUri \in Uri
  /\ nodes \in Seq(NodeType)
  /\ \A key \in DOMAIN anchors : anchors[key] \in Nat
  /\ \A uri \in DOMAIN resources : uri \in Uri /\ resources[uri] \in DOMAIN doc
  /\ pending \in Seq(PendingType)
  /\ rootIndex \in Nat /\ start \in Nat /\ end \in Nat /\ i \in Nat /\ pass \in Nat
  /\ via \in [uri : Uri, saved : Uri]
  /\ \A key \in DOMAIN scopes : scopes[key] \in Nat

\* Every index stored anywhere is that of a node (CompiledSchema::nodeAt throws
\* otherwise), and the children of a node come before it: without references,
\* validation descends through a finite tree.
IndicesValid ==
  /\ \A n \in Index :
        /\ nodes[n].target \in 0..Len(nodes)
        /\ nodes[n].self \in 0..Len(nodes)
        /\ \A k \in 1..Len(nodes[n].children) : nodes[n].children[k] \in 1..n - 1
  /\ \A key \in DOMAIN anchors : anchors[key] \in Index
  /\ \A k \in 1..Len(pending) : pending[k].node \in Index
  /\ \A key \in DOMAIN scopes : scopes[key] \in Index
  /\ pc \in {"pass", "resolve", "compile", "linked", "scopes", "done"} => rootIndex \in Index

\* Every schema is compiled under the base URI of its place in the document,
\* also when linking compiles it anew.
BaseIsLexical == \A n \in Index : nodes[n].base = LexicalBase(nodes[n].loc)

\* "Resolve all $ref/$dynamicRef to target node indices" (compileSchema): a
\* reference is linked to the schema it stands for, if there is one.
LinkedAsMeant ==
  pc = "done" =>
    \A n \in RefNodes : \A t \in Meant(Written(n), nodes[n].loc) :
      nodes[n].target # Unresolved /\ nodes[nodes[n].target].loc = t

\* The same, unless the passes were cut off.
LinkedUnlessCutOff == pass < MaxPasses => LinkedAsMeant

\* "Build per-resource dynamic anchor maps": entering a resource by any of its
\* nodes that carry its URI, a $dynamicRef finds the anchors of that resource and
\* of no other.
ScopesAsMeant ==
  pc = "done" =>
    /\ \A key \in DOMAIN scopes :
         LET root == nodes[key[1]].loc
             loc == nodes[scopes[key]].loc
         IN IsResource(root) /\ InResource(root, loc) /\ doc[loc].dynamicAnchor = key[2]
    /\ \A k \in 1..Len(pending) : \E key \in DOMAIN scopes :
         key[2] = pending[k].name /\ nodes[scopes[key]].loc = nodes[pending[k].node].loc

\* Compilation finishes, however the document refers to itself.
Finishes == <>(pc \in {"done", "failed"})

=============================================================================
