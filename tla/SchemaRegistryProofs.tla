------------------------- MODULE SchemaRegistryProofs -------------------------
(***************************************************************************)
(* Proofs about SchemaRegistry, for any documents, URIs and fetcher: its   *)
(* types, what the caches hold, and what a compilation fetches and links.  *)
(* Calls are nested to any depth where no hypothesis says otherwise.       *)
(***************************************************************************)
EXTENDS SchemaRegistry, FiniteSetTheorems, SequenceTheorems, TLAPS

\* Storing one more well-typed entry in a cache keeps it well typed.
LEMMA PutTypes ==
  ASSUME NEW S, NEW m, IsMap(m, S), NEW u \in Uris, NEW e \in S
  PROVE  IsMap(Put(m, u, e), S)
BY DEF IsMap, Put

\* So does erasing one.
LEMMA DropTypes ==
  ASSUME NEW S, NEW m, IsMap(m, S), NEW u
  PROVE  IsMap(Drop(m, u), S)
BY DEF IsMap, Drop

\* The parts of TypeOK that speak of the calls in progress.
JobsOK(js) ==
  /\ js \in Seq(JobType)
  /\ \A k \in 1..Len(js) :
       /\ js[k].pc = "askDialect" => js[k].doc.dialect \in Uris
       /\ js[k].pc = "askRef" => js[k].i \in 1..Len(js[k].nodes) /\ ~js[k].nodes[js[k].i].linked

AskOK(j) ==
  /\ j.pc = "askDialect" => j.doc.dialect \in Uris
  /\ j.pc = "askRef" => j.i \in 1..Len(j.nodes) /\ ~j.nodes[j.i].linked

\* The running call goes on, or a new one starts.
LEMMA ContinueTypes ==
  ASSUME JobsOK(jobs), jobs # <<>>, NEW j \in JobType, AskOK(j), Continue(j)
  PROVE  JobsOK(jobs')
BY DEF JobsOK, AskOK, Continue

\* A call that starts is put on top of the others.
LEMMA PushTypes ==
  ASSUME JobsOK(jobs), NEW j \in JobType, AskOK(j), jobs' = Append(jobs, j)
  PROVE  JobsOK(jobs')
BY DEF JobsOK, AskOK

\* The call that ends leaves the ones below it as they are.
LEMMA PopTypes ==
  ASSUME JobsOK(jobs), jobs # <<>>
  PROVE  JobsOK(Front(jobs))
BY DEF JobsOK, Front

\* The running call is one of the calls in progress.
LEMMA JobTypes ==
  ASSUME JobsOK(jobs), jobs # <<>>
  PROVE  Job \in JobType /\ AskOK(Job)
BY DEF JobsOK, AskOK, Job

\* Compiling a document appends nodes that are references or its own node.
LEMMA NodesTypes ==
  ASSUME NEW doc \in Docs
  PROVE  NodesOf(doc) \in Seq(NodeType)
<1>1. doc.refs \in Seq(Uris) /\ doc.valid \in BOOLEAN
  BY DocsAssumption
<1>2. [k \in 1..Len(doc.refs) |-> [ref |-> doc.refs[k], linked |-> FALSE]] \in Seq(NodeType)
  BY <1>1, LenProperties DEF NodeType
<1>3. <<[ref |-> NoUri, linked |-> TRUE]>> \in Seq(NodeType) /\ <<>> \in Seq(NodeType)
  BY DEF NodeType
<1> QED
  BY <1>1, <1>2, <1>3, ConcatProperties DEF NodesOf

-----------------------------------------------------------------------------
(* Type correctness. *)

\* A new call has well-typed locals.
LEMMA NewJobTypes ==
  ASSUME NEW uri \in MaybeUri, NEW doc \in Docs, NEW strict \in BOOLEAN
  PROVE  NewJob(uri, doc, strict) \in JobType /\ AskOK(NewJob(uri, doc, strict))
<1>1. <<>> \in Seq(NodeType)
  OBVIOUS
<1> QED
  BY <1>1 DEF NewJob, JobType, AskOK

\* The assignments of one compiled document keep the locals well typed.
LEMMA CompiledLocals ==
  ASSUME NEW j \in JobType, NEW known \in SUBSET Uris, NEW anchors \in SUBSET Uris,
         NEW malformed \in SUBSET Uris, NEW fetched \in BOOLEAN, NEW i \in Nat \ {0},
         NEW nodes \in Seq(NodeType)
  PROVE  [j EXCEPT !.known = known, !.anchors = anchors, !.nodes = nodes,
                   !.fetched = fetched, !.malformed = malformed, !.i = i, !.pc = "fetch"]
           \in JobType
<1> DEFINE some == [j EXCEPT !.known = known, !.anchors = anchors, !.malformed = malformed]
           all == [some EXCEPT !.nodes = nodes, !.fetched = fetched, !.i = i, !.pc = "fetch"]
<1>1. some \in JobType
  BY DEF JobType
<1>2. all = [j EXCEPT !.known = known, !.anchors = anchors, !.nodes = nodes,
                      !.fetched = fetched, !.malformed = malformed, !.i = i, !.pc = "fetch"]
  BY DEF JobType
<1> HIDE DEF some
<1>3. all \in JobType
  BY <1>1 DEF JobType
<1> QED
  BY <1>2, <1>3

\* So do those at the start of a pass.
LEMMA PassLocals ==
  ASSUME NEW j \in JobType, NEW nodes \in Seq(NodeType), NEW end \in Nat,
         NEW i \in Nat \ {0}, NEW fetched \in BOOLEAN
  PROVE  [j EXCEPT !.nodes = nodes, !.end = end, !.i = i, !.fetched = fetched, !.pc = "fetch"]
           \in JobType
<1> DEFINE some == [j EXCEPT !.nodes = nodes, !.end = end]
           all == [some EXCEPT !.i = i, !.fetched = fetched, !.pc = "fetch"]
<1>1. some \in JobType
  BY DEF JobType
<1>2. all = [j EXCEPT !.nodes = nodes, !.end = end, !.i = i, !.fetched = fetched, !.pc = "fetch"]
  BY DEF JobType
<1> HIDE DEF some
<1>3. all \in JobType
  BY <1>1 DEF JobType
<1> QED
  BY <1>2, <1>3

\* What a document adds to the locals of a compilation is well typed.
LEMMA CompiledTypes ==
  ASSUME NEW j \in JobType, NEW uri \in Uris, NEW doc \in Docs
  PROVE  Compiled(j, uri, doc) \in JobType /\ AskOK(Compiled(j, uri, doc))
<1> DEFINE known == j.known \cup {uri} \cup Ids(doc)
           anchors == IF doc.valid THEN j.anchors \cup {uri} \cup Ids(doc) ELSE j.anchors
           malformed == IF doc.valid THEN j.malformed ELSE j.malformed \cup {uri} \cup Ids(doc)
           fetched == j.fetched \/ doc.valid
           nodes == j.nodes \o NodesOf(doc)
           new == [j EXCEPT !.known = known, !.anchors = anchors, !.nodes = nodes,
                            !.fetched = fetched, !.malformed = malformed, !.i = j.i + 1,
                            !.pc = "fetch"]
<1>1. /\ j.known \subseteq Uris /\ j.anchors \subseteq Uris /\ j.malformed \subseteq Uris
      /\ j.nodes \in Seq(NodeType) /\ j.i \in Nat
  BY DEF JobType
<1>2. Ids(doc) \subseteq Uris
  BY DEF Ids
<1>3. known \in SUBSET Uris /\ anchors \in SUBSET Uris /\ malformed \in SUBSET Uris
  BY <1>1, <1>2
<1>4. fetched \in BOOLEAN
  OBVIOUS
<1>5. nodes \in Seq(NodeType) /\ j.i + 1 \in Nat \ {0}
  BY <1>1, NodesTypes, ConcatProperties
<1>6. Compiled(j, uri, doc) = new
  BY DEF Compiled
<1> HIDE DEF known, anchors, malformed, fetched, nodes
<1>7. new \in JobType
  BY <1>3, <1>4, <1>5, CompiledLocals
<1>8. new.pc = "fetch"
  BY DEF JobType
<1> QED
  BY <1>6, <1>7, <1>8 DEF AskOK

\* So is what a missing document adds.
LEMMA RefusedTypes ==
  ASSUME NEW j \in JobType, NEW uri \in Uris
  PROVE  Refused(j, uri) \in JobType /\ AskOK(Refused(j, uri))
<1>1. j.refused \cup {uri} \in SUBSET Uris /\ j.i + 1 \in Nat \ {0}
  BY DEF JobType
<1> QED
  BY <1>1 DEF Refused, JobType, AskOK

\* The node the fetch loop looks at, and the URI it may ask for.
LEMMA NodeTypes ==
  ASSUME JobsOK(jobs), AtNode
  PROVE  /\ Node \in NodeType /\ Job.i \in 1..Len(Job.nodes)
         /\ ~Node.linked => Node.ref \in Uris
<1>1. Job \in JobType
  BY JobTypes DEF AtNode, At
<1>2. Job.i \in Nat \ {0} /\ Job.nodes \in Seq(NodeType)
  BY <1>1 DEF JobType
<1>3. Job.i \in 1..Len(Job.nodes)
  BY <1>2, LenProperties DEF AtNode
<1>4. Node \in NodeType
  BY <1>2, <1>3, ElementOfSeq DEF Node
<1> QED
  BY <1>3, <1>4 DEF NodeType

\* The calls of the user.
LEMMA CallTypes ==
  ASSUME TypeOK, UserCall
  PROVE  TypeOK'
<1>1. JobsOK(jobs)
  BY DEF TypeOK, JobsOK
<1>2. ASSUME NEW uri \in Uris, NEW doc \in Docs, NEW strict \in BOOLEAN, Add(uri, doc, strict)
      PROVE  TypeOK'
  <2>1. JobsOK(jobs')
    BY <1>1, <1>2, NewJobTypes, PushTypes DEF Add, Begin, MaybeUri
  <2>2. IsMap(documents', Docs)
    BY <1>2, PutTypes DEF TypeOK, Add
  <2> QED
    BY <2>1, <2>2, <1>2, BoundsAssumption DEF TypeOK, JobsOK, Add, Begin
<1>3. ASSUME NEW doc \in Docs, NEW strict \in BOOLEAN, CreateMiss(doc, strict)
      PROVE  TypeOK'
  <2>1. JobsOK(jobs')
    BY <1>1, <1>3, NewJobTypes, PushTypes DEF CreateMiss, Begin, MaybeUri
  <2> QED
    BY <2>1, <1>3, BoundsAssumption DEF TypeOK, JobsOK, CreateMiss, Begin
<1>4. ASSUME NEW doc \in Docs, NEW strict \in BOOLEAN, CreateHit(doc, strict)
      PROVE  TypeOK'
  BY <1>4, BoundsAssumption DEF TypeOK, CreateHit
<1>5. ASSUME NEW uri \in Uris, RemoveSchema(uri)
      PROVE  TypeOK'
  <2>1. IsMap(compiled', SchemaType) /\ IsMap(documents', Docs)
    BY <1>5, DropTypes DEF TypeOK, RemoveSchema
  <2> QED
    BY <2>1, <1>5 DEF TypeOK, RemoveSchema
<1>6. CASE Clear
  <2>1. IsMap(compiled', SchemaType) /\ IsMap(documents', Docs)
    BY <1>6 DEF Clear, IsMap
  <2> QED
    BY <2>1, <1>6 DEF TypeOK, Clear
<1>7. ASSUME NEW set \in BOOLEAN, SetFetcher(set)
      PROVE  TypeOK'
  BY <1>7 DEF TypeOK, SetFetcher
<1> QED
  BY <1>2, <1>3, <1>4, <1>5, <1>6, <1>7 DEF UserCall

\* The steps of a compilation that change nothing but its locals.
LEMMA LocalTypes ==
  ASSUME TypeOK,
         Dialect \/ Tree \/ Link \/ Skip \/ UseCached \/ NoUpstream \/ Ask \/ EndPass
  PROVE  TypeOK'
<1>1. JobsOK(jobs) /\ jobs # <<>>
  BY DEF TypeOK, JobsOK, Dialect, Tree, Link, Skip, UseCached, NoUpstream, Ask, EndPass, AtNode, At
<1>2. Job \in JobType
  BY <1>1, JobTypes
<1>3. Job.nodes \in Seq(NodeType) /\ Job.i \in Nat \ {0} /\ Job.doc \in Docs
  BY <1>2 DEF JobType
<1>4. JobsOK(jobs')
  <2>1. CASE Dialect
    <3> DEFINE pc == IF \/ Job.doc.dialect = NoUri \/ Job.doc.dialect \in DOMAIN documents
                        \/ ~hasFetcher
                     THEN "tree" ELSE "askDialect"
               new == [Job EXCEPT !.pc = pc]
    <3>1. new \in JobType /\ new.doc = Job.doc /\ new.pc = pc
      BY <1>2 DEF JobType
    <3>2. Job.doc.dialect \in MaybeUri
      BY <1>3, DocsAssumption
    <3>3. AskOK(new)
      BY <3>1, <3>2 DEF AskOK, MaybeUri
    <3>4. Continue(new)
      BY <2>1 DEF Dialect
    <3> QED
      BY <3>1, <3>3, <3>4, <1>1, ContinueTypes
  <2>2. CASE Tree
    <3>1. NodesOf(Job.doc) \in Seq(NodeType) /\ Ids(Job.doc) \subseteq Uris
      BY <1>3, NodesTypes DEF Ids
    <3> QED
      BY <3>1, <2>2, <1>1, <1>2, ContinueTypes DEF Tree, JobType, AskOK
  <2>3. CASE Link
    <3> DEFINE linked == [k \in DOMAIN Job.nodes |->
                            IF k > Job.start /\ Job.nodes[k].ref \in Job.anchors
                            THEN [Job.nodes[k] EXCEPT !.linked = TRUE] ELSE Job.nodes[k]]
    <3>1. linked \in Seq(NodeType)
      <4>1. Job.anchors \subseteq Uris
        BY <1>2 DEF JobType
      <4>2. ASSUME NEW k \in DOMAIN Job.nodes
            PROVE  linked[k] \in NodeType
        <5>1. Job.nodes[k] \in NodeType
          BY <1>3
        <5> QED
          BY <5>1, <4>1 DEF NodeType
      <4>3. DOMAIN Job.nodes = 1..Len(Job.nodes) /\ Len(Job.nodes) \in Nat
        BY <1>3, LenProperties
      <4>4. linked = [k \in 1..Len(Job.nodes) |-> linked[k]]
        BY <4>3
      <4> HIDE DEF linked
      <4> QED
        BY <4>2, <4>3, <4>4
    <3>2. Len(Job.nodes) \in Nat
      BY <1>3, LenProperties
    <3> HIDE DEF linked
    <3>3. \/ Continue([Job EXCEPT !.nodes = linked, !.end = Len(Job.nodes), !.i = 1,
                                  !.fetched = FALSE, !.pc = "fetch"])
          \/ Continue([Job EXCEPT !.pc = "finish"])
      BY <2>3 DEF Link, linked
    <3>4. /\ [Job EXCEPT !.nodes = linked, !.end = Len(Job.nodes), !.i = 1,
                         !.fetched = FALSE, !.pc = "fetch"] \in JobType
          /\ [Job EXCEPT !.pc = "finish"] \in JobType
      <4>1. [Job EXCEPT !.pc = "finish"] \in JobType
        BY <1>2 DEF JobType
      <4>2. \A i \in Nat \ {0}, fetched \in BOOLEAN :
              [Job EXCEPT !.nodes = linked, !.end = Len(Job.nodes), !.i = i,
                          !.fetched = fetched, !.pc = "fetch"] \in JobType
        BY <3>1, <3>2, <1>2, PassLocals
      <4>3. 1 \in Nat \ {0} /\ FALSE \in BOOLEAN
        OBVIOUS
      <4> QED
        BY <4>1, <4>2, <4>3, Zenon
    <3> QED
      BY <3>3, <3>4, <1>1, <1>2, ContinueTypes DEF AskOK, JobType
  <2>4. CASE Skip
    <3> DEFINE new == [Job EXCEPT !.i = Job.i + 1]
    <3>1. new \in JobType /\ new.pc = "fetch"
      BY <2>4, <1>2, <1>3 DEF Skip, AtNode, At, JobType
    <3> QED
      BY <3>1, <2>4, <1>1, ContinueTypes DEF Skip, AskOK
  <2>5. CASE UseCached
    <3>1. documents[Node.ref] \in Docs /\ Node.ref \in Uris
      BY <2>5 DEF UseCached, TypeOK, IsMap
    <3> QED
      BY <3>1, <2>5, <1>1, <1>2, CompiledTypes, ContinueTypes DEF UseCached
  <2>6. CASE NoUpstream
    <3>1. Node.ref \in Uris
      BY <2>6, <1>1, NodeTypes DEF NoUpstream, Wanted
    <3>2. AskOK(Refused(Job, Node.ref)) /\ Refused(Job, Node.ref) \in JobType
      BY <3>1, <1>2, RefusedTypes
    <3> QED
      BY <3>2, <2>6, <1>1, ContinueTypes DEF NoUpstream
  <2>7. CASE Ask
    <3>1. Job.i \in 1..Len(Job.nodes) /\ ~Job.nodes[Job.i].linked
      BY <2>7, <1>1, NodeTypes DEF Ask, Wanted, Node
    <3> QED
      BY <3>1, <2>7, <1>1, <1>2, ContinueTypes DEF Ask, JobType, AskOK
  <2>8. CASE EndPass
    <3> DEFINE new == [Job EXCEPT
                         !.start = IF Job.fetched THEN 0 ELSE Job.end,
                         !.pass = Job.pass + 1,
                         !.pc = IF Job.fetched \/ Len(Job.nodes) # Job.end
                                THEN "link" ELSE "finish"]
    <3>1. (IF Job.fetched THEN 0 ELSE Job.end) \in Nat /\ Job.pass + 1 \in Nat
      BY <1>2 DEF JobType
    <3>2. new \in JobType /\ new.pc \in {"link", "finish"}
      BY <3>1, <1>2 DEF JobType
    <3> HIDE DEF new
    <3>3. AskOK(new)
      BY <3>2 DEF AskOK
    <3>4. Continue(new)
      BY <2>8 DEF EndPass, new
    <3> QED
      BY <3>2, <3>3, <3>4, <1>1, ContinueTypes
  <2> QED
    BY <2>1, <2>2, <2>3, <2>4, <2>5, <2>6, <2>7, <2>8
<1> QED
  BY <1>4 DEF TypeOK, JobsOK, Dialect, Tree, Link, Skip, UseCached, NoUpstream, Ask, EndPass

\* The user's fetcher returns: what is cached and compiled is its document, under
\* the URI it was asked for.
LEMMA AnswerTypes ==
  ASSUME TypeOK, NEW doc \in Docs \cup {NoDoc}, Answer(doc)
  PROVE  TypeOK'
<1>1. JobsOK(jobs) /\ jobs # <<>>
  BY DEF TypeOK, JobsOK, Answer, At
<1>2. Job \in JobType /\ AskOK(Job)
  BY <1>1, JobTypes
<1>3. Asked \in Uris
  <2>1. CASE Job.pc = "askDialect"
    BY <2>1, <1>2 DEF Asked, AskOK
  <2>2. CASE Job.pc = "askRef"
    <3>1. Job.i \in 1..Len(Job.nodes) /\ ~Node.linked
      BY <2>2, <1>2 DEF AskOK, Node
    <3>2. Node \in NodeType
      BY <3>1, <1>2, ElementOfSeq DEF Node, JobType
    <3> QED
      BY <2>2, <3>1, <3>2 DEF Asked, NodeType
  <2> QED
    BY <2>1, <2>2 DEF Answer, At
<1>4. JobsOK(jobs')
  <2>1. CASE Job.pc = "askDialect"
    <3>1. [Job EXCEPT !.pc = "tree"] \in JobType /\ AskOK([Job EXCEPT !.pc = "tree"])
      BY <1>2 DEF JobType, AskOK
    <3> QED
      BY <2>1, <3>1, <1>1, ContinueTypes DEF Answer
  <2>2. CASE Job.pc # "askDialect" /\ doc = NoDoc
    BY <2>2, <1>1, <1>2, <1>3, RefusedTypes, ContinueTypes DEF Answer
  <2>3. CASE Job.pc # "askDialect" /\ doc # NoDoc
    BY <2>3, <1>1, <1>2, <1>3, CompiledTypes, ContinueTypes DEF Answer
  <2> QED
    BY <2>1, <2>2, <2>3
<1>5. IsMap(documents', Docs)
  BY <1>3, PutTypes DEF TypeOK, Answer
<1>6. upstream' \in [Uris -> Nat]
  BY <1>3 DEF TypeOK, Answer
<1> QED
  BY <1>4, <1>5, <1>6 DEF TypeOK, JobsOK, Answer

\* The schema a compilation returns is a schema.
LEMMA SchemaTypes ==
  ASSUME NEW j \in JobType
  PROVE  Schema(j) \in SchemaType
<1>1. Unlinked(j) \subseteq Uris
  <2>1. ASSUME NEW k \in DOMAIN j.nodes, ~j.nodes[k].linked
        PROVE  j.nodes[k].ref \in Uris
    <3>1. j.nodes[k] \in NodeType
      BY DEF JobType
    <3> QED
      BY <2>1, <3>1 DEF NodeType
  <2> QED
    BY <2>1 DEF Unlinked
<1>2. j.doc \in Docs /\ j.refused \subseteq Uris /\ j.malformed \subseteq Uris
  BY DEF JobType
<1> QED
  BY <1>1, <1>2 DEF Schema, SchemaType

\* A call ends.
LEMMA FinishTypes ==
  ASSUME TypeOK, Finish
  PROVE  TypeOK'
<1>1. JobsOK(jobs) /\ jobs # <<>>
  BY DEF TypeOK, JobsOK, Finish, At
<1>2. Job \in JobType
  BY <1>1, JobTypes
<1>3. JobsOK(jobs')
  BY <1>1, PopTypes DEF Finish
<1>4. IsMap(compiled', SchemaType)
  <2>1. CASE compiled' = compiled
    BY <2>1 DEF TypeOK
  <2>2. CASE compiled' = Cached(Job)
    <3>1. Schema(Job) \in SchemaType
      BY <1>2, SchemaTypes
    <3>2. DOMAIN Cached(Job) \subseteq Uris
      BY DEF TypeOK, IsMap, Cached, Ids
    <3>3. ASSUME NEW u \in DOMAIN Cached(Job)
          PROVE  Cached(Job)[u] \in SchemaType
      BY <3>1 DEF TypeOK, IsMap, Cached, Ids
    <3> QED
      BY <2>2, <3>2, <3>3 DEF IsMap
  <2> QED
    BY <2>1, <2>2 DEF Finish
<1>5. outcome'.kind \in {"none", "ok", "error"}
  BY DEF Finish
<1> QED
  BY <1>3, <1>4, <1>5 DEF TypeOK, JobsOK, Finish

\* Whatever the user and the fetcher do, the registry's caches hold schemas and
\* documents under URIs, and the calls in progress are well formed.
THEOREM RegistryTypes == Spec => []TypeOK
<1>1. Init => TypeOK
  BY BoundsAssumption DEF Init, TypeOK, IsMap, NoOutcome
<1>2. TypeOK /\ [Next]_vars => TypeOK'
  <2> SUFFICES ASSUME TypeOK, [Next]_vars
               PROVE  TypeOK'
    OBVIOUS
  <2>1. CASE UserCall
    BY <2>1, CallTypes
  <2>2. CASE UserAnswer
    BY <2>2, AnswerTypes DEF UserAnswer
  <2>3. CASE Finish
    BY <2>3, FinishTypes
  <2>4. CASE Dialect \/ Tree \/ Link \/ Skip \/ UseCached \/ NoUpstream \/ Ask \/ EndPass
    BY <2>4, LocalTypes
  <2>5. CASE UNCHANGED vars
    BY <2>5 DEF vars, TypeOK
  <2> QED
    BY <2>1, <2>2, <2>3, <2>4, <2>5 DEF Next, Step
<1> QED
  BY <1>1, <1>2, PTL DEF Spec

-----------------------------------------------------------------------------
(* What the caches hold. *)

\* A call started with a URI registered its document under that URI first.
JobsRegistered ==
  \A k \in 1..Len(jobs) :
    jobs[k].uri \in Uris => <<jobs[k].uri, jobs[k].doc>> \in registered

\* What a step keeps of the call it advances.
Keeps(j) == j.uri = Job.uri /\ j.doc = Job.doc

\* So a step of the running call keeps the invariant.
LEMMA ContinueRegistered ==
  ASSUME JobsOK(jobs), JobsRegistered, jobs # <<>>, NEW j, Keeps(j), Continue(j),
         UNCHANGED registered
  PROVE  JobsRegistered'
BY DEF JobsOK, JobsRegistered, Keeps, Continue, Job

\* Every step of a compilation keeps the URI and the document it was called with.
LEMMA StepKeeps ==
  ASSUME TypeOK, JobsRegistered,
         \/ Dialect \/ Tree \/ Link \/ Skip \/ UseCached \/ NoUpstream \/ Ask \/ EndPass
         \/ UserAnswer
  PROVE  JobsRegistered'
<1>1. JobsOK(jobs)
  BY DEF TypeOK, JobsOK
<1>2. jobs # <<>>
  BY DEF Dialect, Tree, Link, Skip, UseCached, NoUpstream, Ask, EndPass, AtNode, At, UserAnswer,
         Answer
<1>3. Job \in JobType
  BY <1>1, <1>2, JobTypes
<1>4. ASSUME NEW uri, NEW doc
      PROVE  Keeps(Compiled(Job, uri, doc)) /\ Keeps(Refused(Job, uri))
  BY <1>3 DEF Keeps, Compiled, Refused, JobType
<1>5. \E j : Keeps(j) /\ Continue(j)
  <2>1. CASE Dialect
    BY <2>1, <1>3 DEF Dialect, Keeps, JobType
  <2>2. CASE Tree
    BY <2>2, <1>3 DEF Tree, Keeps, JobType
  <2>3. CASE Link
    BY <2>3, <1>3 DEF Link, Keeps, JobType
  <2>4. CASE Skip
    BY <2>4, <1>3 DEF Skip, Keeps, JobType
  <2>5. CASE UseCached \/ NoUpstream
    BY <2>5, <1>4 DEF UseCached, NoUpstream
  <2>6. CASE Ask
    BY <2>6, <1>3 DEF Ask, Keeps, JobType
  <2>7. CASE EndPass
    BY <2>7, <1>3 DEF EndPass, Keeps, JobType
  <2>8. CASE UserAnswer
    <3>1. PICK doc \in Docs \cup {NoDoc} : Answer(doc)
      BY <2>8 DEF UserAnswer
    <3>2. Keeps([Job EXCEPT !.pc = "tree"])
      BY <1>3 DEF Keeps, JobType
    <3> QED
      BY <3>1, <3>2, <1>4 DEF Answer
  <2> QED
    BY <2>1, <2>2, <2>3, <2>4, <2>5, <2>6, <2>7, <2>8
<1>6. UNCHANGED registered
  BY DEF Dialect, Tree, Link, Skip, UseCached, NoUpstream, Ask, EndPass, UserAnswer, Answer
<1> QED
  BY <1>1, <1>2, <1>5, <1>6, ContinueRegistered

\* A call that starts has registered its document, or has no URI.
LEMMA CallRegistered ==
  ASSUME TypeOK, JobsRegistered, UserCall
  PROVE  JobsRegistered'
<1>1. jobs \in Seq(JobType)
  BY DEF TypeOK
<1>2. ASSUME NEW uri \in Uris, NEW doc \in Docs, NEW strict \in BOOLEAN, Add(uri, doc, strict)
      PROVE  JobsRegistered'
  BY <1>1, <1>2 DEF Add, Begin, NewJob, JobsRegistered
<1>3. ASSUME NEW doc \in Docs, NEW strict \in BOOLEAN, CreateMiss(doc, strict)
      PROVE  JobsRegistered'
  BY <1>1, <1>3, UrisAssumption DEF CreateMiss, Begin, NewJob, JobsRegistered
<1> QED
  BY <1>2, <1>3
  DEF UserCall, CreateHit, RemoveSchema, Clear, SetFetcher, JobsRegistered

\* The names under which a finished call stores its schema are the URI it was
\* called with and the schema's $id.
LEMMA FinishNames ==
  ASSUME TypeOK, JobsRegistered, NamedSchemas, Finish
  PROVE  JobsRegistered' /\ NamedSchemas'
<1>1. jobs \in Seq(JobType) /\ jobs # <<>>
  BY DEF TypeOK, Finish, At
<1>2. JobsRegistered'
  BY <1>1 DEF JobsRegistered, Finish, Front
<1>3. Job.uri \in Uris => <<Job.uri, Job.doc>> \in registered
  BY <1>1, LenProperties DEF JobsRegistered, Job
<1>4. NamedSchemas'
  <2>1. CASE UNCHANGED compiled
    BY <2>1 DEF NamedSchemas, Finish
  <2>2. CASE compiled' = Cached(Job)
    <3>1. ASSUME NEW u \in DOMAIN Cached(Job)
          PROVE  \/ Cached(Job)[u].doc.id = u
                 \/ <<u, Cached(Job)[u].doc>> \in registered
      <4>1. CASE u \in {Job.uri} \cup Ids(Job.doc)
        <5>1. Cached(Job)[u].doc = Job.doc
          BY <4>1 DEF Cached, Schema
        <5>2. u \in Uris
          BY DEF Cached, Ids, TypeOK, IsMap
        <5> QED
          BY <5>1, <5>2, <4>1, <1>3 DEF Ids
      <4>2. CASE u \notin {Job.uri} \cup Ids(Job.doc)
        BY <4>2 DEF Cached, NamedSchemas
      <4> QED
        BY <4>1, <4>2
    <3> QED
      BY <2>2, <3>1 DEF NamedSchemas, Finish
  <2> QED
    BY <2>1, <2>2 DEF Finish
<1> QED
  BY <1>2, <1>4

\* The schemas of tier 1 change in calls to remove and clear, which only take
\* away, and when a call ends.
LEMMA CompiledChanges ==
  ASSUME Next
  PROVE  \/ UNCHANGED compiled
         \/ Finish
         \/ /\ \A u \in DOMAIN compiled' : u \in DOMAIN compiled /\ compiled'[u] = compiled[u]
            /\ UNCHANGED <<jobs, outcome, registered>>
<1>1. ASSUME NEW uri \in Uris, RemoveSchema(uri)
      PROVE  /\ \A u \in DOMAIN compiled' : u \in DOMAIN compiled /\ compiled'[u] = compiled[u]
             /\ UNCHANGED <<jobs, outcome, registered>>
  BY <1>1 DEF RemoveSchema, Drop
<1>2. ASSUME Clear
      PROVE  DOMAIN compiled' = {} /\ UNCHANGED <<jobs, outcome, registered>>
  BY <1>2 DEF Clear
<1> QED
  BY <1>1, <1>2
  DEF Next, UserCall, UserAnswer, Step, Add, Begin, CreateHit, CreateMiss, SetFetcher, Answer,
      Dialect, Tree, Link, Skip, UseCached, NoUpstream, Ask, EndPass

\* Tier 1 never mixes schemas up, however the calls are nested: a schema is
\* found under its own $id, or under a URI that its document was added with.
THEOREM SchemasNamed == Spec => []NamedSchemas
<1>1. Init => JobsRegistered /\ NamedSchemas
  BY DEF Init, JobsRegistered, NamedSchemas
<1>2. TypeOK /\ JobsRegistered /\ NamedSchemas /\ [Next]_vars => (JobsRegistered /\ NamedSchemas)'
  <2> SUFFICES ASSUME TypeOK, JobsRegistered, NamedSchemas, [Next]_vars
               PROVE  JobsRegistered' /\ NamedSchemas'
    OBVIOUS
  <2>1. CASE UNCHANGED vars
    BY <2>1 DEF vars, JobsRegistered, NamedSchemas
  <2>2. CASE Finish
    BY <2>2, FinishNames
  <2>3. CASE Next /\ ~Finish
    <3>1. JobsRegistered'
      BY <2>3, CallRegistered, StepKeeps DEF Next, Step
    <3>2. registered \subseteq registered'
      BY <2>3
      DEF Next, UserCall, UserAnswer, Step, Add, Begin, CreateHit, CreateMiss, SetFetcher, Answer,
          RemoveSchema, Clear, Dialect, Tree, Link, Skip, UseCached, NoUpstream, Ask, EndPass
    <3>3. \A u \in DOMAIN compiled' : u \in DOMAIN compiled /\ compiled'[u] = compiled[u]
      BY <2>3, CompiledChanges
    <3> QED
      BY <3>1, <3>2, <3>3 DEF NamedSchemas
  <2> QED
    BY <2>1, <2>2, <2>3
<1> QED
  BY <1>1, <1>2, RegistryTypes, PTL DEF Spec

\* A failed call leaves tier 1 as it was, and a successful one stores nothing
\* but the schema it returns.
THEOREM SuccessCaches == Spec => OnlySuccessCaches
<1> DEFINE Right ==
      compiled' # compiled =>
        \/ DOMAIN compiled' \subseteq DOMAIN compiled /\ UNCHANGED <<jobs, outcome>>
        \/ /\ outcome'.kind = "ok"
           /\ \A u \in DOMAIN compiled' :
                \/ compiled'[u] = outcome'.schema
                \/ u \in DOMAIN compiled /\ compiled'[u] = compiled[u]
<1>1. [Next]_vars => [Right]_vars
  <2>1. ASSUME Finish
        PROVE  Right
    <3>1. CASE Fails(Job)
      BY <2>1, <3>1 DEF Finish
    <3>2. CASE ~Fails(Job)
      <4>1. outcome'.kind = "ok" /\ outcome'.schema = Schema(Job) /\ compiled' = Cached(Job)
        BY <2>1, <3>2 DEF Finish
      <4>2. ASSUME NEW u \in DOMAIN Cached(Job)
            PROVE  \/ Cached(Job)[u] = Schema(Job)
                   \/ u \in DOMAIN compiled /\ Cached(Job)[u] = compiled[u]
        BY DEF Cached
      <4> QED
        BY <4>1, <4>2
    <3> QED
      BY <3>1, <3>2
  <2>2. ASSUME Next, ~Finish
        PROVE  Right
    BY <2>2, CompiledChanges
  <2> QED
    BY <2>1, <2>2
<1> QED
  BY <1>1, PTL DEF Spec, OnlySuccessCaches

-----------------------------------------------------------------------------
(* What a step of the registry does to one of the calls in progress. *)

\* The call still has the locals it was made with.
Fresh(j) ==
  j.pc \in {"dialect", "askDialect", "tree"} =>
    /\ j.nodes = <<>> /\ j.known = {} /\ j.anchors = {} /\ j.refused = {} /\ j.malformed = {}
    /\ j.start = 0 /\ j.pass = 0

\* Between two steps the locals j of a running call become n.  Dialect and Tree,
\* then the loops of resolveAllReferences.
SameURIs(j, n) ==
  /\ n.known = j.known /\ n.anchors = j.anchors
  /\ n.refused = j.refused /\ n.malformed = j.malformed

ReadsDialect(j, n) ==
  /\ j.pc \in {"dialect", "askDialect"} /\ n.pc \in {"askDialect", "tree"}
  /\ n.nodes = j.nodes /\ SameURIs(j, n) /\ n.start = j.start /\ n.pass = j.pass
  /\ n.pc = "askDialect" => hasFetcher /\ j.doc.dialect \notin DOMAIN documents

BuildsTree(j, n) ==
  /\ j.pc = "tree" /\ n.pc = (IF j.doc.valid THEN "link" ELSE "finish")
  /\ n.nodes = NodesOf(j.doc) /\ n.known = Ids(j.doc)
  /\ n.anchors = (IF j.doc.valid THEN Ids(j.doc) ELSE {})
  /\ n.refused = j.refused /\ n.malformed = j.malformed
  /\ n.start = j.start /\ n.pass = j.pass

StartsPass(j, n) ==
  /\ j.pc = "link" /\ j.pass < MaxPasses /\ j.start < Len(j.nodes)
  /\ n.pc = "fetch" /\ SameURIs(j, n) /\ n.pass = j.pass
  /\ n.end = Len(j.nodes) /\ n.i = 1 /\ n.fetched = FALSE
  /\ Len(n.nodes) = Len(j.nodes)
  /\ \A k \in 1..Len(j.nodes) :
       /\ n.nodes[k].ref = j.nodes[k].ref
       /\ n.nodes[k].linked <=> (j.nodes[k].linked \/ (k > j.start /\ j.nodes[k].ref \in j.anchors))

StopsPasses(j, n) ==
  /\ j.pc = "link" /\ ~(j.pass < MaxPasses /\ j.start < Len(j.nodes))
  /\ n.pc = "finish" /\ SameURIs(j, n) /\ n.nodes = j.nodes /\ n.pass = j.pass

SamePass(j, n) ==
  /\ n.start = j.start /\ n.end = j.end /\ n.pass = j.pass

\* The node of the fetch loop, and whether its URI is one this call has not seen.
Wants(j) ==
  /\ ~j.nodes[j.i].linked
  /\ j.nodes[j.i].ref \notin j.known \cup j.anchors

SkipsNode(j, n) ==
  /\ j.pc = "fetch" /\ j.i \in 1..Len(j.nodes) /\ ~Wants(j)
  /\ n.pc = "fetch" /\ SameURIs(j, n) /\ SamePass(j, n)
  /\ n.nodes = j.nodes /\ n.fetched = j.fetched /\ n.i = j.i + 1

AsksUser(j, n) ==
  /\ j.pc = "fetch" /\ j.i \in 1..Len(j.nodes) /\ Wants(j)
  /\ j.nodes[j.i].ref \notin DOMAIN documents /\ hasFetcher
  /\ n.pc = "askRef" /\ SameURIs(j, n) /\ SamePass(j, n)
  /\ n.nodes = j.nodes /\ n.fetched = j.fetched /\ n.i = j.i

AddsDoc(j, n, uri, doc) ==
  /\ n.pc = "fetch" /\ SamePass(j, n) /\ n.i = j.i + 1
  /\ n.known = j.known \cup {uri} \cup Ids(doc)
  /\ n.anchors = (IF doc.valid THEN j.anchors \cup {uri} \cup Ids(doc) ELSE j.anchors)
  /\ n.malformed = (IF doc.valid THEN j.malformed ELSE j.malformed \cup {uri} \cup Ids(doc))
  /\ n.refused = j.refused
  /\ n.fetched = (j.fetched \/ doc.valid)
  /\ n.nodes = j.nodes \o NodesOf(doc)

\* The document doc was had for the node's URI, from a cache or from the user.
CompilesDoc(j, n, doc) ==
  LET uri == j.nodes[j.i].ref IN
  /\ j.pc \in {"fetch", "askRef"} /\ j.i \in 1..Len(j.nodes) /\ ~j.nodes[j.i].linked
  /\ j.pc = "fetch" => Wants(j) /\ uri \in DOMAIN documents /\ doc = documents[uri]
  /\ j.pc = "askRef" => doc \in Answers[uri] /\ documents' = Put(documents, uri, doc)
  /\ AddsDoc(j, n, uri, doc)

\* Nobody had a document for it.
MissesDoc(j, n) ==
  LET uri == j.nodes[j.i].ref IN
  /\ j.pc \in {"fetch", "askRef"} /\ j.i \in 1..Len(j.nodes) /\ ~j.nodes[j.i].linked
  /\ j.pc = "fetch" => Wants(j) /\ uri \notin DOMAIN documents /\ ~hasFetcher
  /\ j.pc = "askRef" => NoDoc \in Answers[uri]
  /\ n.pc = "fetch" /\ SamePass(j, n) /\ n.i = j.i + 1
  /\ n.known = j.known /\ n.anchors = j.anchors /\ n.malformed = j.malformed
  /\ n.refused = j.refused \cup {uri}
  /\ n.fetched = j.fetched /\ n.nodes = j.nodes

EndsPass(j, n) ==
  /\ j.pc = "fetch" /\ j.i > Len(j.nodes)
  /\ n.pc = (IF j.fetched \/ Len(j.nodes) # j.end THEN "link" ELSE "finish")
  /\ SameURIs(j, n) /\ n.nodes = j.nodes
  /\ n.start = (IF j.fetched THEN 0 ELSE j.end) /\ n.pass = j.pass + 1

Advances(j, n) ==
  /\ n.doc = j.doc
  /\ \/ ReadsDialect(j, n) \/ BuildsTree(j, n) \/ StartsPass(j, n) \/ StopsPasses(j, n)
     \/ SkipsNode(j, n) \/ AsksUser(j, n) \/ MissesDoc(j, n) \/ EndsPass(j, n)
     \/ \E doc \in Docs : CompilesDoc(j, n, doc)

\* The node of the running call, for the steps of the fetch loop.
LEMMA NodeWanted ==
  ASSUME JobsOK(jobs), AtNode
  PROVE  Wanted <=> Wants(Job)
BY DEF Wanted, Wants, Node

\* The locals after a document was compiled, one by one.
LEMMA CompiledFields ==
  ASSUME NEW j \in JobType, NEW uri, NEW doc, NEW n, n = Compiled(j, uri, doc)
  PROVE  n.doc = j.doc /\ AddsDoc(j, n, uri, doc)
<1> DEFINE known == j.known \cup {uri} \cup Ids(doc)
           anchors == IF doc.valid THEN j.anchors \cup {uri} \cup Ids(doc) ELSE j.anchors
           malformed == IF doc.valid THEN j.malformed ELSE j.malformed \cup {uri} \cup Ids(doc)
           fetched == j.fetched \/ doc.valid
           nodes == j.nodes \o NodesOf(doc)
<1>1. n = [j EXCEPT !.known = known, !.anchors = anchors, !.nodes = nodes,
                    !.fetched = fetched, !.malformed = malformed, !.i = j.i + 1, !.pc = "fetch"]
  BY DEF Compiled
<1> HIDE DEF known, anchors, malformed, fetched, nodes
<1>2. /\ n.doc = j.doc /\ n.pc = "fetch" /\ n.i = j.i + 1 /\ n.known = known
      /\ n.anchors = anchors /\ n.malformed = malformed
  BY <1>1 DEF JobType
<1>3. n.refused = j.refused /\ n.fetched = fetched /\ n.nodes = nodes
  BY <1>1 DEF JobType
<1>4. SamePass(j, n)
  BY <1>1 DEF JobType, SamePass
<1> QED
  BY <1>2, <1>3, <1>4 DEF AddsDoc, known, anchors, malformed, fetched, nodes

\* The same for a URI that is refused.
LEMMA RefusedFields ==
  ASSUME NEW j \in JobType, NEW uri, NEW n, n = Refused(j, uri)
  PROVE  /\ n.doc = j.doc /\ n.pc = "fetch" /\ SamePass(j, n) /\ n.i = j.i + 1
         /\ n.known = j.known /\ n.anchors = j.anchors /\ n.malformed = j.malformed
         /\ n.refused = j.refused \cup {uri}
         /\ n.fetched = j.fetched /\ n.nodes = j.nodes
BY DEF Refused, JobType, SamePass

\* A step of the running call that is not its last is one of the moves above.
LEMMA StepAdvances ==
  ASSUME TypeOK,
         \/ Dialect \/ Tree \/ Link \/ Skip \/ UseCached \/ NoUpstream \/ Ask \/ EndPass
         \/ UserAnswer
  PROVE  /\ jobs # <<>>
         /\ \E n : Continue(n) /\ Advances(Job, n)
<1>1. JobsOK(jobs)
  BY DEF TypeOK, JobsOK
<1>2. jobs # <<>>
  BY DEF Dialect, Tree, Link, Skip, UseCached, NoUpstream, Ask, EndPass, AtNode, At, UserAnswer,
         Answer
<1>3. Job \in JobType /\ AskOK(Job)
  BY <1>1, <1>2, JobTypes
<1>4. \E n : Continue(n) /\ Advances(Job, n)
  <2>1. CASE Dialect
    <3> DEFINE n == [Job EXCEPT !.pc =
                 IF Job.doc.dialect = NoUri \/ Job.doc.dialect \in DOMAIN documents \/ ~hasFetcher
                 THEN "tree" ELSE "askDialect"]
    <3>1. ReadsDialect(Job, n) /\ n.doc = Job.doc
      BY <2>1, <1>3 DEF Dialect, At, ReadsDialect, SameURIs, JobType
    <3> QED
      BY <3>1, <2>1 DEF Dialect, Advances
  <2>2. CASE Tree
    <3> DEFINE ids == Ids(Job.doc)
               anchors == IF Job.doc.valid THEN Ids(Job.doc) ELSE {}
               nodes == NodesOf(Job.doc)
               pc == IF Job.doc.valid THEN "link" ELSE "finish"
               n == [Job EXCEPT !.nodes = nodes, !.known = ids, !.anchors = anchors, !.pc = pc]
    <3>1. Continue(n) /\ Job.pc = "tree"
      BY <2>2 DEF Tree, At
    <3> HIDE DEF ids, anchors, nodes, pc
    <3>2. /\ n.doc = Job.doc /\ n.nodes = nodes /\ n.known = ids /\ n.anchors = anchors
          /\ n.pc = pc
      BY <1>3 DEF JobType
    <3>3. /\ n.refused = Job.refused /\ n.malformed = Job.malformed
          /\ n.start = Job.start /\ n.pass = Job.pass
      BY <1>3 DEF JobType
    <3> HIDE DEF n
    <3>4. BuildsTree(Job, n)
      BY <3>1, <3>2, <3>3 DEF BuildsTree, ids, anchors, nodes, pc
    <3> QED
      BY <3>1, <3>2, <3>4 DEF Advances
  <2>3. CASE Link /\ Job.pass < MaxPasses /\ Job.start < Len(Job.nodes)
    <3> DEFINE nodes == [k \in DOMAIN Job.nodes |->
                           IF k > Job.start /\ Job.nodes[k].ref \in Job.anchors
                           THEN [Job.nodes[k] EXCEPT !.linked = TRUE] ELSE Job.nodes[k]]
               n == [Job EXCEPT !.nodes = nodes, !.end = Len(Job.nodes), !.i = 1,
                                !.fetched = FALSE, !.pc = "fetch"]
    <3>1. Continue(n) /\ Job.pc = "link"
      BY <2>3 DEF Link, At
    <3>2. Job.nodes \in Seq(NodeType)
      BY <1>3 DEF JobType
    <3>3. ASSUME NEW k \in 1..Len(Job.nodes)
          PROVE  /\ nodes[k].ref = Job.nodes[k].ref
                 /\ nodes[k].linked <=>
                      (Job.nodes[k].linked \/ (k > Job.start /\ Job.nodes[k].ref \in Job.anchors))
      <4>1. Job.nodes[k] \in NodeType
        BY <3>2
      <4> QED
        BY <4>1 DEF NodeType
    <3>4. Len(nodes) = Len(Job.nodes)
      <4>1. DOMAIN nodes = 1..Len(Job.nodes) /\ Len(Job.nodes) \in Nat
        BY <3>2, LenProperties
      <4>2. nodes = [k \in 1..Len(Job.nodes) |-> nodes[k]]
        BY <4>1
      <4> HIDE DEF nodes
      <4> QED
        BY <4>1, <4>2
    <3> HIDE DEF nodes
    <3>5. /\ n.doc = Job.doc /\ n.nodes = nodes /\ n.end = Len(Job.nodes) /\ n.i = 1
          /\ n.fetched = FALSE /\ n.pc = "fetch" /\ n.pass = Job.pass
      BY <1>3 DEF JobType
    <3>6. SameURIs(Job, n)
      BY <1>3 DEF JobType, SameURIs
    <3> HIDE DEF n
    <3>7. StartsPass(Job, n)
      BY <2>3, <3>1, <3>3, <3>4, <3>5, <3>6 DEF StartsPass
    <3> QED
      BY <3>1, <3>5, <3>7 DEF Advances
  <2>4. CASE Link /\ ~(Job.pass < MaxPasses /\ Job.start < Len(Job.nodes))
    <3> DEFINE n == [Job EXCEPT !.pc = "finish"]
    <3>1. StopsPasses(Job, n) /\ n.doc = Job.doc
      BY <2>4, <1>3 DEF Link, At, StopsPasses, SameURIs, JobType
    <3> QED
      BY <3>1, <2>4 DEF Link, Advances
  <2>5. CASE Skip
    <3> DEFINE n == [Job EXCEPT !.i = Job.i + 1]
    <3>1. ~Wants(Job) /\ Job.i \in 1..Len(Job.nodes)
      BY <2>5, <1>1, NodeWanted, NodeTypes DEF Skip
    <3>2. SkipsNode(Job, n) /\ n.doc = Job.doc
      BY <3>1, <2>5, <1>3 DEF Skip, AtNode, At, SkipsNode, SameURIs, SamePass, JobType
    <3> QED
      BY <3>2, <2>5 DEF Skip, Advances
  <2>6. CASE UseCached
    <3> DEFINE n == Compiled(Job, Node.ref, documents[Node.ref])
    <3>1. Wants(Job) /\ Job.i \in 1..Len(Job.nodes) /\ Job.pc = "fetch"
      BY <2>6, <1>1, NodeWanted, NodeTypes DEF UseCached, AtNode, At
    <3>2. documents[Node.ref] \in Docs /\ Continue(n)
      BY <2>6 DEF UseCached, TypeOK, IsMap
    <3>3. CompilesDoc(Job, n, documents[Node.ref]) /\ n.doc = Job.doc
      <4> HIDE DEF n
      <4> QED
        BY <3>1, <2>6, <1>3, CompiledFields DEF n, CompilesDoc, Wants, UseCached, Node
    <3> HIDE DEF n
    <3> QED
      BY <3>2, <3>3 DEF Advances
  <2>7. CASE NoUpstream
    <3> DEFINE n == Refused(Job, Node.ref)
    <3>1. Wants(Job) /\ Job.i \in 1..Len(Job.nodes) /\ Job.pc = "fetch"
      BY <2>7, <1>1, NodeWanted, NodeTypes DEF NoUpstream, AtNode, At
    <3>2. Continue(n)
      BY <2>7 DEF NoUpstream
    <3>3. MissesDoc(Job, n) /\ n.doc = Job.doc
      <4> HIDE DEF n
      <4> QED
        BY <3>1, <2>7, <1>3, RefusedFields DEF n, MissesDoc, Wants, NoUpstream, Node
    <3> HIDE DEF n
    <3> QED
      BY <3>2, <3>3 DEF Advances
  <2>8. CASE Ask
    <3> DEFINE n == [Job EXCEPT !.pc = "askRef"]
    <3>1. Wants(Job) /\ Job.i \in 1..Len(Job.nodes)
      BY <2>8, <1>1, NodeWanted, NodeTypes DEF Ask
    <3>2. AsksUser(Job, n) /\ n.doc = Job.doc
      BY <3>1, <2>8, <1>3 DEF Ask, AtNode, At, Node, AsksUser, SameURIs, SamePass, JobType
    <3> QED
      BY <3>2, <2>8 DEF Ask, Advances
  <2>9. CASE EndPass
    <3> DEFINE start == IF Job.fetched THEN 0 ELSE Job.end
               pc == IF Job.fetched \/ Len(Job.nodes) # Job.end THEN "link" ELSE "finish"
               n == [Job EXCEPT !.start = start, !.pass = Job.pass + 1, !.pc = pc]
    <3>1. Continue(n) /\ Job.pc = "fetch" /\ Job.i > Len(Job.nodes)
      BY <2>9 DEF EndPass, At
    <3> HIDE DEF start, pc
    <3>2. /\ n.doc = Job.doc /\ n.pc = pc /\ SameURIs(Job, n) /\ n.nodes = Job.nodes
          /\ n.start = start /\ n.pass = Job.pass + 1
      BY <1>3 DEF JobType, SameURIs
    <3> HIDE DEF n
    <3>3. EndsPass(Job, n)
      BY <3>1, <3>2 DEF EndsPass, start, pc
    <3> QED
      BY <3>1, <3>2, <3>3 DEF Advances
  <2>10. CASE UserAnswer
    <3>1. PICK doc \in Docs \cup {NoDoc} : Answer(doc)
      BY <2>10 DEF UserAnswer
    <3>2. CASE Job.pc = "askDialect"
      <4> DEFINE n == [Job EXCEPT !.pc = "tree"]
      <4>1. ReadsDialect(Job, n) /\ n.doc = Job.doc
        BY <3>2, <1>3 DEF ReadsDialect, SameURIs, JobType
      <4> QED
        BY <3>1, <3>2, <4>1 DEF Answer, Advances
    <3>3. CASE Job.pc = "askRef"
      <4>1. Asked = Job.nodes[Job.i].ref /\ Job.i \in 1..Len(Job.nodes) /\ ~Job.nodes[Job.i].linked
        BY <3>3, <1>3 DEF Asked, Node, AskOK
      <4>2. CASE doc = NoDoc
        <5> DEFINE n == Refused(Job, Asked)
        <5>1. Continue(n) /\ NoDoc \in Answers[Asked]
          BY <3>1, <3>3, <4>2 DEF Answer
        <5>2. MissesDoc(Job, n) /\ n.doc = Job.doc
          <6> HIDE DEF n
          <6> QED
            BY <5>1, <4>1, <3>3, <1>3, RefusedFields DEF n, MissesDoc
        <5> HIDE DEF n
        <5> QED
          BY <5>1, <5>2 DEF Advances
      <4>3. CASE doc # NoDoc
        <5> DEFINE n == Compiled(Job, Asked, doc)
        <5>1. Continue(n) /\ doc \in Answers[Asked] /\ documents' = Put(documents, Asked, doc)
          BY <3>1, <3>3, <4>3 DEF Answer
        <5>2. CompilesDoc(Job, n, doc) /\ n.doc = Job.doc
          <6> HIDE DEF n
          <6> QED
            BY <5>1, <4>1, <3>3, <1>3, CompiledFields DEF n, CompilesDoc
        <5> HIDE DEF n
        <5> QED
          BY <5>1, <5>2, <4>3 DEF Advances
      <4> QED
        BY <4>2, <4>3
    <3> QED
      BY <3>1, <3>2, <3>3 DEF Answer, At
  <2> QED
    BY <2>1, <2>2, <2>3, <2>4, <2>5, <2>6, <2>7, <2>8, <2>9, <2>10
<1> QED
  BY <1>2, <1>4

\* Whatever happens in the registry, a call in progress is new, or as it was, or
\* the running one and makes one of its moves.
LEMMA JobsAdvance ==
  ASSUME TypeOK, [Next]_vars, NEW k \in 1..Len(jobs')
  PROVE  \/ k \in 1..Len(jobs) /\ jobs'[k] = jobs[k]
         \/ k \in 1..Len(jobs) /\ k = Len(jobs) /\ Advances(jobs[k], jobs'[k])
         \/ \E uri, doc, strict : jobs'[k] = NewJob(uri, doc, strict)
<1>1. jobs \in Seq(JobType)
  BY DEF TypeOK
<1>2. CASE UNCHANGED jobs
  BY <1>2
<1>3. ASSUME NEW uri, NEW doc, NEW strict, Begin(uri, doc, strict)
      PROVE  \/ k \in 1..Len(jobs) /\ jobs'[k] = jobs[k]
             \/ jobs'[k] = NewJob(uri, doc, strict)
  BY <1>1, <1>3 DEF Begin
<1>4. CASE Finish
  BY <1>1, <1>4 DEF Finish, At, Front
<1>5. ASSUME jobs # <<>>, NEW n, Continue(n), Advances(Job, n)
      PROVE  \/ k \in 1..Len(jobs) /\ jobs'[k] = jobs[k]
             \/ k \in 1..Len(jobs) /\ k = Len(jobs) /\ Advances(jobs[k], jobs'[k])
  BY <1>1, <1>5 DEF Continue, Job
<1> QED
  <2>1. CASE UserCall
    BY <2>1, <1>2, <1>3 DEF UserCall, Add, CreateHit, CreateMiss, RemoveSchema, Clear, SetFetcher
  <2>2. CASE UserAnswer \/ (Step /\ ~Finish)
    <3>1. PICK n : jobs # <<>> /\ Continue(n) /\ Advances(Job, n)
      BY <2>2, StepAdvances DEF Step
    <3> QED
      BY <3>1, <1>5
  <2>3. CASE UNCHANGED vars
    BY <2>3, <1>2 DEF vars
  <2> QED
    BY <2>1, <2>2, <2>3, <1>4 DEF Next, Step

-----------------------------------------------------------------------------
(* What the passes over the nodes leave behind. *)

\* Node k of a call is linked, or its URI could not be had.
Settled(j, k) == j.nodes[k].linked \/ j.nodes[k].ref \in j.refused \cup j.malformed

\* The fetch loop has yet to reach it, and the pass could not link it.
Pending(j, k) == k >= j.i /\ j.nodes[k].ref \notin j.anchors

\* References are being linked, in a document that compiled.
IsLinking(j) == j.doc.valid /\ j.pc \in {"link", "fetch", "askRef", "finish"}

\* While nothing was fetched in a pass, the nodes it began with are settled, but
\* those still to come; so the nodes before start are settled in the next pass,
\* and all are when there is none.
JobSettles(j) ==
  IsLinking(j) =>
    /\ j.known \subseteq j.anchors \cup j.malformed
    /\ j.pc \in {"fetch", "askRef"} =>
         /\ j.end <= Len(j.nodes)
         /\ ~j.fetched => \A k \in 1..j.end : Settled(j, k) \/ Pending(j, k)
    /\ j.pc = "link" => \A k \in 1..Len(j.nodes) : k <= j.start => Settled(j, k)
    /\ j.pc = "finish" => \A k \in 1..Len(j.nodes) : Settled(j, k)

\* The number of passes does not end the loop.
NotCutOff(j) == IsLinking(j) /\ j.pc = "link" => j.pass < MaxPasses

\* Until the tree is compiled nothing else happens to the locals.
LEMMA FreshKept ==
  ASSUME NEW j, NEW n, Fresh(j), Advances(j, n)
  PROVE  Fresh(n)
<1>1. CASE ReadsDialect(j, n)
  BY <1>1 DEF ReadsDialect, SameURIs, Fresh
<1>2. CASE ~ReadsDialect(j, n)
  BY <1>2
  DEF Advances, Fresh, BuildsTree, StartsPass, StopsPasses, SkipsNode, AsksUser, MissesDoc,
      EndsPass, CompilesDoc, AddsDoc
<1> QED
  BY <1>1, <1>2

\* The nodes there were before a document was compiled are still there.
LEMMA NodesAppended ==
  ASSUME NEW j \in JobType, NEW n, NEW uri, NEW doc \in Docs, AddsDoc(j, n, uri, doc)
  PROVE  /\ Len(n.nodes) = Len(j.nodes) + Len(NodesOf(doc))
         /\ Len(j.nodes) \in Nat /\ Len(NodesOf(doc)) \in Nat
         /\ \A k \in 1..Len(j.nodes) : n.nodes[k] = j.nodes[k]
         /\ \A k \in 1..Len(NodesOf(doc)) : n.nodes[Len(j.nodes) + k] = NodesOf(doc)[k]
<1>1. j.nodes \in Seq(NodeType) /\ NodesOf(doc) \in Seq(NodeType)
  BY NodesTypes DEF JobType
<1>2. n.nodes = j.nodes \o NodesOf(doc)
  BY DEF AddsDoc
<1> QED
  BY <1>1, <1>2, ConcatProperties, LenProperties

\* Each move of a call keeps the invariant.
LEMMA SettlesKept ==
  ASSUME NEW j \in JobType, NEW n \in JobType, Fresh(j), JobSettles(j), NotCutOff(j),
         Advances(j, n)
  PROVE  JobSettles(n)
<1>1. /\ j.nodes \in Seq(NodeType) /\ Len(j.nodes) \in Nat /\ j.i \in Nat /\ j.end \in Nat
      /\ j.start \in Nat /\ j.fetched \in BOOLEAN
  BY LenProperties DEF JobType
<1>2. n.doc = j.doc
  BY DEF Advances
<1>3. CASE ReadsDialect(j, n)
  BY <1>3 DEF ReadsDialect, JobSettles, IsLinking
<1>4. CASE BuildsTree(j, n)
  BY <1>2, <1>4 DEF BuildsTree, JobSettles, IsLinking, Fresh
<1>5. CASE StartsPass(j, n)
  <2> SUFFICES ASSUME IsLinking(n)
               PROVE  JobSettles(n)
    BY DEF JobSettles
  <2>1. IsLinking(j) /\ n.known = j.known /\ n.anchors = j.anchors /\ n.malformed = j.malformed
    BY <1>2, <1>5 DEF StartsPass, IsLinking, SameURIs
  <2>2. ASSUME NEW k \in 1..Len(j.nodes)
        PROVE  Settled(n, k) \/ Pending(n, k)
    <3>1. /\ n.nodes[k].ref = j.nodes[k].ref
          /\ n.nodes[k].linked <=>
               (j.nodes[k].linked \/ (k > j.start /\ j.nodes[k].ref \in j.anchors))
          /\ n.i = 1 /\ n.refused = j.refused
      BY <1>5 DEF StartsPass, SameURIs
    <3>2. CASE k <= j.start
      <4>1. Settled(j, k)
        BY <3>2, <2>1, <1>5 DEF JobSettles, StartsPass
      <4> QED
        BY <4>1, <3>1, <2>1 DEF Settled
    <3>3. CASE k > j.start
      BY <3>1, <3>3, <2>1 DEF Settled, Pending
    <3> QED
      BY <3>2, <3>3, <1>1
  <2>3. n.end = Len(j.nodes) /\ Len(n.nodes) = Len(j.nodes) /\ n.pc = "fetch"
    BY <1>5 DEF StartsPass
  <2> QED
    BY <2>1, <2>2, <2>3, <1>1 DEF JobSettles
<1>6. CASE StopsPasses(j, n)
  <2> SUFFICES ASSUME IsLinking(n)
               PROVE  JobSettles(n)
    BY DEF JobSettles
  <2>1. IsLinking(j) /\ SameURIs(j, n) /\ n.nodes = j.nodes /\ n.pc = "finish" /\ j.pc = "link"
    BY <1>2, <1>6 DEF StopsPasses, IsLinking
  <2>2. Len(j.nodes) <= j.start
    BY <2>1, <1>1, <1>6 DEF StopsPasses, NotCutOff
  <2>3. \A k \in 1..Len(j.nodes) : Settled(j, k)
    BY <2>1, <2>2, <1>1 DEF JobSettles
  <2>4. \A k \in 1..Len(n.nodes) : Settled(n, k)
    BY <2>1, <2>3 DEF Settled, SameURIs
  <2> QED
    BY <2>1, <2>4 DEF JobSettles, SameURIs
<1>7. CASE SkipsNode(j, n)
  <2> SUFFICES ASSUME IsLinking(n)
               PROVE  JobSettles(n)
    BY DEF JobSettles
  <2>1. IsLinking(j)
    BY <1>2, <1>7 DEF SkipsNode, IsLinking
  <2>2. /\ SameURIs(j, n) /\ n.nodes = j.nodes /\ n.fetched = j.fetched /\ n.end = j.end
        /\ n.i = j.i + 1 /\ n.pc = "fetch" /\ ~Wants(j) /\ j.pc = "fetch"
    BY <1>7 DEF SkipsNode, SamePass
  <2>3. ASSUME ~j.fetched, NEW k \in 1..j.end
        PROVE  Settled(n, k) \/ Pending(n, k)
    <3>1. Settled(j, k) \/ Pending(j, k)
      BY <2>1, <2>2, <2>3 DEF JobSettles
    <3>2. CASE k = j.i
      BY <3>1, <3>2, <2>1, <2>2 DEF Settled, Pending, SameURIs, Wants, JobSettles
    <3>3. CASE k # j.i
      BY <3>1, <3>3, <2>2, <1>1 DEF Settled, Pending, SameURIs
    <3> QED
      BY <3>2, <3>3
  <2> QED
    BY <2>1, <2>2, <2>3 DEF JobSettles, SameURIs
<1>8. CASE AsksUser(j, n)
  <2> SUFFICES ASSUME IsLinking(n)
               PROVE  JobSettles(n)
    BY DEF JobSettles
  <2>1. IsLinking(j)
    BY <1>2, <1>8 DEF AsksUser, IsLinking
  <2>2. /\ SameURIs(j, n) /\ n.nodes = j.nodes /\ n.fetched = j.fetched /\ n.end = j.end
        /\ n.i = j.i /\ n.pc = "askRef" /\ j.pc = "fetch"
    BY <1>8 DEF AsksUser, SamePass
  <2>3. ASSUME ~j.fetched, NEW k \in 1..j.end
        PROVE  Settled(n, k) \/ Pending(n, k)
    BY <2>1, <2>2, <2>3 DEF JobSettles, Settled, Pending, SameURIs
  <2> QED
    BY <2>1, <2>2, <2>3 DEF JobSettles, SameURIs
<1>9. CASE MissesDoc(j, n)
  <2> SUFFICES ASSUME IsLinking(n)
               PROVE  JobSettles(n)
    BY DEF JobSettles
  <2>1. IsLinking(j)
    BY <1>2, <1>9 DEF MissesDoc, IsLinking
  <2>2. /\ n.nodes = j.nodes /\ n.fetched = j.fetched /\ n.end = j.end
        /\ n.i = j.i + 1 /\ n.pc = "fetch" /\ j.pc \in {"fetch", "askRef"}
        /\ n.known = j.known /\ n.anchors = j.anchors /\ n.malformed = j.malformed
        /\ n.refused = j.refused \cup {j.nodes[j.i].ref}
    BY <1>9 DEF MissesDoc, SamePass
  <2>3. ASSUME ~j.fetched, NEW k \in 1..j.end
        PROVE  Settled(n, k) \/ Pending(n, k)
    <3>1. Settled(j, k) \/ Pending(j, k)
      BY <2>1, <2>2, <2>3 DEF JobSettles
    <3>2. CASE k = j.i
      BY <3>2, <2>2 DEF Settled
    <3>3. CASE k # j.i
      BY <3>1, <3>3, <2>2, <1>1 DEF Settled, Pending
    <3> QED
      BY <3>2, <3>3
  <2> QED
    BY <2>1, <2>2, <2>3 DEF JobSettles
<1>10. ASSUME NEW doc \in Docs, CompilesDoc(j, n, doc)
       PROVE  JobSettles(n)
  <2> DEFINE uri == j.nodes[j.i].ref
  <2> SUFFICES ASSUME IsLinking(n)
               PROVE  JobSettles(n)
    BY DEF JobSettles
  <2>1. IsLinking(j) /\ j.pc \in {"fetch", "askRef"} /\ AddsDoc(j, n, uri, doc)
    BY <1>2, <1>10 DEF CompilesDoc, IsLinking
  <2>2. /\ Len(j.nodes) <= Len(n.nodes)
        /\ \A k \in 1..Len(j.nodes) : n.nodes[k] = j.nodes[k]
    BY <2>1, NodesAppended
  <2>3. /\ n.end = j.end /\ n.pc = "fetch" /\ n.i = j.i + 1
        /\ n.known \subseteq n.anchors \cup n.malformed
        /\ j.refused = n.refused /\ j.malformed \subseteq n.malformed
    BY <2>1 DEF AddsDoc, SamePass, JobSettles
  <2>4. ~n.fetched => ~j.fetched /\ n.anchors = j.anchors /\ uri \in n.malformed
    BY <2>1 DEF AddsDoc
  <2>5. ASSUME ~n.fetched, NEW k \in 1..j.end
        PROVE  Settled(n, k) \/ Pending(n, k)
    <3>1. (Settled(j, k) \/ Pending(j, k)) /\ k \in 1..Len(j.nodes)
      BY <2>1, <2>4, <2>5, <1>1 DEF JobSettles
    <3>2. n.nodes[k] = j.nodes[k]
      BY <3>1, <2>2
    <3>3. CASE k = j.i
      BY <3>2, <3>3, <2>4, <2>5 DEF Settled
    <3>4. CASE k # j.i
      <4>1. CASE Settled(j, k)
        BY <4>1, <3>2, <2>3 DEF Settled
      <4>2. CASE Pending(j, k)
        BY <4>2, <3>2, <3>4, <2>3, <2>4, <2>5, <1>1 DEF Pending
      <4> QED
        BY <4>1, <4>2, <3>1
    <3> QED
      BY <3>3, <3>4
  <2>6. j.end <= Len(n.nodes)
    BY <2>1, <2>2, <1>1, LenProperties DEF JobSettles, JobType
  <2> QED
    BY <2>3, <2>5, <2>6 DEF JobSettles
<1>11. CASE EndsPass(j, n)
  <2> SUFFICES ASSUME IsLinking(n)
               PROVE  JobSettles(n)
    BY DEF JobSettles
  <2>1. IsLinking(j) /\ j.pc = "fetch"
    BY <1>2, <1>11 DEF EndsPass, IsLinking
  <2>2. /\ SameURIs(j, n) /\ n.nodes = j.nodes /\ j.i > Len(j.nodes)
        /\ n.start = (IF j.fetched THEN 0 ELSE j.end)
        /\ n.pc = (IF j.fetched \/ Len(j.nodes) # j.end THEN "link" ELSE "finish")
    BY <1>11 DEF EndsPass
  <2>3. ~j.fetched => \A k \in 1..j.end : Settled(n, k)
    <3> SUFFICES ASSUME ~j.fetched, NEW k \in 1..j.end
                 PROVE  Settled(n, k)
      OBVIOUS
    <3>1. Settled(j, k) \/ Pending(j, k)
      BY <2>1 DEF JobSettles
    <3>2. ~Pending(j, k)
      BY <2>1, <2>2, <1>1 DEF JobSettles, Pending
    <3> QED
      BY <3>1, <3>2, <2>2 DEF Settled, SameURIs
  <2>4. n.known \subseteq n.anchors \cup n.malformed
    BY <2>1, <2>2 DEF JobSettles, SameURIs
  <2>5. CASE n.pc = "link"
    BY <2>2, <2>3, <2>4, <2>5, <1>1 DEF JobSettles
  <2>6. CASE n.pc = "finish"
    BY <2>2, <2>3, <2>4, <2>6, <1>1 DEF JobSettles
  <2> QED
    BY <2>2, <2>5, <2>6
<1> QED
  BY <1>3, <1>4, <1>5, <1>6, <1>7, <1>8, <1>9, <1>10, <1>11 DEF Advances

\* Every pass but the last obtained the document of a URI that was new.
JobCounts(j) ==
  IsLinking(j) =>
    /\ j.pc \in {"fetch", "askRef"} =>
         /\ j.pass <= Cardinality(j.known)
         /\ j.fetched \/ Len(j.nodes) # j.end => j.pass + 1 <= Cardinality(j.known)
    /\ j.pc = "askRef" => Wants(j)
    /\ j.pc = "link" => j.pass <= Cardinality(j.known)

\* Fewer URIs than passes: the loop of resolveAllReferences is never cut off.
FewUris == IsFiniteSet(Uris) /\ Cardinality(Uris) < MaxPasses

\* The URIs a call has met are fewer than the passes.
LEMMA KnownIsFinite ==
  ASSUME FewUris, NEW j \in JobType
  PROVE  /\ IsFiniteSet(j.known) /\ Cardinality(j.known) \in Nat
         /\ Cardinality(j.known) < MaxPasses
<1>1. j.known \in SUBSET Uris
  BY DEF JobType
<1>2. IsFiniteSet(j.known) /\ Cardinality(j.known) <= Cardinality(Uris)
  BY <1>1, FS_Subset DEF FewUris
<1>3. Cardinality(j.known) \in Nat /\ Cardinality(Uris) \in Nat
  BY <1>2, FS_CardinalityType DEF FewUris
<1> QED
  BY <1>2, <1>3, BoundsAssumption DEF FewUris

\* Each move of a call keeps the count.
LEMMA CountsKept ==
  ASSUME FewUris, NEW j \in JobType, NEW n \in JobType, Fresh(j), JobCounts(j), Advances(j, n)
  PROVE  JobCounts(n)
<1>1. /\ j.nodes \in Seq(NodeType) /\ Len(j.nodes) \in Nat /\ j.end \in Nat
      /\ j.pass \in Nat /\ j.fetched \in BOOLEAN
      /\ IsFiniteSet(j.known) /\ Cardinality(j.known) \in Nat /\ Cardinality(n.known) \in Nat
  BY KnownIsFinite, LenProperties DEF JobType
<1>2. n.doc = j.doc
  BY DEF Advances
<1>3. CASE ReadsDialect(j, n)
  BY <1>3 DEF ReadsDialect, JobCounts, IsLinking
<1>4. CASE BuildsTree(j, n)
  BY <1>1, <1>4 DEF BuildsTree, JobCounts, IsLinking, Fresh
<1>5. CASE StartsPass(j, n)
  BY <1>1, <1>2, <1>5 DEF StartsPass, JobCounts, IsLinking, SameURIs
<1>6. CASE StopsPasses(j, n)
  BY <1>6 DEF StopsPasses, JobCounts
<1>7. CASE SkipsNode(j, n)
  BY <1>2, <1>7 DEF SkipsNode, JobCounts, IsLinking, SameURIs, SamePass
<1>8. CASE AsksUser(j, n)
  BY <1>2, <1>8 DEF AsksUser, JobCounts, IsLinking, SameURIs, SamePass, Wants
<1>9. CASE MissesDoc(j, n)
  BY <1>2, <1>9 DEF MissesDoc, JobCounts, IsLinking, SamePass
<1>10. ASSUME NEW doc \in Docs, CompilesDoc(j, n, doc)
       PROVE  JobCounts(n)
  <2> DEFINE uri == j.nodes[j.i].ref
  <2> SUFFICES ASSUME IsLinking(n)
               PROVE  JobCounts(n)
    BY DEF JobCounts
  <2>1. /\ IsLinking(j) /\ j.pc \in {"fetch", "askRef"} /\ AddsDoc(j, n, uri, doc)
        /\ j.pc = "fetch" => Wants(j)
    BY <1>2, <1>10 DEF CompilesDoc, IsLinking
  <2>2. uri \notin j.known
    BY <2>1 DEF JobCounts, Wants
  <2>3. Cardinality(j.known) + 1 <= Cardinality(n.known)
    <3>1. j.known \cup {uri} \in SUBSET n.known
      BY <2>1 DEF AddsDoc
    <3>2. Cardinality(j.known \cup {uri}) = Cardinality(j.known) + 1
      BY <2>2, <1>1, FS_AddElement
    <3>3. IsFiniteSet(n.known)
      BY KnownIsFinite
    <3>4. Cardinality(j.known \cup {uri}) <= Cardinality(n.known)
      BY <3>1, <3>3, FS_Subset
    <3> QED
      BY <3>2, <3>4
  <2>4. j.pass <= Cardinality(j.known) /\ n.pass = j.pass /\ n.pc = "fetch"
    BY <2>1 DEF JobCounts, AddsDoc, SamePass
  <2> QED
    BY <2>3, <2>4, <1>1 DEF JobCounts
<1>11. CASE EndsPass(j, n)
  BY <1>1, <1>2, <1>11 DEF EndsPass, JobCounts, IsLinking, SameURIs
<1> QED
  BY <1>3, <1>4, <1>5, <1>6, <1>7, <1>8, <1>9, <1>10, <1>11 DEF Advances

\* What a schema leaves unlinked is excused.
Excused(s) == s.unresolved \subseteq s.refused \cup s.malformed

AllExcused ==
  /\ \A u \in DOMAIN compiled : Excused(compiled[u])
  /\ outcome.kind = "ok" => Excused(outcome.schema)

JobInv(j) == Fresh(j) /\ JobSettles(j) /\ JobCounts(j)
JobsInv == \A k \in 1..Len(jobs) : JobInv(jobs[k])

\* A call that ends returns a schema whose nodes are settled.
LEMMA FinishExcused ==
  ASSUME TypeOK, \A k \in 1..Len(jobs) : JobSettles(jobs[k]), AllExcused, Finish
  PROVE  AllExcused'
<1>1. jobs \in Seq(JobType) /\ jobs # <<>> /\ Job.pc = "finish"
  BY DEF TypeOK, Finish, At
<1>2. JobSettles(Job)
  BY <1>1, LenProperties DEF Job
<1>3. CASE Fails(Job)
  BY <1>3 DEF Finish, AllExcused
<1>4. CASE ~Fails(Job)
  <2>1. Excused(Schema(Job))
    <3>1. \A k \in 1..Len(Job.nodes) : Settled(Job, k)
      BY <1>1, <1>2, <1>4 DEF Fails, JobSettles, IsLinking
    <3>2. DOMAIN Job.nodes = 1..Len(Job.nodes)
      BY <1>1, JobTypes, LenProperties DEF JobType, JobsOK, TypeOK
    <3> QED
      BY <3>1, <3>2 DEF Excused, Schema, Unlinked, Settled
  <2>2. compiled' = Cached(Job) /\ outcome'.schema = Schema(Job)
    BY <1>4 DEF Finish
  <2>3. ASSUME NEW u \in DOMAIN Cached(Job)
        PROVE  Excused(Cached(Job)[u])
    BY <2>1 DEF Cached, AllExcused
  <2> QED
    BY <2>1, <2>2, <2>3 DEF AllExcused
<1> QED
  BY <1>3, <1>4

\* The other steps return schemas of tier 1, or none.
LEMMA ElseExcused ==
  ASSUME TypeOK, AllExcused, [Next]_vars, ~Finish
  PROVE  AllExcused'
<1>1. \A u \in DOMAIN compiled' : u \in DOMAIN compiled /\ compiled'[u] = compiled[u]
  BY CompiledChanges DEF vars
<1>2. outcome' = outcome \/ (\E u \in DOMAIN compiled : outcome'.schema = compiled[u])
  <2>1. ASSUME NEW doc, NEW strict, CreateHit(doc, strict)
        PROVE  \E u \in DOMAIN compiled : outcome'.schema = compiled[u]
    BY <2>1 DEF CreateHit
  <2> QED
    BY <2>1
    DEF Next, UserCall, UserAnswer, Step, Add, CreateMiss, SetFetcher, Answer, RemoveSchema, Clear,
        Dialect, Tree, Link, Skip, UseCached, NoUpstream, Ask, EndPass, vars
<1> QED
  BY <1>1, <1>2 DEF AllExcused

\* A new call satisfies the invariant.
LEMMA NewJobInv ==
  ASSUME NEW uri, NEW doc, NEW strict
  PROVE  JobInv(NewJob(uri, doc, strict))
BY DEF NewJob, JobInv, Fresh, JobSettles, JobCounts, IsLinking

\* All calls in progress keep it, of which at most the last one moves.
LEMMA JobsInvKept ==
  ASSUME FewUris, TypeOK, TypeOK', JobsInv, [Next]_vars
  PROVE  JobsInv'
<1> SUFFICES ASSUME NEW k \in 1..Len(jobs')
             PROVE  JobInv(jobs'[k])
  BY DEF JobsInv
<1>1. jobs'[k] \in JobType /\ (k \in 1..Len(jobs) => jobs[k] \in JobType)
  BY DEF TypeOK
<1>2. ASSUME k \in 1..Len(jobs), Advances(jobs[k], jobs'[k])
      PROVE  JobInv(jobs'[k])
  <2>1. JobInv(jobs[k])
    BY <1>2 DEF JobsInv
  <2>2. NotCutOff(jobs[k])
    <3>1. jobs[k].pass \in Nat
      BY <1>1, <1>2 DEF JobType
    <3> QED
      BY <3>1, <2>1, <1>1, <1>2, KnownIsFinite, BoundsAssumption DEF NotCutOff, JobInv, JobCounts
  <2> QED
    BY <2>1, <2>2, <1>1, <1>2, FreshKept, SettlesKept, CountsKept DEF JobInv
<1>3. CASE k \in 1..Len(jobs) /\ jobs'[k] = jobs[k]
  BY <1>3 DEF JobsInv
<1> QED
  BY <1>2, <1>3, JobsAdvance, NewJobInv

\* If there are fewer URIs than passes, a reference is left unlinked only if
\* nobody had a document for its URI or the document does not compile, whatever
\* the fetcher returns each time and whatever it calls.
THEOREM ExcusedUnlinked == FewUris /\ Spec => []UnlinkedExcused
<1> SUFFICES ASSUME FewUris
             PROVE  Spec => []UnlinkedExcused
  OBVIOUS
<1>1. Init => JobsInv /\ AllExcused
  BY DEF Init, JobsInv, AllExcused, NoOutcome
<1>2. TypeOK /\ TypeOK' /\ JobsInv /\ AllExcused /\ [Next]_vars => (JobsInv /\ AllExcused)'
  <2> SUFFICES ASSUME TypeOK, TypeOK', JobsInv, AllExcused, [Next]_vars
               PROVE  JobsInv' /\ AllExcused'
    OBVIOUS
  <2>1. JobsInv'
    BY JobsInvKept
  <2>2. \A k \in 1..Len(jobs) : JobSettles(jobs[k])
    BY DEF JobsInv, JobInv
  <2> QED
    BY <2>1, <2>2, FinishExcused, ElseExcused
<1>3. AllExcused => UnlinkedExcused
  BY DEF AllExcused, Excused, UnlinkedExcused
<1> QED
  BY <1>1, <1>2, <1>3, RegistryTypes, PTL DEF Spec

-----------------------------------------------------------------------------
(* Calls one after the other. *)

\* The fetcher does not call the registry.
Sequential == MaxDepth <= 1

\* Only one call is in progress; what the user gave is in tier 2; and the user
\* is asked for what is not.
OnceInv ==
  /\ Len(jobs) <= 1
  /\ \A u \in Uris : upstream[u] = 0 \/ (upstream[u] = 1 /\ u \in DOMAIN documents)
  /\ At("askDialect") \/ At("askRef") => hasFetcher /\ Asked \notin DOMAIN documents

\* The user may call when nothing is in progress.
LEMMA CallsAlone ==
  ASSUME Sequential, TypeOK, UserCall
  PROVE  jobs = <<>>
<1>1. jobs \in Seq(JobType) /\ MaxDepth \in Nat
  BY BoundsAssumption DEF TypeOK
<1>2. MayCall => jobs = <<>>
  BY <1>1 DEF MayCall, Sequential
<1> QED
  BY <1>2
  DEF UserCall, Add, Begin, CreateHit, CreateMiss, RemoveSchema, Clear, SetFetcher

\* A call leaves it running alone, not asking, and has not yet obtained anything.
LEMMA CallOnce ==
  ASSUME Sequential, TypeOK, OnceInv, UserCall
  PROVE  OnceInv'
<1>1. jobs = <<>>
  BY CallsAlone
<1>2. /\ Len(jobs') <= 1
      /\ ~(At("askDialect") \/ At("askRef"))'
  <2>1. CASE jobs' = jobs
    BY <1>1, <2>1 DEF At
  <2>2. ASSUME NEW uri, NEW doc, NEW strict, Begin(uri, doc, strict)
        PROVE  Len(jobs') <= 1 /\ ~(At("askDialect") \/ At("askRef"))'
    <3>1. jobs' = <<NewJob(uri, doc, strict)>>
      BY <1>1, <2>2 DEF Begin
    <3> QED
      BY <3>1 DEF At, Job, NewJob
  <2> QED
    BY <2>1, <2>2 DEF UserCall, Add, CreateHit, CreateMiss, RemoveSchema, Clear, SetFetcher
<1>3. \A u \in Uris : upstream'[u] = 0 \/ (upstream'[u] = 1 /\ u \in DOMAIN documents')
  <2>1. ASSUME NEW uri \in Uris, NEW doc, NEW strict, Add(uri, doc, strict)
        PROVE  upstream' = upstream /\ DOMAIN documents \subseteq DOMAIN documents'
    BY <2>1 DEF Add, Put
  <2>2. ASSUME NEW uri \in Uris, RemoveSchema(uri)
        PROVE  \A u \in Uris : upstream'[u] = 0 \/ (upstream'[u] = 1 /\ u \in DOMAIN documents')
    BY <2>2 DEF RemoveSchema, Drop, OnceInv, TypeOK
  <2>3. Clear => \A u \in Uris : upstream'[u] = 0
    BY DEF Clear
  <2> QED
    BY <2>1, <2>2, <2>3 DEF UserCall, CreateHit, CreateMiss, SetFetcher, OnceInv
<1> QED
  BY <1>2, <1>3 DEF OnceInv

\* The call in progress goes on as a job n.
LEMMA GoesOn ==
  ASSUME TypeOK, Len(jobs) <= 1, jobs # <<>>, NEW n, Continue(n)
  PROVE  Len(jobs') = 1 /\ jobs' # <<>> /\ Job' = n
<1>1. jobs \in Seq(JobType) /\ Len(jobs) = 1
  <2>1. jobs \in Seq(JobType)
    BY DEF TypeOK
  <2>2. Len(jobs) \in Nat /\ Len(jobs) # 0
    BY <2>1, EmptySeq, LenProperties
  <2>3. Len(jobs) = 1
    BY <2>2
  <2> QED
    BY <2>1, <2>3
<1>2. jobs' = [k \in DOMAIN jobs |-> IF k = Len(jobs) THEN n ELSE jobs[k]]
  BY DEF Continue
<1>3. jobs' = [k \in 1..1 |-> IF k = Len(jobs) THEN n ELSE jobs[k]]
  BY <1>1, <1>2, LenProperties
<1>4. Len(jobs') = 1 /\ jobs'[1] = n
  BY <1>1, <1>3
<1> QED
  BY <1>4 DEF Job

\* The next step keeps the invariant: what is asked for is not in tier 2.
LEMMA StepOnce ==
  ASSUME TypeOK, OnceInv, Step, ~Finish
  PROVE  OnceInv'
<1>1. PICK n : jobs # <<>> /\ Continue(n) /\ Advances(Job, n)
  BY StepAdvances DEF Step
<1>2. Len(jobs') = 1 /\ Job' = n
  BY <1>1, GoesOn DEF OnceInv
<1>3. UNCHANGED <<documents, hasFetcher, upstream>>
  BY DEF Step, Dialect, Tree, Link, Skip, UseCached, NoUpstream, Ask, EndPass
<1>4. Job.pc \notin {"askDialect", "askRef"}
  BY DEF Step, Dialect, Tree, Link, Skip, UseCached, NoUpstream, Ask, EndPass, AtNode, At
<1>5. CASE n.pc = "askDialect"
  <2>1. hasFetcher /\ Job.doc.dialect \notin DOMAIN documents /\ n.doc = Job.doc
    BY <1>1, <1>5
    DEF Advances, ReadsDialect, BuildsTree, StartsPass, StopsPasses, SkipsNode, AsksUser, MissesDoc,
        EndsPass, CompilesDoc, AddsDoc
  <2>2. Asked' = Job.doc.dialect
    BY <1>2, <1>5, <2>1 DEF Asked
  <2> QED
    BY <1>2, <1>3, <2>1, <2>2 DEF OnceInv
<1>6. CASE n.pc = "askRef"
  <2>1. AsksUser(Job, n)
    BY <1>1, <1>6
    DEF Advances, ReadsDialect, BuildsTree, StartsPass, StopsPasses, SkipsNode, MissesDoc,
        EndsPass, CompilesDoc, AddsDoc
  <2>2. Asked' = Job.nodes[Job.i].ref
    BY <1>2, <1>6, <2>1 DEF Asked, Node, AsksUser
  <2> QED
    BY <1>2, <1>3, <2>1, <2>2 DEF OnceInv, AsksUser
<1>7. CASE n.pc \notin {"askDialect", "askRef"}
  BY <1>2, <1>3, <1>7 DEF OnceInv, At
<1> QED
  BY <1>5, <1>6, <1>7

\* What the user is asked for is a URI.
LEMMA AskedTypes ==
  ASSUME TypeOK, At("askDialect") \/ At("askRef")
  PROVE  Asked \in Uris
<1>1. JobsOK(jobs) /\ jobs # <<>>
  BY DEF TypeOK, JobsOK, At
<1>2. Job \in JobType /\ AskOK(Job)
  BY <1>1, JobTypes
<1>3. CASE Job.pc = "askDialect"
  BY <1>3, <1>2 DEF Asked, AskOK
<1>4. CASE Job.pc = "askRef"
  <2>1. Job.i \in 1..Len(Job.nodes) /\ ~Node.linked
    BY <1>4, <1>2 DEF AskOK, Node
  <2>2. Node \in NodeType
    BY <2>1, <1>2, ElementOfSeq DEF Node, JobType
  <2> QED
    BY <1>4, <2>1, <2>2 DEF Asked, NodeType
<1> QED
  BY <1>3, <1>4 DEF At

\* An answer is put into tier 2 where it is counted.
LEMMA AnswerOnce ==
  ASSUME TypeOK, OnceInv, NEW doc \in Docs \cup {NoDoc}, Answer(doc)
  PROVE  OnceInv'
<1>1. PICK n : jobs # <<>> /\ Continue(n) /\ Advances(Job, n)
  BY StepAdvances DEF UserAnswer
<1>2. Len(jobs') = 1 /\ Job' = n
  BY <1>1, GoesOn DEF OnceInv
<1>3. Job.pc \in {"askDialect", "askRef"} /\ Asked \in Uris /\ Asked \notin DOMAIN documents
  BY AskedTypes DEF Answer, At, OnceInv
<1>4. n.pc \notin {"askDialect", "askRef"}
  <2>1. jobs \in Seq(JobType) /\ Job \in JobType
    BY <1>1, JobTypes DEF TypeOK, JobsOK
  <2>2. /\ [Job EXCEPT !.pc = "tree"].pc = "tree"
        /\ Refused(Job, Asked).pc = "fetch" /\ Compiled(Job, Asked, doc).pc = "fetch"
    <3>1. [Job EXCEPT !.pc = "tree"].pc = "tree"
      BY <2>1 DEF JobType
    <3>2. Refused(Job, Asked).pc = "fetch"
      BY <2>1, RefusedFields
    <3>3. AddsDoc(Job, Compiled(Job, Asked, doc), Asked, doc)
      BY <2>1, CompiledFields
    <3> QED
      BY <3>1, <3>2, <3>3 DEF AddsDoc
  <2>3. n = jobs'[Len(jobs)]
    BY <1>1, <2>1 DEF Continue
  <2>4. \E m \in {[Job EXCEPT !.pc = "tree"], Refused(Job, Asked), Compiled(Job, Asked, doc)} :
          Continue(m)
    BY DEF Answer
  <2>5. \A m : Continue(m) => jobs'[Len(jobs)] = m
    BY <1>1, <2>1 DEF Continue
  <2> QED
    BY <2>2, <2>3, <2>4, <2>5
<1>5. \A u \in Uris : upstream'[u] = 0 \/ (upstream'[u] = 1 /\ u \in DOMAIN documents')
  <2>1. CASE doc = NoDoc
    BY <2>1 DEF Answer, OnceInv
  <2>2. CASE doc # NoDoc
    <3>1. documents' = Put(documents, Asked, doc) /\ upstream' = [upstream EXCEPT ![Asked] = @ + 1]
      BY <2>2 DEF Answer
    <3>2. upstream \in [Uris -> Nat] /\ upstream[Asked] = 0
      BY <1>3 DEF TypeOK, OnceInv
    <3> QED
      BY <1>3, <3>1, <3>2 DEF OnceInv, Put
  <2> QED
    BY <2>1, <2>2
<1> QED
  BY <1>2, <1>4, <1>5 DEF OnceInv, At

\* Every step keeps the invariant.
LEMMA OnceKept ==
  ASSUME Sequential, TypeOK, OnceInv, [Next]_vars
  PROVE  OnceInv'
<1>1. CASE UserCall
  BY <1>1, CallOnce
<1>2. CASE UserAnswer
  BY <1>2, AnswerOnce DEF UserAnswer
<1>3. CASE Step /\ ~Finish
  BY <1>3, StepOnce
<1>4. CASE Finish
  <2>1. jobs' = <<>>
    BY <1>4 DEF Finish, At, Front, OnceInv, TypeOK
  <2>2. UNCHANGED <<documents, upstream>>
    BY <1>4 DEF Finish
  <2> QED
    BY <2>1, <2>2 DEF OnceInv, At
<1>5. CASE UNCHANGED vars
  BY <1>5 DEF vars, OnceInv, At, Asked, Job, Node
<1> QED
  BY <1>1, <1>2, <1>3, <1>4, <1>5 DEF Next, Step

\* Until it is removed, a URI's document is obtained from the user's fetcher at
\* most once, by all the calls that need it.
THEOREM OnceObtained == Sequential /\ Spec => []ObtainedOnce
<1> SUFFICES ASSUME Sequential
             PROVE  Spec => []ObtainedOnce
  OBVIOUS
<1>1. Init => OnceInv
  BY DEF Init, OnceInv, At
<1>2. TypeOK /\ OnceInv /\ [Next]_vars => OnceInv'
  BY OnceKept
<1>3. OnceInv => ObtainedOnce
  BY DEF OnceInv, ObtainedOnce
<1> QED
  BY <1>1, <1>2, <1>3, RegistryTypes, PTL DEF Spec

-----------------------------------------------------------------------------
(* What a call links, for a fetcher with one answer per URI. *)

\* The fetcher's answer for a URI never changes, and its document has no $id, or
\* the URI it is fetched from.
Steady ==
  \A u \in Uris : \E d : Answers[u] = {d} /\ (d # NoDoc => d.id \in {u, NoUri})

\* So has every document that was given to add.
AddedByName == \A p \in registered : p[2].id \in {p[1], NoUri}

\* Lookup, and what depends on it, as a function.
Denotes == [u \in Uris |-> Lookup(u)]
MentionsIn(L, u) == IF L[u] = NoDoc THEN {} ELSE ToSet(L[u].refs)
ClosedIn(L, doc) ==
  {S \in SUBSET Uris : /\ ToSet(doc.refs) \subseteq S
                       /\ \A u \in S \ Ids(doc) : MentionsIn(L, u) \subseteq S}
ReachedIn(L, doc) == {u \in Uris : \A S \in ClosedIn(L, doc) : u \in S}

\* The URIs that a call's nodes refer to.
RefsOf(j) == {j.nodes[k].ref : k \in 1..Len(j.nodes)} \cap Uris

\* The references met so far are reachable; those of the root and of each document
\* compiled are among them; and what the tables say of a URI is what its document
\* says.
JobLinks(j, L) ==
  IsLinking(j) =>
    /\ RefsOf(j) \subseteq ReachedIn(L, j.doc)
    /\ ToSet(j.doc.refs) \subseteq RefsOf(j)
    /\ Ids(j.doc) \subseteq j.anchors /\ j.anchors \subseteq j.known
    /\ Ids(j.doc) \cap (j.refused \cup j.malformed) = {}
    /\ j.malformed \subseteq j.known /\ j.malformed \cap j.anchors = {}
    /\ \A u \in j.known \ Ids(j.doc) :
         /\ L[u] # NoDoc /\ MentionsIn(L, u) \subseteq RefsOf(j)
         /\ L[u].valid <=> u \in j.anchors
    /\ \A u \in j.refused : L[u] = NoDoc
    /\ \A k \in 1..Len(j.nodes) : j.nodes[k].linked => j.nodes[k].ref \in j.anchors \cup {NoUri}

\* The first pass looks at every node, with those it adds; so the second obtains
\* nothing, and there is no third.
Tried(j, k) == j.nodes[k].linked \/ j.nodes[k].ref \in j.known \cup j.refused

JobTries(j) ==
  IsLinking(j) =>
    /\ j.pc # "finish" => j.pass <= 1
    /\ j.pc \in {"fetch", "askRef"} =>
         \A k \in 1..Len(j.nodes) : k < j.i \/ j.pass = 1 => Tried(j, k)
    /\ j.pc \in {"fetch", "askRef"} /\ j.pass = 1 => ~j.fetched /\ j.end = Len(j.nodes)
    /\ j.pc = "link" /\ j.pass = 1 => \A k \in 1..Len(j.nodes) : Tried(j, k)
    /\ j.pc = "askRef" => Wants(j)

LinkInv ==
  /\ \A u \in DOMAIN documents : documents[u].id \in {u, NoUri}
  /\ \A k \in 1..Len(jobs) :
       /\ Fresh(jobs[k]) /\ JobSettles(jobs[k]) /\ JobTries(jobs[k])
       /\ JobLinks(jobs[k], Denotes)

\* The answer that Lookup chooses is the only one.
LEMMA ChosenAnswer ==
  ASSUME Steady, NEW u \in Uris, NEW d \in Answers[u]
  PROVE  (CHOOSE e \in Answers[u] : TRUE) = d /\ (d # NoDoc => d.id \in {u, NoUri})
<1>1. PICK e : Answers[u] = {e} /\ (e # NoDoc => e.id \in {u, NoUri})
  BY DEF Steady
<1>2. (CHOOSE c \in {e} : TRUE) = e
  OBVIOUS
<1> QED
  BY <1>1, <1>2

\* The steps of the call in progress do not change what a URI denotes.
LEMMA DenotesKept ==
  ASSUME Steady, TypeOK, OnceInv, Step \/ UserAnswer
  PROVE  Denotes' = Denotes
<1> SUFFICES ASSUME NEW u \in Uris
             PROVE  Lookup(u)' = Lookup(u)
  BY DEF Denotes
<1>1. CASE UNCHANGED <<documents, hasFetcher>>
  BY <1>1 DEF Lookup
<1>2. CASE Step
  BY <1>1, <1>2
  DEF Step, Dialect, Tree, Link, Skip, UseCached, NoUpstream, Ask, EndPass, Finish
<1>3. ASSUME NEW doc \in Docs \cup {NoDoc}, Answer(doc)
      PROVE  Lookup(u)' = Lookup(u)
  <2>1. CASE doc = NoDoc
    BY <1>1, <1>3, <2>1 DEF Answer
  <2>2. CASE doc # NoDoc
    <3>1. /\ documents' = Put(documents, Asked, doc) /\ hasFetcher' = hasFetcher
          /\ doc \in Answers[Asked] /\ hasFetcher /\ Asked \notin DOMAIN documents
      BY <1>3, <2>2 DEF Answer, OnceInv
    <3>2. CASE u = Asked
      <4>1. Lookup(u) = doc
        BY <3>1, <3>2, ChosenAnswer DEF Lookup
      <4>2. Lookup(u)' = doc
        BY <3>1, <3>2 DEF Lookup, Put
      <4> QED
        BY <4>1, <4>2
    <3>3. CASE u # Asked
      BY <3>1, <3>3 DEF Lookup, Put
    <3> QED
      BY <3>2, <3>3
  <2> QED
    BY <2>1, <2>2
<1> QED
  BY <1>2, <1>3 DEF UserAnswer

\* A document that is compiled is what its URI denotes, and has no other name; a
\* URI that is refused denotes nothing.
Obtains(j, n, L) ==
  LET uri == j.nodes[j.i].ref IN
  /\ \A doc \in Docs : CompilesDoc(j, n, doc) => L[uri] = doc /\ doc.id \in {uri, NoUri}
  /\ MissesDoc(j, n) => L[uri] = NoDoc

\* The moves of the running call are such.
LEMMA ObtainsDenoted ==
  ASSUME Steady, TypeOK, OnceInv, jobs # <<>>,
         \A u \in DOMAIN documents : documents[u].id \in {u, NoUri}, NEW n
  PROVE  Obtains(Job, n, Denotes)
<1> DEFINE uri == Job.nodes[Job.i].ref
<1>1. Job \in JobType
  BY JobTypes DEF TypeOK, JobsOK
<1>2. ASSUME Job.i \in 1..Len(Job.nodes), ~Job.nodes[Job.i].linked
      PROVE  uri \in Uris /\ Denotes[uri] = Lookup(uri)
  <2>1. Job.nodes[Job.i] \in NodeType
    BY <1>1, <1>2, ElementOfSeq DEF JobType
  <2> QED
    BY <1>2, <2>1 DEF NodeType, Denotes
<1>3. Job.pc = "askRef" => hasFetcher /\ uri \notin DOMAIN documents
  BY DEF OnceInv, At, Asked, Node
<1>4. ASSUME NEW doc \in Docs, CompilesDoc(Job, n, doc)
      PROVE  Denotes[uri] = doc /\ doc.id \in {uri, NoUri}
  <2>1. uri \in Uris /\ Denotes[uri] = Lookup(uri) /\ Job.pc \in {"fetch", "askRef"}
    BY <1>2, <1>4 DEF CompilesDoc
  <2>2. CASE Job.pc = "fetch"
    BY <1>4, <2>1, <2>2 DEF CompilesDoc, Lookup
  <2>3. CASE Job.pc = "askRef"
    <3>1. doc \in Answers[uri] /\ doc # NoDoc
      BY <1>4, <2>3, DocsAssumption DEF CompilesDoc
    <3> QED
      BY <1>3, <2>1, <2>3, <3>1, ChosenAnswer DEF Lookup
  <2> QED
    BY <2>1, <2>2, <2>3
<1>5. ASSUME MissesDoc(Job, n)
      PROVE  Denotes[uri] = NoDoc
  <2>1. uri \in Uris /\ Denotes[uri] = Lookup(uri) /\ Job.pc \in {"fetch", "askRef"}
    BY <1>2, <1>5 DEF MissesDoc
  <2>2. CASE Job.pc = "fetch"
    BY <1>5, <2>1, <2>2 DEF MissesDoc, Lookup
  <2>3. CASE Job.pc = "askRef"
    <3>1. NoDoc \in Answers[uri]
      BY <1>5, <2>3 DEF MissesDoc
    <3> QED
      BY <1>3, <2>1, <2>3, <3>1, ChosenAnswer DEF Lookup
  <2> QED
    BY <2>1, <2>2, <2>3
<1> QED
  BY <1>4, <1>5 DEF Obtains

\* The first pass tries every node, and the second has nothing new to obtain.
LEMMA TriesKept ==
  ASSUME NEW j \in JobType, NEW n \in JobType, NEW L, Fresh(j), JobTries(j), JobLinks(j, L),
         Obtains(j, n, L), Advances(j, n)
  PROVE  JobTries(n)
<1>1. /\ j.nodes \in Seq(NodeType) /\ Len(j.nodes) \in Nat /\ j.i \in Nat /\ j.end \in Nat
      /\ j.pass \in Nat /\ j.fetched \in BOOLEAN
  BY LenProperties DEF JobType
<1>2. n.doc = j.doc
  BY DEF Advances
<1>3. CASE ReadsDialect(j, n)
  BY <1>3 DEF ReadsDialect, JobTries, IsLinking
<1>4. CASE BuildsTree(j, n)
  BY <1>4 DEF BuildsTree, JobTries, IsLinking, Fresh
<1>5. CASE StartsPass(j, n)
  <2> SUFFICES ASSUME IsLinking(n)
               PROVE  JobTries(n)
    BY DEF JobTries
  <2>1. IsLinking(j) /\ j.pc = "link"
    BY <1>2, <1>5 DEF StartsPass, IsLinking
  <2>2. /\ n.pass = j.pass /\ n.i = 1 /\ n.pc = "fetch" /\ ~n.fetched
        /\ n.end = Len(n.nodes) /\ Len(n.nodes) = Len(j.nodes)
    BY <1>5 DEF StartsPass
  <2>3. ASSUME j.pass = 1, NEW k \in 1..Len(j.nodes)
        PROVE  Tried(n, k)
    <3>1. Tried(j, k)
      BY <2>1, <2>3 DEF JobTries
    <3> QED
      BY <3>1, <1>5 DEF Tried, StartsPass, SameURIs
  <2>4. j.pass <= 1
    BY <2>1 DEF JobTries
  <2> QED
    BY <1>1, <2>2, <2>3, <2>4 DEF JobTries
<1>6. CASE StopsPasses(j, n)
  BY <1>6 DEF StopsPasses, JobTries
<1>7. CASE SkipsNode(j, n)
  <2> SUFFICES ASSUME IsLinking(n)
               PROVE  JobTries(n)
    BY DEF JobTries
  <2>1. IsLinking(j) /\ j.pc = "fetch"
    BY <1>2, <1>7 DEF SkipsNode, IsLinking
  <2>2. /\ n.pass = j.pass /\ n.i = j.i + 1 /\ n.pc = "fetch" /\ n.fetched = j.fetched
        /\ n.end = j.end /\ n.nodes = j.nodes /\ SameURIs(j, n) /\ ~Wants(j)
    BY <1>7 DEF SkipsNode, SamePass
  <2>3. Tried(j, j.i)
    BY <2>1, <2>2 DEF Tried, Wants, JobLinks
  <2>4. ASSUME NEW k \in 1..Len(j.nodes), k < j.i + 1 \/ j.pass = 1
        PROVE  Tried(n, k)
    <3>1. Tried(j, k)
      <4>1. CASE k = j.i
        BY <2>3, <4>1
      <4>2. CASE k < j.i \/ j.pass = 1
        BY <2>1, <4>2 DEF JobTries
      <4> QED
        BY <1>1, <2>4, <4>1, <4>2
    <3> QED
      BY <3>1, <2>2 DEF Tried, SameURIs
  <2> QED
    BY <2>1, <2>2, <2>4 DEF JobTries
<1>8. CASE AsksUser(j, n)
  <2> SUFFICES ASSUME IsLinking(n)
               PROVE  JobTries(n)
    BY DEF JobTries
  <2>1. IsLinking(j) /\ j.pc = "fetch"
    BY <1>2, <1>8 DEF AsksUser, IsLinking
  <2>2. /\ n.pass = j.pass /\ n.i = j.i /\ n.pc = "askRef" /\ n.fetched = j.fetched
        /\ n.end = j.end /\ n.nodes = j.nodes /\ SameURIs(j, n) /\ Wants(j)
    BY <1>8 DEF AsksUser, SamePass
  <2> QED
    BY <2>1, <2>2 DEF JobTries, Tried, SameURIs, Wants
<1>9. CASE MissesDoc(j, n)
  <2> SUFFICES ASSUME IsLinking(n)
               PROVE  JobTries(n)
    BY DEF JobTries
  <2>1. IsLinking(j) /\ j.pc \in {"fetch", "askRef"}
    BY <1>2, <1>9 DEF MissesDoc, IsLinking
  <2>2. /\ n.pass = j.pass /\ n.i = j.i + 1 /\ n.pc = "fetch" /\ n.fetched = j.fetched
        /\ n.end = j.end /\ n.nodes = j.nodes /\ n.known = j.known
        /\ n.refused = j.refused \cup {j.nodes[j.i].ref}
    BY <1>9 DEF MissesDoc, SamePass
  <2>3. ASSUME NEW k \in 1..Len(j.nodes), k < j.i + 1 \/ j.pass = 1
        PROVE  Tried(n, k)
    <3>1. CASE k = j.i
      BY <2>2, <3>1 DEF Tried
    <3>2. CASE k < j.i \/ j.pass = 1
      BY <2>1, <2>2, <3>2 DEF JobTries, Tried
    <3> QED
      BY <1>1, <2>3, <3>1, <3>2
  <2> QED
    BY <2>1, <2>2, <2>3 DEF JobTries
<1>10. ASSUME NEW doc \in Docs, CompilesDoc(j, n, doc)
       PROVE  JobTries(n)
  <2> DEFINE uri == j.nodes[j.i].ref
  <2> SUFFICES ASSUME IsLinking(n)
               PROVE  JobTries(n)
    BY DEF JobTries
  <2>1. /\ IsLinking(j) /\ j.pc \in {"fetch", "askRef"} /\ AddsDoc(j, n, uri, doc)
        /\ j.i \in 1..Len(j.nodes) /\ ~j.nodes[j.i].linked /\ (j.pc = "fetch" => Wants(j))
    BY <1>2, <1>10 DEF CompilesDoc, IsLinking
  <2>2. Wants(j)
    BY <2>1 DEF JobTries
  <2>3. j.pass = 0
    <3>1. SUFFICES ASSUME j.pass = 1
                   PROVE  FALSE
      BY <1>1, <2>1 DEF JobTries
    <3>2. Tried(j, j.i)
      BY <2>1, <3>1 DEF JobTries
    <3>3. uri \in j.refused
      BY <2>1, <2>2, <3>2 DEF Tried, Wants
    <3>4. L[uri] = NoDoc
      BY <2>1, <3>3 DEF JobLinks
    <3>5. L[uri] = doc
      BY <1>10 DEF Obtains
    <3> QED
      BY <3>4, <3>5, DocsAssumption
  <2>4. \A k \in 1..Len(j.nodes) : n.nodes[k] = j.nodes[k]
    BY <2>1, NodesAppended
  <2>5. /\ n.pass = 0 /\ n.i = j.i + 1 /\ n.pc = "fetch" /\ n.refused = j.refused
        /\ j.known \subseteq n.known /\ uri \in n.known
    BY <2>1, <2>3 DEF AddsDoc, SamePass
  <2>6. ASSUME NEW k \in 1..Len(n.nodes), k < j.i + 1
        PROVE  Tried(n, k)
    <3>1. k \in 1..Len(j.nodes) /\ n.nodes[k] = j.nodes[k]
      <4>1. k \in 1..Len(j.nodes)
        BY <1>1, <2>1, <2>6, LenProperties DEF JobType
      <4> QED
        BY <2>4, <4>1
    <3>2. CASE k = j.i
      BY <2>5, <3>1, <3>2 DEF Tried
    <3>3. CASE k # j.i
      <4>1. k < j.i
        BY <1>1, <2>6, <3>1, <3>3
      <4>2. Tried(j, k)
        BY <2>1, <3>1, <4>1 DEF JobTries
      <4> QED
        BY <2>5, <3>1, <4>2 DEF Tried
    <3> QED
      BY <3>2, <3>3
  <2> QED
    BY <2>5, <2>6 DEF JobTries
<1>11. CASE EndsPass(j, n)
  <2> SUFFICES ASSUME IsLinking(n), n.pc = "link"
               PROVE  JobTries(n)
    BY <1>11 DEF JobTries, EndsPass
  <2>1. IsLinking(j) /\ j.pc = "fetch"
    BY <1>2, <1>11 DEF EndsPass, IsLinking
  <2>2. /\ n.pass = j.pass + 1 /\ n.nodes = j.nodes /\ SameURIs(j, n) /\ j.i > Len(j.nodes)
        /\ j.fetched \/ Len(j.nodes) # j.end
    BY <1>11 DEF EndsPass
  <2>3. j.pass = 0
    BY <1>1, <2>1, <2>2 DEF JobTries
  <2>4. \A k \in 1..Len(j.nodes) : Tried(n, k)
    <3> TAKE k \in 1..Len(j.nodes)
    <3>1. k < j.i
      BY <1>1, <2>2
    <3>2. Tried(j, k)
      BY <2>1, <3>1 DEF JobTries
    <3> QED
      BY <2>2, <3>2 DEF Tried, SameURIs
  <2> QED
    BY <2>2, <2>3, <2>4 DEF JobTries
<1> QED
  BY <1>3, <1>4, <1>5, <1>6, <1>7, <1>8, <1>9, <1>10, <1>11 DEF Advances

\* The nodes of a document refer to what it mentions.
LEMMA NodesRefer ==
  ASSUME NEW doc \in Docs
  PROVE  /\ \A k \in 1..Len(NodesOf(doc)) :
              /\ NodesOf(doc)[k].ref \in ToSet(doc.refs) \cup {NoUri}
              /\ NodesOf(doc)[k].linked => NodesOf(doc)[k].ref = NoUri
         /\ \A u \in ToSet(doc.refs) : \E k \in 1..Len(NodesOf(doc)) : NodesOf(doc)[k].ref = u
         /\ ToSet(doc.refs) \subseteq Uris
<1> DEFINE own == IF doc.valid THEN <<[ref |-> NoUri, linked |-> TRUE]>> ELSE <<>>
           refs == [k \in 1..Len(doc.refs) |-> [ref |-> doc.refs[k], linked |-> FALSE]]
<1>1. doc.refs \in Seq(Uris) /\ doc.valid \in BOOLEAN
  BY DocsAssumption
<1>2. refs \in Seq(NodeType) /\ Len(refs) = Len(doc.refs) /\ Len(doc.refs) \in Nat
  BY <1>1, LenProperties DEF NodeType
<1>3. /\ own \in Seq(NodeType) /\ Len(own) \in Nat
      /\ \A k \in 1..Len(own) : own[k] = [ref |-> NoUri, linked |-> TRUE]
  <2>1. CASE doc.valid
    <3> DEFINE node == [ref |-> NoUri, linked |-> TRUE]
    <3>1. own = <<node>> /\ node \in NodeType
      BY <2>1 DEF NodeType
    <3> HIDE DEF own, node
    <3>2. own \in Seq(NodeType) /\ Len(own) = 1 /\ own[1] = node
      BY <3>1
    <3> QED
      BY <3>2 DEF node
  <2>2. CASE ~doc.valid
    <3>1. own = <<>>
      BY <2>2
    <3> HIDE DEF own
    <3> QED
      BY <3>1
  <2> QED
    BY <2>1, <2>2
<1>4. \A k \in 1..Len(refs) : refs[k] = [ref |-> doc.refs[k], linked |-> FALSE]
  BY <1>2
<1>5. NodesOf(doc) = refs \o own
  BY DEF NodesOf
<1> HIDE DEF own, refs
<1>6. /\ Len(NodesOf(doc)) = Len(refs) + Len(own)
      /\ \A k \in 1..Len(NodesOf(doc)) :
           NodesOf(doc)[k] = IF k <= Len(refs) THEN refs[k] ELSE own[k - Len(refs)]
  BY <1>2, <1>3, <1>5, ConcatProperties
<1>7. DOMAIN doc.refs = 1..Len(doc.refs)
  BY <1>1, LenProperties
<1>8. ASSUME NEW k \in 1..Len(NodesOf(doc))
      PROVE  /\ NodesOf(doc)[k].ref \in ToSet(doc.refs) \cup {NoUri}
             /\ NodesOf(doc)[k].linked => NodesOf(doc)[k].ref = NoUri
  <2>1. CASE k <= Len(refs)
    <3>1. NodesOf(doc)[k] = [ref |-> doc.refs[k], linked |-> FALSE] /\ k \in DOMAIN doc.refs
      BY <1>2, <1>4, <1>6, <1>7, <2>1
    <3> QED
      BY <3>1 DEF ToSet
  <2>2. CASE ~(k <= Len(refs))
    <3>1. k - Len(refs) \in 1..Len(own) /\ NodesOf(doc)[k] = own[k - Len(refs)]
      BY <1>2, <1>3, <1>6, <2>2
    <3> QED
      BY <3>1, <1>3
  <2> QED
    BY <2>1, <2>2
<1>9. ASSUME NEW u \in ToSet(doc.refs)
      PROVE  \E k \in 1..Len(NodesOf(doc)) : NodesOf(doc)[k].ref = u
  <2>1. PICK k \in DOMAIN doc.refs : doc.refs[k] = u
    BY DEF ToSet
  <2>2. k \in 1..Len(NodesOf(doc)) /\ NodesOf(doc)[k] = refs[k] /\ k \in 1..Len(refs)
    BY <1>2, <1>3, <1>6, <1>7
  <2>3. NodesOf(doc)[k] = [ref |-> doc.refs[k], linked |-> FALSE]
    BY <2>2, <1>4
  <2> QED
    BY <2>1, <2>2, <2>3
<1>10. ToSet(doc.refs) \subseteq Uris
  BY <1>1, <1>7 DEF ToSet
<1> QED
  BY <1>8, <1>9, <1>10

\* What is mentioned by something reachable is reachable, too.
LEMMA ReachedClosed ==
  ASSUME NEW L, NEW doc, NEW u \in ReachedIn(L, doc) \ Ids(doc), MentionsIn(L, u) \subseteq Uris
  PROVE  MentionsIn(L, u) \subseteq ReachedIn(L, doc)
BY DEF ReachedIn, ClosedIn

\* So is what the root refers to.
LEMMA RootReached ==
  ASSUME NEW L, NEW doc \in Docs
  PROVE  ToSet(doc.refs) \subseteq ReachedIn(L, doc)
BY NodesRefer DEF ReachedIn, ClosedIn

\* A move that changes neither the nodes nor the tables.
LEMMA LinksStay ==
  ASSUME NEW j, NEW n, NEW L, JobLinks(j, L), IsLinking(n) => IsLinking(j),
         SameURIs(j, n), n.nodes = j.nodes, n.doc = j.doc
  PROVE  JobLinks(n, L)
<1>1. RefsOf(n) = RefsOf(j)
  BY DEF RefsOf
<1> QED
  BY <1>1 DEF JobLinks, SameURIs

\* Each move of a call keeps the invariant.
LEMMA LinksKept ==
  ASSUME NEW j \in JobType, NEW n \in JobType, NEW L, Fresh(j), JobTries(j), JobLinks(j, L),
         Obtains(j, n, L), Advances(j, n)
  PROVE  JobLinks(n, L)
<1>1. j.nodes \in Seq(NodeType) /\ Len(j.nodes) \in Nat /\ j.doc \in Docs
  BY LenProperties DEF JobType
<1>2. n.doc = j.doc
  BY DEF Advances
<1>3. CASE ReadsDialect(j, n)
  BY <1>3 DEF ReadsDialect, JobLinks, IsLinking
<1>4. CASE BuildsTree(j, n)
  <2> SUFFICES ASSUME IsLinking(n)
               PROVE  JobLinks(n, L)
    BY DEF JobLinks
  <2>1. j.doc.valid
    BY <1>2 DEF IsLinking
  <2>2. /\ n.nodes = NodesOf(j.doc) /\ n.known = Ids(j.doc) /\ n.anchors = Ids(j.doc)
        /\ n.refused = {} /\ n.malformed = {}
    BY <2>1, <1>4 DEF BuildsTree, Fresh
  <2>3. RefsOf(n) = ToSet(j.doc.refs)
    <3>1. ASSUME NEW u \in RefsOf(n)
          PROVE  u \in ToSet(j.doc.refs)
      <4>1. PICK k \in 1..Len(NodesOf(j.doc)) : NodesOf(j.doc)[k].ref = u
        BY <2>2 DEF RefsOf
      <4>2. u # NoUri
        BY UrisAssumption DEF RefsOf
      <4> QED
        BY <1>1, <4>1, <4>2, NodesRefer
    <3>2. ASSUME NEW u \in ToSet(j.doc.refs)
          PROVE  u \in RefsOf(n)
      <4>1. PICK k \in 1..Len(NodesOf(j.doc)) : NodesOf(j.doc)[k].ref = u
        BY <1>1, NodesRefer
      <4>2. u \in Uris
        BY <1>1, NodesRefer
      <4> QED
        BY <2>2, <4>1, <4>2 DEF RefsOf
    <3> QED
      BY <3>1, <3>2
  <2>4. \A k \in 1..Len(n.nodes) : n.nodes[k].linked => n.nodes[k].ref = NoUri
    BY <2>2, <1>1, NodesRefer
  <2>5. ToSet(j.doc.refs) \subseteq ReachedIn(L, j.doc)
    BY <1>1, RootReached
  <2> QED
    BY <1>2, <2>2, <2>3, <2>4, <2>5 DEF JobLinks
<1>5. CASE StartsPass(j, n)
  <2> SUFFICES ASSUME IsLinking(n)
               PROVE  JobLinks(n, L)
    BY DEF JobLinks
  <2>1. IsLinking(j) /\ SameURIs(j, n) /\ Len(n.nodes) = Len(j.nodes)
    BY <1>2, <1>5 DEF StartsPass, IsLinking
  <2>2. \A k \in 1..Len(j.nodes) :
          /\ n.nodes[k].ref = j.nodes[k].ref
          /\ n.nodes[k].linked => j.nodes[k].linked \/ j.nodes[k].ref \in j.anchors
    BY <1>5 DEF StartsPass
  <2>3. RefsOf(n) = RefsOf(j)
    BY <2>1, <2>2 DEF RefsOf
  <2>4. \A k \in 1..Len(n.nodes) : n.nodes[k].linked => n.nodes[k].ref \in n.anchors \cup {NoUri}
    BY <2>1, <2>2 DEF JobLinks, SameURIs
  <2> QED
    BY <1>2, <2>1, <2>3, <2>4 DEF JobLinks, SameURIs
<1>6. CASE StopsPasses(j, n) \/ SkipsNode(j, n) \/ AsksUser(j, n) \/ EndsPass(j, n)
  <2>1. SameURIs(j, n) /\ n.nodes = j.nodes /\ (IsLinking(n) => IsLinking(j))
    BY <1>2, <1>6 DEF StopsPasses, SkipsNode, AsksUser, EndsPass, IsLinking
  <2> QED
    BY <1>2, <2>1, LinksStay
<1>7. CASE MissesDoc(j, n)
  <2> DEFINE uri == j.nodes[j.i].ref
  <2> SUFFICES ASSUME IsLinking(n)
               PROVE  JobLinks(n, L)
    BY DEF JobLinks
  <2>1. IsLinking(j) /\ j.pc \in {"fetch", "askRef"} /\ (j.pc = "fetch" => Wants(j))
    BY <1>2, <1>7 DEF MissesDoc, IsLinking
  <2>2. uri \notin j.known
    BY <2>1 DEF JobTries, Wants
  <2>3. L[uri] = NoDoc
    BY <1>7 DEF Obtains
  <2>4. /\ n.nodes = j.nodes /\ n.known = j.known /\ n.anchors = j.anchors
        /\ n.malformed = j.malformed /\ n.refused = j.refused \cup {uri}
    BY <1>7 DEF MissesDoc
  <2>5. RefsOf(n) = RefsOf(j)
    BY <2>4 DEF RefsOf
  <2> HIDE DEF uri
  <2>6. /\ \A u \in n.refused : L[u] = NoDoc
        /\ Ids(n.doc) \cap (n.refused \cup n.malformed) = {}
    BY <1>2, <2>1, <2>2, <2>3, <2>4 DEF JobLinks
  <2> QED
    BY <1>2, <2>1, <2>4, <2>5, <2>6 DEF JobLinks
<1>8. ASSUME NEW doc \in Docs, CompilesDoc(j, n, doc)
      PROVE  JobLinks(n, L)
  <2> DEFINE uri == j.nodes[j.i].ref
  <2> SUFFICES ASSUME IsLinking(n)
               PROVE  JobLinks(n, L)
    BY DEF JobLinks
  <2>1. /\ IsLinking(j) /\ j.pc \in {"fetch", "askRef"} /\ AddsDoc(j, n, uri, doc)
        /\ j.i \in 1..Len(j.nodes) /\ ~j.nodes[j.i].linked /\ (j.pc = "fetch" => Wants(j))
    BY <1>2, <1>8 DEF CompilesDoc, IsLinking
  <2>2. uri \notin j.known /\ uri \notin j.anchors
    BY <2>1 DEF JobTries, Wants
  <2>3. L[uri] = doc /\ doc.id \in {uri, NoUri} /\ doc # NoDoc
    BY <1>8, DocsAssumption DEF Obtains
  <2>4. uri \in Uris /\ uri \in RefsOf(j)
    <3>1. j.nodes[j.i] \in NodeType
      BY <1>1, <2>1, ElementOfSeq
    <3> QED
      BY <2>1, <3>1 DEF NodeType, RefsOf
  <2>5. Ids(doc) \subseteq {uri}
    BY <2>3, UrisAssumption DEF Ids
  <2>6. /\ n.known = j.known \cup {uri} /\ n.refused = j.refused
        /\ n.anchors = (IF doc.valid THEN j.anchors \cup {uri} ELSE j.anchors)
        /\ n.malformed = (IF doc.valid THEN j.malformed ELSE j.malformed \cup {uri})
    BY <2>1, <2>5 DEF AddsDoc
  <2>7. MentionsIn(L, uri) = ToSet(doc.refs)
    BY <2>3 DEF MentionsIn
  <2>8. RefsOf(n) = RefsOf(j) \cup ToSet(doc.refs)
    <3>1. /\ Len(n.nodes) = Len(j.nodes) + Len(NodesOf(doc)) /\ Len(NodesOf(doc)) \in Nat
          /\ \A k \in 1..Len(j.nodes) : n.nodes[k] = j.nodes[k]
          /\ \A k \in 1..Len(NodesOf(doc)) : n.nodes[Len(j.nodes) + k] = NodesOf(doc)[k]
      BY <2>1, NodesAppended
    <3>2. ASSUME NEW u \in RefsOf(n)
          PROVE  u \in RefsOf(j) \cup ToSet(doc.refs)
      <4>1. PICK k \in 1..Len(n.nodes) : n.nodes[k].ref = u
        BY DEF RefsOf
      <4>2. CASE k <= Len(j.nodes)
        <5>1. k \in 1..Len(j.nodes)
          BY <1>1, <4>1, <4>2
        <5>2. j.nodes[k].ref = u
          BY <3>1, <4>1, <5>1
        <5>3. u \in Uris
          BY DEF RefsOf
        <5> QED
          BY <5>1, <5>2, <5>3 DEF RefsOf
      <4>3. CASE ~(k <= Len(j.nodes))
        <5>1. k - Len(j.nodes) \in 1..Len(NodesOf(doc)) /\ Len(j.nodes) + (k - Len(j.nodes)) = k
          <6> DEFINE a == Len(j.nodes)
                     b == Len(NodesOf(doc))
          <6>1. k \in 1..(a + b) /\ a \in Nat /\ b \in Nat /\ ~(k <= a)
            BY <1>1, <3>1, <4>1, <4>3
          <6> HIDE DEF a, b
          <6>2. k - a \in 1..b /\ a + (k - a) = k
            BY <6>1
          <6> QED
            BY <6>2 DEF a, b
        <5>2. NodesOf(doc)[k - Len(j.nodes)].ref = u
          BY <3>1, <4>1, <5>1
        <5> QED
          BY <3>2, <5>1, <5>2, NodesRefer, UrisAssumption DEF RefsOf
      <4> QED
        BY <4>2, <4>3
    <3>3. RefsOf(j) \subseteq RefsOf(n)
      <4>1. \A k \in 1..Len(j.nodes) : k \in 1..Len(n.nodes) /\ n.nodes[k] = j.nodes[k]
        BY <1>1, <3>1
      <4> QED
        BY <4>1 DEF RefsOf
    <3>4. ASSUME NEW u \in ToSet(doc.refs)
          PROVE  u \in RefsOf(n)
      <4>1. PICK k \in 1..Len(NodesOf(doc)) : NodesOf(doc)[k].ref = u
        BY NodesRefer
      <4>2. Len(j.nodes) + k \in 1..Len(n.nodes) /\ n.nodes[Len(j.nodes) + k].ref = u
        BY <1>1, <3>1, <4>1
      <4>3. u \in Uris
        BY NodesRefer
      <4> QED
        BY <4>2, <4>3 DEF RefsOf
    <3> QED
      BY <3>2, <3>3, <3>4
  <2>9. RefsOf(n) \subseteq ReachedIn(L, j.doc)
    <3>1. uri \in ReachedIn(L, j.doc) \ Ids(j.doc)
      BY <2>1, <2>2, <2>4 DEF JobLinks
    <3>2. ToSet(doc.refs) \subseteq Uris
      BY NodesRefer
    <3>3. ToSet(doc.refs) \subseteq ReachedIn(L, j.doc)
      BY <2>7, <3>1, <3>2, ReachedClosed
    <3> QED
      BY <2>1, <2>8, <3>3 DEF JobLinks
  <2>10. \A k \in 1..Len(n.nodes) : n.nodes[k].linked => n.nodes[k].ref \in n.anchors \cup {NoUri}
    <3>1. /\ Len(n.nodes) = Len(j.nodes) + Len(NodesOf(doc)) /\ Len(NodesOf(doc)) \in Nat
          /\ \A k \in 1..Len(j.nodes) : n.nodes[k] = j.nodes[k]
          /\ \A k \in 1..Len(NodesOf(doc)) : n.nodes[Len(j.nodes) + k] = NodesOf(doc)[k]
      BY <2>1, NodesAppended
    <3> TAKE k \in 1..Len(n.nodes)
    <3>2. CASE k <= Len(j.nodes)
      <4>1. k \in 1..Len(j.nodes) /\ n.nodes[k] = j.nodes[k]
        BY <1>1, <3>1, <3>2
      <4> QED
        BY <4>1, <2>1, <2>6 DEF JobLinks
    <3>3. CASE ~(k <= Len(j.nodes))
      <4>1. k - Len(j.nodes) \in 1..Len(NodesOf(doc)) /\ Len(j.nodes) + (k - Len(j.nodes)) = k
        BY <1>1, <3>1, <3>3
      <4>2. n.nodes[k] = NodesOf(doc)[k - Len(j.nodes)]
        BY <3>1, <4>1
      <4> QED
        BY <4>1, <4>2, NodesRefer
    <3> QED
      BY <3>2, <3>3
  <2> HIDE DEF uri
  <2>11. /\ Ids(j.doc) \subseteq n.anchors /\ n.anchors \subseteq n.known
         /\ Ids(j.doc) \cap (n.refused \cup n.malformed) = {}
         /\ n.malformed \subseteq n.known /\ n.malformed \cap n.anchors = {}
         /\ \A u \in n.refused : L[u] = NoDoc
    BY <2>1, <2>2, <2>6 DEF JobLinks
  <2>12. ASSUME NEW u \in n.known \ Ids(j.doc)
         PROVE  /\ L[u] # NoDoc /\ MentionsIn(L, u) \subseteq RefsOf(n)
                /\ L[u].valid <=> u \in n.anchors
    <3>1. CASE u = uri
      BY <2>2, <2>3, <2>6, <2>7, <2>8, <3>1
    <3>2. CASE u # uri
      <4>1. u \in j.known \ Ids(j.doc) /\ (u \in n.anchors <=> u \in j.anchors)
        BY <2>6, <2>12, <3>2
      <4> QED
        BY <2>1, <2>8, <4>1 DEF JobLinks
    <3> QED
      BY <3>1, <3>2
  <2>13. ToSet(j.doc.refs) \subseteq RefsOf(n)
    BY <2>1, <2>8 DEF JobLinks
  <2> QED
    BY <1>2, <2>9, <2>10, <2>11, <2>12, <2>13 DEF JobLinks
<1> QED
  BY <1>3, <1>4, <1>5, <1>6, <1>7, <1>8 DEF Advances

\* A new call satisfies the invariant.
LEMMA NewJobLinks ==
  ASSUME NEW uri, NEW doc, NEW strict, NEW L, NEW j, j = NewJob(uri, doc, strict)
  PROVE  Fresh(j) /\ JobSettles(j) /\ JobTries(j) /\ JobLinks(j, L)
BY DEF NewJob, Fresh, JobSettles, JobTries, JobLinks, IsLinking

\* Documents enter tier 2 by add, under the URI it is given, and from the fetcher.
LEMMA DocumentsNamed ==
  ASSUME Steady, TypeOK, AddedByName', [Next]_vars,
         \A u \in DOMAIN documents : documents[u].id \in {u, NoUri}
  PROVE  \A u \in DOMAIN documents' : documents'[u].id \in {u, NoUri}
<1>1. CASE UNCHANGED documents
  BY <1>1
<1>2. ASSUME NEW uri \in Uris, NEW doc \in Docs, documents' = Put(documents, uri, doc),
             doc.id \in {uri, NoUri}
      PROVE  \A u \in DOMAIN documents' : documents'[u].id \in {u, NoUri}
  BY <1>2 DEF Put
<1>3. ASSUME NEW uri \in Uris, NEW doc \in Docs, NEW strict, Add(uri, doc, strict)
      PROVE  documents' = Put(documents, uri, doc) /\ doc.id \in {uri, NoUri}
  <2>1. <<uri, doc>> \in registered'
    BY <1>3 DEF Add
  <2> QED
    BY <1>3, <2>1 DEF Add, AddedByName
<1>4. ASSUME NEW uri \in Uris, RemoveSchema(uri)
      PROVE  \A u \in DOMAIN documents' : u \in DOMAIN documents /\ documents'[u] = documents[u]
  BY <1>4 DEF RemoveSchema, Drop
<1>5. Clear => DOMAIN documents' = {}
  BY DEF Clear
<1>6. ASSUME NEW doc \in Docs \cup {NoDoc}, Answer(doc), doc # NoDoc
      PROVE  Asked \in Uris /\ documents' = Put(documents, Asked, doc) /\ doc.id \in {Asked, NoUri}
  <2>1. Asked \in Uris /\ doc \in Answers[Asked]
    BY <1>6, AskedTypes DEF Answer
  <2> QED
    BY <1>6, <2>1, ChosenAnswer DEF Answer
<1>7. CASE UserCall
  BY <1>1, <1>2, <1>3, <1>4, <1>5, <1>7 DEF UserCall, CreateHit, CreateMiss, SetFetcher
<1>8. CASE UserAnswer
  <2>1. PICK doc \in Docs \cup {NoDoc} : Answer(doc)
    BY <1>8 DEF UserAnswer
  <2>2. CASE doc = NoDoc
    BY <1>1, <2>1, <2>2 DEF Answer
  <2>3. CASE doc # NoDoc
    BY <1>2, <1>6, <2>1, <2>3
  <2> QED
    BY <2>2, <2>3
<1>9. CASE Step \/ UNCHANGED vars
  BY <1>1, <1>9
  DEF Step, Dialect, Tree, Link, Skip, UseCached, NoUpstream, Ask, EndPass, Finish, vars
<1> QED
  BY <1>7, <1>8, <1>9 DEF Next

\* A running call other than one that begins goes on from what it was.
LEMMA LinkInvKept ==
  ASSUME Sequential, Steady, MaxPasses >= 2, TypeOK, TypeOK', OnceInv, LinkInv,
         AddedByName', [Next]_vars
  PROVE  LinkInv'
<1>1. \A u \in DOMAIN documents' : documents'[u].id \in {u, NoUri}
  BY DocumentsNamed DEF LinkInv
<1>2. ASSUME NEW k \in 1..Len(jobs')
      PROVE  /\ Fresh(jobs'[k]) /\ JobSettles(jobs'[k]) /\ JobTries(jobs'[k])
             /\ JobLinks(jobs'[k], Denotes')
  <2>1. jobs'[k] \in JobType /\ (k \in 1..Len(jobs) => jobs[k] \in JobType)
    BY DEF TypeOK
  <2>2. CASE \E uri, doc, strict : jobs'[k] = NewJob(uri, doc, strict)
    BY <2>2, NewJobLinks
  <2>3. CASE k \in 1..Len(jobs)
    <3>1. jobs # <<>> /\ Len(jobs) = 1 /\ k = 1
      <4> DEFINE len == Len(jobs)
      <4>1. len <= 1 /\ len \in Nat /\ k \in 1..len
        BY <2>3, LenProperties DEF OnceInv, TypeOK
      <4> HIDE DEF len
      <4>2. len = 1 /\ k = 1
        BY <4>1
      <4> QED
        BY <4>2 DEF len
    <3>2. Job = jobs[k]
      BY <3>1 DEF Job
    <3>3. Denotes' = Denotes
      <4>1. ~UserCall
        BY <3>1, CallsAlone
      <4>2. CASE UNCHANGED vars
        BY <4>2 DEF vars, Denotes, Lookup
      <4> QED
        BY <4>1, <4>2, DenotesKept DEF Next
    <3>4. CASE jobs'[k] = jobs[k]
      BY <2>3, <3>3, <3>4 DEF LinkInv
    <3>5. CASE Advances(jobs[k], jobs'[k])
      <4>1. Obtains(jobs[k], jobs'[k], Denotes)
        BY <3>1, <3>2, ObtainsDenoted DEF LinkInv
      <4>2. /\ Fresh(jobs[k]) /\ JobSettles(jobs[k]) /\ JobTries(jobs[k])
            /\ JobLinks(jobs[k], Denotes)
        BY <2>3 DEF LinkInv
      <4>3. NotCutOff(jobs[k])
        <5>1. jobs[k].pass \in Nat
          BY <2>1, <2>3 DEF JobType
        <5> QED
          BY <5>1, <4>2, BoundsAssumption DEF NotCutOff, JobTries
      <4> QED
        BY <2>1, <2>3, <3>3, <3>5, <4>1, <4>2, <4>3, FreshKept, SettlesKept, TriesKept, LinksKept
    <3> QED
      BY <2>2, <3>4, <3>5, JobsAdvance
  <2> QED
    BY <2>2, <2>3, JobsAdvance
<1> QED
  BY <1>1, <1>2 DEF LinkInv

\* What the property says with Lookup is what the invariant says with Denotes.
LEMMA DenotesReached ==
  ASSUME NEW doc
  PROVE  Reached(doc) = ReachedIn(Denotes, doc)
<1>1. \A u \in Uris : Mentions(u) = MentionsIn(Denotes, u)
  BY DEF Mentions, MentionsIn, Denotes
<1>2. {S \in SUBSET Uris : /\ ToSet(doc.refs) \subseteq S
                           /\ \A u \in S \ Ids(doc) : Mentions(u) \subseteq S}
        = ClosedIn(Denotes, doc)
  BY <1>1 DEF ClosedIn
<1> QED
  BY <1>2 DEF Reached, ReachedIn

\* At the end the references of the nodes are closed, so they are the reachable
\* ones, and the unlinked ones among them are settled because they denote nothing
\* that compiles.
LEMMA FinishedLinks ==
  ASSUME TypeOK, LinkInv
  PROVE  LinksWhatIsReachable
<1> SUFFICES ASSUME At("finish"), Job.doc.valid
             PROVE  Unlinked(Job) = Unavailable(Job.doc)
  BY DEF LinksWhatIsReachable
<1>1. jobs \in Seq(JobType) /\ jobs # <<>> /\ Job \in JobType
  BY JobTypes DEF TypeOK, JobsOK, At
<1>2. IsLinking(Job) /\ JobSettles(Job) /\ JobLinks(Job, Denotes)
  BY <1>1, LenProperties DEF LinkInv, Job, At, IsLinking
<1>3. /\ Job.nodes \in Seq(NodeType) /\ DOMAIN Job.nodes = 1..Len(Job.nodes) /\ Job.doc \in Docs
      /\ Job.known \subseteq Uris /\ Job.refused \subseteq Uris
  BY <1>1, LenProperties DEF JobType
<1>4. \A k \in 1..Len(Job.nodes) : Settled(Job, k)
  BY <1>2 DEF JobSettles, At
<1>5. \A u \in Uris : Denotes[u] = Lookup(u)
  BY DEF Denotes
<1>6. ASSUME NEW u \in RefsOf(Job) \ Ids(Job.doc)
      PROVE  MentionsIn(Denotes, u) \subseteq RefsOf(Job)
  <2>1. PICK k \in 1..Len(Job.nodes) : Job.nodes[k].ref = u
    BY DEF RefsOf
  <2>2. u # NoUri
    BY <1>6, UrisAssumption DEF RefsOf
  <2>3. u \in Job.known \cup Job.refused
    BY <1>2, <1>4, <2>1, <2>2 DEF Settled, JobLinks
  <2>4. CASE u \in Job.known
    BY <1>2, <2>4 DEF JobLinks
  <2>5. CASE u \in Job.refused
    BY <1>2, <2>5 DEF JobLinks, MentionsIn
  <2> QED
    BY <2>3, <2>4, <2>5
<1>7. ReachedIn(Denotes, Job.doc) = RefsOf(Job)
  <2>1. RefsOf(Job) \in ClosedIn(Denotes, Job.doc)
    BY <1>2, <1>6 DEF ClosedIn, JobLinks, RefsOf
  <2>2. RefsOf(Job) \subseteq ReachedIn(Denotes, Job.doc)
    BY <1>2 DEF JobLinks
  <2> QED
    BY <2>1, <2>2 DEF ReachedIn
<1>8. ASSUME NEW u \in Unlinked(Job)
      PROVE  u \in Unavailable(Job.doc)
  <2>1. PICK k \in 1..Len(Job.nodes) : ~Job.nodes[k].linked /\ Job.nodes[k].ref = u
    BY <1>3 DEF Unlinked
  <2>2. u \in Uris
    <3>1. Job.nodes[k] \in NodeType
      BY <1>3, ElementOfSeq
    <3> QED
      BY <2>1, <3>1 DEF NodeType
  <2>3. u \in Job.refused \cup Job.malformed
    BY <1>4, <2>1 DEF Settled
  <2>4. u \in RefsOf(Job) \ Ids(Job.doc)
    BY <1>2, <2>1, <2>2, <2>3 DEF RefsOf, JobLinks
  <2>5. Denotes[u] = NoDoc \/ ~Denotes[u].valid
    BY <1>2, <2>3, <2>4 DEF JobLinks
  <2> QED
    BY <1>5, <1>7, <2>2, <2>4, <2>5, DenotesReached DEF Unavailable
<1>9. ASSUME NEW u \in Unavailable(Job.doc)
      PROVE  u \in Unlinked(Job)
  <2>1. u \in RefsOf(Job) \ Ids(Job.doc) /\ (Lookup(u) = NoDoc \/ ~Lookup(u).valid)
    BY <1>7, DenotesReached DEF Unavailable
  <2>2. PICK k \in 1..Len(Job.nodes) : Job.nodes[k].ref = u
    BY <2>1 DEF RefsOf
  <2>3. u \in Uris /\ u # NoUri
    BY <2>1, UrisAssumption DEF RefsOf
  <2>4. u \notin Job.anchors
    BY <1>2, <1>5, <2>1, <2>3 DEF JobLinks
  <2>5. ~Job.nodes[k].linked
    BY <1>2, <2>2, <2>3, <2>4 DEF JobLinks
  <2> QED
    BY <1>3, <2>2, <2>5 DEF Unlinked
<1> QED
  BY <1>8, <1>9

\* A compilation that is not nested in another links exactly the references that
\* can be reached and whose document compiles, whatever the documents refer to;
\* two passes are enough.
THEOREM ReachableLinked ==
  Sequential /\ Steady /\ MaxPasses >= 2 /\ Spec => [](AddedByName => LinksWhatIsReachable)
<1> SUFFICES ASSUME Sequential, Steady, MaxPasses >= 2
             PROVE  Spec => [](AddedByName => LinksWhatIsReachable)
  OBVIOUS
<1>1. Init => OnceInv /\ LinkInv
  BY DEF Init, OnceInv, LinkInv, At
<1>2. TypeOK /\ TypeOK' /\ OnceInv /\ (AddedByName => LinkInv) /\ [Next]_vars
        => (OnceInv /\ (AddedByName => LinkInv))'
  <2> SUFFICES ASSUME TypeOK, TypeOK', OnceInv, AddedByName => LinkInv, [Next]_vars
               PROVE  OnceInv' /\ (AddedByName' => LinkInv')
    OBVIOUS
  <2>1. registered \subseteq registered'
    BY DEF Next, UserCall, UserAnswer, Step, Add, Begin, CreateHit, CreateMiss, SetFetcher, Answer,
           RemoveSchema, Clear, Dialect, Tree, Link, Skip, UseCached, NoUpstream, Ask, EndPass,
           Finish, vars
  <2>2. AddedByName' => AddedByName
    BY <2>1 DEF AddedByName
  <2> QED
    BY <2>2, OnceKept, LinkInvKept
<1>3. TypeOK /\ (AddedByName => LinkInv) => (AddedByName => LinksWhatIsReachable)
  BY FinishedLinks
<1> QED
  BY <1>1, <1>2, <1>3, RegistryTypes, PTL DEF Spec

=============================================================================
