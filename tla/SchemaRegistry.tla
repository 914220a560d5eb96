---------------------------- MODULE SchemaRegistry ----------------------------
(***************************************************************************)
(* SchemaRegistry: compiled schemas (tier 1) and raw documents (tier 2) by *)
(* URI, and the compilations that read and fill them.  A compilation is a  *)
(* sequence of steps, because it runs the user's fetcher, and the fetcher  *)
(* may call the registry again: jobs is the stack of calls in progress.    *)
(*                                                                         *)
(* A schema document is abstracted to what decides which URIs are fetched  *)
(* and linked: its $id, the metaschema that $schema names, the remote URIs *)
(* its $refs point to, in compilation order, and whether it compiles.      *)
(* Fragments, anchors and local references are the subject of linking, not *)
(* of the registry.  No URI of the model is one of the built-in            *)
(* metaschemas, which are never fetched.                                   *)
(***************************************************************************)
EXTENDS Integers, Sequences, SequencesExt

CONSTANTS
  Uris,        \* absolute URIs
  NoUri,       \* an absent $id, or the $ref of a node that is no reference
  Docs,        \* schema documents
  NoDoc,       \* std::nullopt of a fetcher
  Answers,     \* what the user's fetcher may return for a URI
  MaxPasses,   \* kMaxPasses: 16 in the code
  MaxCalls,    \* bound on the number of add and create calls
  MaxDepth     \* bound on the nesting of calls through the fetcher

MaybeUri == Uris \cup {NoUri}

ASSUME UrisAssumption == NoUri \notin Uris
ASSUME DocsAssumption ==
  /\ Docs \subseteq [id : MaybeUri, dialect : MaybeUri, refs : Seq(Uris), valid : BOOLEAN]
  /\ NoDoc \notin Docs
ASSUME AnswersAssumption == Answers \in [Uris -> SUBSET (Docs \cup {NoDoc})]
ASSUME BoundsAssumption == MaxPasses \in Nat \ {0} /\ MaxCalls \in Nat /\ MaxDepth \in Nat

VARIABLES
  compiled,     \* m_compiled
  documents,    \* m_documents
  hasFetcher,   \* m_userFetcher is set
  jobs,         \* add and create calls in progress; the last one is running
  outcome,      \* result of the last finished call
  calls,        \* number of calls made
  registered,   \* history: the <<uri, document>> pairs given to add
  upstream      \* history: documents the user's fetcher gave for each URI
                \* since the URI was last removed

vars == <<compiled, documents, hasFetcher, jobs, outcome, calls, registered, upstream>>

\* A node other than a reference has nothing to link.
NodeType == [ref : Uris, linked : BOOLEAN] \cup [ref : {NoUri}, linked : {TRUE}]

\* JSONSchema: the document it was compiled from, and the references left
\* unlinked; history: the URIs that nobody had a document for, and those whose
\* document did not compile.
SchemaType ==
  [doc : Docs, unresolved : SUBSET Uris, refused : SUBSET Uris, malformed : SUBSET Uris]

\* The locals of a call.  strict is UnresolvedRefPolicy::Fail; known and anchors
\* are the keys of resourceDocuments and of the anchor table; start, end, i,
\* pass and fetched are the variables of resolveAllReferences.
JobType ==
  [uri : MaybeUri, doc : Docs, strict : BOOLEAN, nodes : Seq(NodeType),
   pc : {"dialect", "askDialect", "tree", "link", "fetch", "askRef", "finish"},
   known : SUBSET Uris, anchors : SUBSET Uris, refused : SUBSET Uris, malformed : SUBSET Uris,
   start : Nat, end : Nat, i : Nat \ {0}, pass : Nat, fetched : BOOLEAN]

NoOutcome == [kind |-> "none"]

Init ==
  /\ compiled = <<>>
  /\ documents = <<>>
  /\ hasFetcher \in BOOLEAN
  /\ jobs = <<>>
  /\ outcome = NoOutcome
  /\ calls = 0
  /\ registered = {}
  /\ upstream = [u \in Uris |-> 0]

-----------------------------------------------------------------------------
(* Helpers *)

\* m[u] = x
Put(m, u, x) == [v \in DOMAIN m \cup {u} |-> IF v = u THEN x ELSE m[v]]
Drop(m, u) == [v \in DOMAIN m \ {u} |-> m[v]]

Job == jobs[Len(jobs)]
At(pc) == jobs # <<>> /\ Job.pc = pc

\* The running call goes on with locals j.
Continue(j) == jobs' = [jobs EXCEPT ![Len(jobs)] = j]

Ids(doc) == {doc.id} \cap Uris

\* The nodes that compileSchemaNode appends for a document: its references,
\* then its own node unless compiling it fails.
NodesOf(doc) ==
  [k \in 1..Len(doc.refs) |-> [ref |-> doc.refs[k], linked |-> FALSE]]
    \o (IF doc.valid THEN <<[ref |-> NoUri, linked |-> TRUE]>> ELSE <<>>)

NewJob(uri, doc, strict) ==
  [uri |-> uri, doc |-> doc, strict |-> strict, nodes |-> <<>>, pc |-> "dialect",
   known |-> {}, anchors |-> {}, refused |-> {}, malformed |-> {},
   start |-> 0, end |-> 0, i |-> 1, pass |-> 0, fetched |-> FALSE]

-----------------------------------------------------------------------------
(* Calls of the user, also from inside the fetcher *)

MayCall ==
  jobs # <<>> => Job.pc \in {"askDialect", "askRef"} /\ Len(jobs) < MaxDepth

Begin(uri, doc, strict) ==
  /\ MayCall
  /\ calls < MaxCalls
  /\ calls' = calls + 1
  /\ jobs' = Append(jobs, NewJob(uri, doc, strict))

\* add: the raw document is cached before anything is compiled.
Add(uri, doc, strict) ==
  /\ Begin(uri, doc, strict)
  /\ documents' = Put(documents, uri, doc)
  /\ registered' = registered \cup {<<uri, doc>>}
  /\ UNCHANGED <<compiled, hasFetcher, outcome, upstream>>

\* create: tier 1 answers for a known $id.
CreateHit(doc, strict) ==
  /\ MayCall
  /\ calls < MaxCalls
  /\ calls' = calls + 1
  /\ doc.id \in DOMAIN compiled
  /\ outcome' = [kind |-> "ok", strict |-> strict, schema |-> compiled[doc.id]]
  /\ UNCHANGED <<compiled, documents, hasFetcher, jobs, registered, upstream>>

CreateMiss(doc, strict) ==
  /\ doc.id \notin DOMAIN compiled
  /\ Begin(NoUri, doc, strict)
  /\ UNCHANGED <<compiled, documents, hasFetcher, outcome, registered, upstream>>

RemoveSchema(uri) ==
  /\ MayCall
  /\ compiled' = Drop(compiled, uri)
  /\ documents' = Drop(documents, uri)
  /\ upstream' = [upstream EXCEPT ![uri] = 0]
  /\ UNCHANGED <<hasFetcher, jobs, outcome, calls, registered>>

Clear ==
  /\ MayCall
  /\ compiled' = <<>>
  /\ documents' = <<>>
  /\ upstream' = [u \in Uris |-> 0]
  /\ UNCHANGED <<hasFetcher, jobs, outcome, calls, registered>>

\* Not from inside the fetcher, which it would destroy while it runs.
SetFetcher(set) ==
  /\ jobs = <<>>
  /\ hasFetcher' = set
  /\ UNCHANGED <<compiled, documents, jobs, outcome, calls, registered, upstream>>

-----------------------------------------------------------------------------
(* compileSchema *)

\* The metaschema is fetched for its $vocabulary.
Dialect ==
  /\ At("dialect")
  /\ Continue([Job EXCEPT !.pc =
       IF Job.doc.dialect = NoUri \/ Job.doc.dialect \in DOMAIN documents \/ ~hasFetcher
       THEN "tree" ELSE "askDialect"])
  /\ UNCHANGED <<compiled, documents, hasFetcher, outcome, calls, registered, upstream>>

\* compileSchemaNode of the root document.
Tree ==
  /\ At("tree")
  /\ Continue([Job EXCEPT !.nodes = NodesOf(Job.doc), !.known = Ids(Job.doc),
                          !.anchors = IF Job.doc.valid THEN Ids(Job.doc) ELSE {},
                          !.pc = IF Job.doc.valid THEN "link" ELSE "finish"])
  /\ UNCHANGED <<compiled, documents, hasFetcher, outcome, calls, registered, upstream>>

-----------------------------------------------------------------------------
(* resolveAllReferences *)

\* Local resolution of the nodes from start, the beginning of a pass.
Link ==
  /\ At("link")
  /\ IF Job.pass < MaxPasses /\ Job.start < Len(Job.nodes)
     THEN Continue([Job EXCEPT
            !.nodes = [k \in DOMAIN Job.nodes |->
                         IF k > Job.start /\ Job.nodes[k].ref \in Job.anchors
                         THEN [Job.nodes[k] EXCEPT !.linked = TRUE] ELSE Job.nodes[k]],
            !.end = Len(Job.nodes), !.i = 1, !.fetched = FALSE, !.pc = "fetch"])
     ELSE Continue([Job EXCEPT !.pc = "finish"])
  /\ UNCHANGED <<compiled, documents, hasFetcher, outcome, calls, registered, upstream>>

AtNode == At("fetch") /\ Job.i <= Len(Job.nodes)
Node == Job.nodes[Job.i]

\* fetchAndCompileRemoteSchema is called for an unlinked node only, and returns
\* at once for a URI that this compilation has already seen.
Wanted == ~Node.linked /\ Node.ref \notin Job.known \cup Job.anchors

\* Mutant: the loop does not advance.
SkipStays ==
  /\ AtNode
  /\ ~Wanted
  /\ Continue([Job EXCEPT !.fetched = FALSE])
  /\ UNCHANGED <<compiled, documents, hasFetcher, outcome, calls, registered, upstream>>

Skip ==
  /\ AtNode
  /\ ~Wanted
  /\ Continue([Job EXCEPT !.i = Job.i + 1])
  /\ UNCHANGED <<compiled, documents, hasFetcher, outcome, calls, registered, upstream>>

\* Mutant: the document is anchored by its $id only.
CompiledWithoutUri(j, uri, doc) ==
  [j EXCEPT !.known = j.known \cup {uri} \cup Ids(doc),
            !.anchors = IF doc.valid THEN j.anchors \cup Ids(doc) ELSE j.anchors,
            !.nodes = j.nodes \o NodesOf(doc),
            !.fetched = j.fetched \/ doc.valid,
            !.malformed = IF doc.valid THEN j.malformed ELSE j.malformed \cup {uri} \cup Ids(doc),
            !.i = j.i + 1,
            !.pc = "fetch"]

\* Compile a document obtained for the current node into the job j.
Compiled(j, uri, doc) ==
  [j EXCEPT !.known = j.known \cup {uri} \cup Ids(doc),
            !.anchors = IF doc.valid THEN j.anchors \cup {uri} \cup Ids(doc) ELSE j.anchors,
            !.nodes = j.nodes \o NodesOf(doc),
            !.fetched = j.fetched \/ doc.valid,
            !.malformed = IF doc.valid THEN j.malformed ELSE j.malformed \cup {uri} \cup Ids(doc),
            !.i = j.i + 1,
            !.pc = "fetch"]

Refused(j, uri) ==
  [j EXCEPT !.refused = j.refused \cup {uri}, !.i = j.i + 1, !.pc = "fetch"]

\* The caching fetcher finds the document in tier 2.
UseCached ==
  /\ AtNode
  /\ Wanted
  /\ Node.ref \in DOMAIN documents
  /\ Continue(Compiled(Job, Node.ref, documents[Node.ref]))
  /\ UNCHANGED <<compiled, documents, hasFetcher, outcome, calls, registered, upstream>>

NoUpstream ==
  /\ AtNode
  /\ Wanted
  /\ Node.ref \notin DOMAIN documents
  /\ ~hasFetcher
  /\ Continue(Refused(Job, Node.ref))
  /\ UNCHANGED <<compiled, documents, hasFetcher, outcome, calls, registered, upstream>>

\* The user's fetcher is called.
Ask ==
  /\ AtNode
  /\ Wanted
  /\ Node.ref \notin DOMAIN documents
  /\ hasFetcher
  /\ Continue([Job EXCEPT !.pc = "askRef"])
  /\ UNCHANGED <<compiled, documents, hasFetcher, outcome, calls, registered, upstream>>

Asked == IF Job.pc = "askDialect" THEN Job.doc.dialect ELSE Node.ref

\* Mutant: nothing is cached.
AnswerNotCached(doc) ==
  /\ At("askDialect") \/ At("askRef")
  /\ doc \in Answers[Asked]
  /\ upstream' = IF doc = NoDoc THEN upstream ELSE [upstream EXCEPT ![Asked] = @ + 1]
  /\ Continue(IF Job.pc = "askDialect" THEN [Job EXCEPT !.pc = "tree"]
              ELSE IF doc = NoDoc THEN Refused(Job, Asked)
              ELSE Compiled(Job, Asked, doc))
  /\ UNCHANGED <<compiled, documents, hasFetcher, outcome, calls, registered>>

\* It returns: a document is cached, whatever it is.
Answer(doc) ==
  /\ At("askDialect") \/ At("askRef")
  /\ doc \in Answers[Asked]
  /\ IF doc = NoDoc THEN UNCHANGED <<documents, upstream>>
     ELSE /\ documents' = Put(documents, Asked, doc)
          /\ upstream' = [upstream EXCEPT ![Asked] = @ + 1]
  /\ Continue(IF Job.pc = "askDialect" THEN [Job EXCEPT !.pc = "tree"]
              ELSE IF doc = NoDoc THEN Refused(Job, Asked)
              ELSE Compiled(Job, Asked, doc))
  /\ UNCHANGED <<compiled, hasFetcher, outcome, calls, registered>>

\* Mutant: earlier nodes are not linked again after a fetch.
EndPassNoRestart ==
  /\ At("fetch")
  /\ Job.i > Len(Job.nodes)
  /\ Continue([Job EXCEPT
       !.start = Job.end,
       !.pass = Job.pass + 1,
       !.pc = IF Job.fetched \/ Len(Job.nodes) # Job.end THEN "link" ELSE "finish"])
  /\ UNCHANGED <<compiled, documents, hasFetcher, outcome, calls, registered, upstream>>

\* The end of a pass: again from the first node if anything was fetched, from
\* the new nodes if there are any, and no more otherwise.
EndPass ==
  /\ At("fetch")
  /\ Job.i > Len(Job.nodes)
  /\ Continue([Job EXCEPT
       !.start = IF Job.fetched THEN 0 ELSE Job.end,
       !.pass = Job.pass + 1,
       !.pc = IF Job.fetched \/ Len(Job.nodes) # Job.end THEN "link" ELSE "finish"])
  /\ UNCHANGED <<compiled, documents, hasFetcher, outcome, calls, registered, upstream>>

-----------------------------------------------------------------------------
(* The end of add and create *)

Unlinked(j) == {j.nodes[k].ref : k \in {q \in DOMAIN j.nodes : ~j.nodes[q].linked}}

Schema(j) ==
  [doc |-> j.doc, unresolved |-> Unlinked(j), refused |-> j.refused, malformed |-> j.malformed]

Fails(j) == ~j.doc.valid \/ (j.strict /\ Unlinked(j) # {})

\* Mutant: the URI of the outermost call in progress is used.
CachedForOutermost(j) ==
  [u \in DOMAIN compiled \cup ({jobs[1].uri} \cap Uris) \cup Ids(j.doc) |->
     IF u \in {jobs[1].uri} \cup Ids(j.doc) THEN Schema(j) ELSE compiled[u]]

\* The schema is cached under the URI it was added under and under its $id.
Cached(j) ==
  [u \in DOMAIN compiled \cup ({j.uri} \cap Uris) \cup Ids(j.doc) |->
     IF u \in {j.uri} \cup Ids(j.doc) THEN Schema(j) ELSE compiled[u]]

\* Mutant: the strict check comes after the schema is cached.
FinishCachesFirst ==
  /\ At("finish")
  /\ jobs' = Front(jobs)
  /\ compiled' = IF Job.doc.valid THEN Cached(Job) ELSE compiled
  /\ outcome' = IF Fails(Job) THEN [kind |-> "error"]
                ELSE [kind |-> "ok", strict |-> Job.strict, schema |-> Schema(Job)]
  /\ UNCHANGED <<documents, hasFetcher, calls, registered, upstream>>

Finish ==
  /\ At("finish")
  /\ jobs' = Front(jobs)
  /\ IF Fails(Job)
     THEN /\ outcome' = [kind |-> "error"]
          /\ UNCHANGED compiled
     ELSE /\ outcome' = [kind |-> "ok", strict |-> Job.strict, schema |-> Schema(Job)]
          /\ compiled' = Cached(Job)
  /\ UNCHANGED <<documents, hasFetcher, calls, registered, upstream>>

-----------------------------------------------------------------------------

UserCall ==
  \/ \E uri \in Uris, doc \in Docs, strict \in BOOLEAN : Add(uri, doc, strict)
  \/ \E doc \in Docs, strict \in BOOLEAN : CreateHit(doc, strict) \/ CreateMiss(doc, strict)
  \/ \E uri \in Uris : RemoveSchema(uri)
  \/ Clear
  \/ \E set \in BOOLEAN : SetFetcher(set)

UserAnswer == \E doc \in Docs \cup {NoDoc} : Answer(doc)

Step ==
  \/ Dialect \/ Tree \/ Link \/ Skip \/ UseCached \/ NoUpstream \/ Ask \/ EndPass
  \/ Finish

Next == UserCall \/ UserAnswer \/ Step

Spec == Init /\ [][Next]_vars

\* A call runs to its end on the caller's thread, and the fetcher returns: it
\* may call the registry while it runs, but not for ever.
FairSpec == Spec /\ WF_vars(Step) /\ WF_vars(UserAnswer)

-----------------------------------------------------------------------------
(* Properties *)

IsMap(m, S) == DOMAIN m \subseteq Uris /\ \A u \in DOMAIN m : m[u] \in S

TypeOK ==
  /\ IsMap(compiled, SchemaType)
  /\ IsMap(documents, Docs)
  /\ hasFetcher \in BOOLEAN
  /\ jobs \in Seq(JobType)
  /\ \A k \in 1..Len(jobs) :
       /\ jobs[k].pc = "askDialect" => jobs[k].doc.dialect \in Uris
       /\ jobs[k].pc = "askRef" => /\ jobs[k].i \in 1..Len(jobs[k].nodes)
                                   /\ ~jobs[k].nodes[jobs[k].i].linked
  /\ outcome.kind \in {"none", "ok", "error"}
  /\ calls \in 0..MaxCalls
  /\ registered \subseteq Uris \X Docs
  /\ upstream \in [Uris -> Nat]

\* "Second compilation referencing the same remote: no I/O, uses cached doc"
\* (SchemaRegistry.hpp): until it is removed, a URI's document is obtained from
\* the user's fetcher at most once, by whichever calls need it.
ObtainedOnce == \A u \in Uris : upstream[u] <= 1

\* Tier 1 never mixes schemas up: what get(u) returns was compiled from a
\* document whose $id is u, or from one that was registered under u.
NamedSchemas ==
  \A u \in DOMAIN compiled :
    compiled[u].doc.id = u \/ <<u, compiled[u].doc>> \in registered

\* Tier 1 changes only when a call succeeds, and then only by what that call
\* returns; or when the user removes something.
OnlySuccessCaches ==
  [][compiled' # compiled =>
       \/ DOMAIN compiled' \subseteq DOMAIN compiled /\ UNCHANGED <<jobs, outcome>>
       \/ /\ outcome'.kind = "ok"
          /\ \A u \in DOMAIN compiled' :
               \/ compiled'[u] = outcome'.schema
               \/ u \in DOMAIN compiled /\ compiled'[u] = compiled[u]]_vars

\* A reference is left unlinked only if its URI could not be had: nobody had a
\* document for it, or the document does not compile.
UnlinkedExcused ==
  outcome.kind = "ok" =>
    outcome.schema.unresolved \subseteq outcome.schema.refused \cup outcome.schema.malformed

\* "Fail: fail create() with ParseError::UnresolvedReference" (JSONSchema.hpp): a
\* strict call does not return a schema with unlinked references.
StrictIsLinked ==
  (outcome.kind = "ok" /\ outcome.strict) => outcome.schema.unresolved = {}

\* What a compilation links, said without its loops, for a fetcher with one
\* answer per URI.  Lookup(u) is the document that u denotes; the references
\* reachable from the root through such documents are linked to those that
\* compile.
Lookup(u) ==
  IF u \in DOMAIN documents THEN documents[u]
  ELSE IF hasFetcher THEN CHOOSE d \in Answers[u] : TRUE ELSE NoDoc
Mentions(u) == IF Lookup(u) = NoDoc THEN {} ELSE ToSet(Lookup(u).refs)
Reached(doc) ==
  LET closed == {S \in SUBSET Uris : /\ ToSet(doc.refs) \subseteq S
                                     /\ \A u \in S \ Ids(doc) : Mentions(u) \subseteq S}
  IN {u \in Uris : \A S \in closed : u \in S}
Unavailable(doc) ==
  {u \in Reached(doc) \ Ids(doc) : Lookup(u) = NoDoc \/ ~Lookup(u).valid}
LinksWhatIsReachable ==
  At("finish") /\ Job.doc.valid => Unlinked(Job) = Unavailable(Job.doc)

\* Every call returns.
CallsReturn == (jobs # <<>>) ~> (jobs = <<>>)

=============================================================================
