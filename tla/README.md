# json-query in TLA+

json-query is a C++23 library over Qt's JSON classes: it reads and writes JSON documents through
RFC 6901 pointers, applies RFC 6902 patches and RFC 7386 merge patches, compiles and evaluates
RFC 9535 path queries, and compiles JSON Schema 2020-12 documents and validates instances
against them.  This directory holds TLA+ modules that model its core, TLC configurations that
check them on small instances, and theorems that TLAPS proves for every instance.

All file names below are relative to the repository; `PROJECT.json` names, for every definition,
the lines it models.

## The system

The library has no process, socket or thread of its own.  Every public call runs to completion
on the caller's thread, over values with copy-on-write semantics; paths may be compiled by
several threads at once.  What makes it hard is inside a call: loops that walk two structures at
once, counters of different widths, several failing steps that must leave no trace, caches that
outlive a call, and callbacks that run in the middle of one.

| Part | State it keeps | Operations | What makes it correct |
|---|---|---|---|
| JSON Pointer, reads and writes (`JSONPointerEvaluation.hpp`, `JSONPointerWrite.cpp`) | the caller's variable; within a call the descent's `path` and the rebuilt levels | `evaluate`, `add`, `replace`, `remove`, `set` on a value, document, object or array | strong guarantee; a read sees the last write; a write touches only its location; typed roots keep their kind; every call returns |
| JSON Pointer, text form (`JSONPointerParsing.hpp`, `JSONPointer.cpp`) | the token vector | `create`, `appended`, `to_string` | accepts RFC 6901 exactly; nothing is lost; a composed pointer equals its re-parsed text |
| JSON Patch, application (`JSONPatch.cpp`) | a working copy, the operation counter | `apply`, `applyInPlace` | all or nothing; the error names the operation; moves conserve data; `test` passes for equal values only |
| JSON Patch, wire format and builder (`JSONPatch.cpp`, `JSONPatchBuilder.cpp`) | the compiled operations | `create`, `toJson`, the builder's steps | `create(toJson())` is the same patch |
| JSON Merge Patch (`JSONMergePatch.cpp`) | none | `merge_patch` | RFC 7386: every place of the result holds what the target and the patch say |
| JSON Path, compilation (`JSONPathCompile.*`, `JSONPathParsers.cpp`, `JSONPathBracketRules.cpp`, the filter parsers) | a parser position, a token vector; a counter of bracket groups shared by all threads | `JSONPath::create` | accepts RFC 9535 exactly; brackets are not confused |
| JSON Path, evaluation (`JSONPathEvaluate.cpp`, `JSONPathEvalHelpers.cpp`, `JSONPathTokenEvaluators.cpp`, cursors) | the current node list, a thread-local stack and one-element array | `evaluate`, `evaluateDefiniteValue` | the node list of RFC 9535, in order; slices inside bounds; no state survives a call |
| JSON Path, filters (`JSONPathFilter*.cpp`, `JSONPathContextFilter.cpp`) | none | comparison, existence, functions | RFC 9535 comparison semantics |
| Array pool (`ArrayPool.hpp`) | a per-thread stack of arrays, counters | acquire, return, clear | an array handed out is empty and in one place; bounded size |
| JSON Schema, compilation and linking (`JSONSchemaCompile.cpp`, `CompileKeywords.hpp`, `CompileDispatch.hpp`) | the node vector, anchors, resource documents, base URI scope | `JSONSchema::create` | every reference is linked to its target, or reported; linking terminates |
| JSON Schema, validation (`JSONSchemaValidate.cpp`, `Validate*.hpp`) | the active references, the dynamic scope, evaluated-property trackers | `validate`, `isValid` | terminates on recursive schemas; annotations of failed branches are dropped |
| Schema registry (`SchemaRegistry.cpp`) | compiled schemas and raw documents by URI, the user's fetcher | `add`, `create`, `get`, `remove`, `clear` | a URI is fetched once; a failed call leaves the caches consistent |
| JSON Schema, formats (`FormatValidators.cpp`) | none | one predicate per `format` | accepts what the grammar and the calendar allow |
| Value utilities, errors and their texts, metaschemas, compile-time literals, ABI configuration, build files, tests, benchmarks, examples | none | pure functions and data | not modelled |

Interaction: JSON Patch, JSON Schema linking and the literals call JSON Pointer; the registry
calls schema compilation, which calls back into the registry's caching fetcher and so into the
user's fetcher; JSON Path evaluation uses the pool and thread-local buffers.

Where each part stands (the statuses of `PROJECT.json`): pointers and their text form, patches
and their wire format, merge patches, path evaluation, the registry and schema validation are
modelled; of path compilation, all but white space; of the filters, what `create` can reach
(without white space and escapes); of the formats, all but the regular expressions; of schema compilation, what
makes nodes, tables and links is modelled and the parsing of keyword values is not.  The rest is
under "Not modelled".

## Modules

* `JsonValue`: QJsonValue, QJsonObject and QJsonArray as TLA+ values (Qt is external code: the
  operators say what the library's calls rely on).
* `PointerOps` (extends it): tokens; the decisions of one loop iteration of
  `evaluatePointerImpl`, `writePointer` and `unwind`; and both walks as functions of a whole
  call (`EvaluatePointer`, `WritePointer`).
* `JSONPointer`: a session of calls on one variable, one loop iteration per step. `holder` is
  the C++ type of the variable and so the overload.  The code's locals `i`, `current`, `path`,
  `removed` are variables; `rebuilt[j]` is the value the local `child` of `unwind` has at level
  `j`.  `written` is a history variable.
* `PointerAPI`: what a caller is promised, one atomic step per call.  The functions that a call
  computes are its parameters.  `JSONPointer` instantiates it with the whole-call functions of
  `PointerOps` and with `busy <- (pc # "idle")`: `ImplementsAPI` says that it implements it,
  loops, early returns, commit and all.
* `PointerText`: validating, splitting, decoding and writing the text of a pointer; strings are
  sequences of characters.  `PointerSyntax`: a pointer made by `create` and `appended`.
* `PatchWire` (extends it): `JSONPatchBuilder` assembling an array of operation objects, from
  pointers or raw texts, one call per step; `JSONPatch::create` on it or on any array, one entry
  per step; `toJson`.  `calls` is a history variable.
* `JsonTrees`: a set `Json` of values, which holds with a value the values in it; `Nesting` says
  how deeply each is nested, so that a recursion over them ends.
* `MergePatch`: `merge_patch` as a recursive function of the patch, whose values are functions
  of the target (`MergeInto`).  `MergeSemantics`: what a merge patch means, said by where a path
  of keys leads in the target, in the patch and in the result.
* `JSONPatch`: one operation of `applyOps` per step, over the whole-call functions of
  `PointerOps`; `JsonEquality` is `jsonDeepEquals`, given to it as the constant `DeepEquals`,
  with the binade where doubles are two apart scaled down.
* `PathScan`: quotes, brackets and the places where the parser splits.
* `QuotedNames`: names between quotes: which are valid (`isValidQuotedKey`), and what their
  escapes stand for (`unescapeQuotedKey`).  Here a lexeme is a UTF-16 code unit.
* `PathTokens`: the tokens of a compiled path, index and slice arithmetic with the widths of the
  code, and what one token selects from one value (`eval<Kind>`).  A text is a sequence of
  lexemes, the units the parser tells apart; a key is one, too.
* `Descendants` (extends `JsonTrees`): the values in a value, in document order (`Preorder`),
  what `..` stands for.
* `PathCompile`: `JSONPath::create` by several threads, one segment per step.  `pos` and
  `tokens` are the parser's locals, `nextGroup` the counter behind `fetch_add`.  A bracket is
  one step: its content is split and goes through the rules of `EmbeddedBracketRuleDispatcher`
  in the order of their priorities (`SelectorOf`); the number of its group is used up even if a
  rule fails.  `origin`, where a token came from, is a history variable.
* `PathEvaluation`: `evaluate` and `evaluateSingle`, one token, union or run of keys per step
  (`processToken`), and within `..` one pop of `RecursiveDescent`'s stack per step. `i`,
  `working`, `multi`, `stack` and `out` are the code's locals.  A definite path takes the fast
  path in one step.
* `QuerySemantics`: queries, the texts they may be written as and their node lists after RFC
  9535.  `PathSemantics`: the properties that compare `create` and `evaluate` with them.
* `FilterOperands`: what a filter compares, and the code's three families of comparison (with a
  literal, of two members, of any two operands), which do not agree in everything.
  `FilterCompile`: from the text of a filter to a token with a predicate (`CompileFilter` is
  `compileEmbeddedFilter`), parser after parser; `parseEmbeddedIn` and `parseEmbeddedRegex`,
  which never take anything, are left out.  `FilterEvaluation`: a bracket of filters, compiled
  in one step, then applied to the children of a value one filter and one child per step, with
  the fast paths and the choice between the predicates with and without the root.
* `FilterSemantics`: logical expressions, their texts and what RFC 9535 says they mean, and the
  properties that compare the two.
* `SchemaRegistry`: tier 1 (`compiled`), tier 2 (`documents`) and the user's fetcher. A call of
  `add` or of a missing `create` is a job: its locals are those of `compileSchema` and
  `resolveAllReferences` (`start`, `end`, `i`, `pass`, `fetched`, the node vector, the keys of
  the anchor table and of the resource documents), and each step is the start of a pass, one
  node of the fetch loop, the question to the fetcher, its answer, the end of a pass or the end
  of the call.  `jobs` is a stack because the fetcher runs between the question and the answer
  and may itself call the registry.  A document is what decides which URIs are fetched and
  linked: its `$id`, its metaschema, the URIs it refers to, and whether it compiles.
  `registered` and `upstream` are history variables.
* `SchemaLinking`: one call of `compileSchema` without a fetcher (fetching is the registry's
  module).  Each frame of `stack` is a `compileSchemaNode` call in progress: its place in the
  document, the base URI that `BaseUriScope` restores, the definitions and keywords still to
  compile, the children so far.  `nodes`, `anchors`, `resources` and `pending` are the vector,
  the anchor table, `ctx.resourceDocuments` and `ctx.pendingDynamicAnchors`; `start`, `end`, `i`
  and `pass` the loops of `resolveAllReferences`, whose steps are one reference each (`Link`
  from the table, or `CompileTarget`, the steps of that compilation, and `TargetCompiled`).  A
  document is a function from the paths of its schemas to what compilation looks at.  A node's
  `loc` and `base` are history variables, which the properties compare with `LexicalBase` and
  `Meant`: the base URI of a place and what a reference written there stands for, from the
  document alone.
* `SchemaValidate`: `validate` and `isValid` on a compiled schema.  `ValidateNode` and the
  operators it calls are the recursion of `validateNode`; the context they return carries what
  the code mutates through its reference: the errors, the tracker of evaluated members and
  elements (`on` is whether the pointer is set), the dynamic scope and the active references.
  `anyOf`, `oneOf`, `not`, `if` and `contains` start from `SubContext`, which has neither scope
  nor active references, as in the code. Regular expressions are the sets of strings they match;
  numbers are integers, so the tolerance of `multipleOf` plays no part; an error is an instance
  path and a keyword.
* `SchemaSemantics`: what a schema says of an instance, as one declarative recursion (`Meaning`:
  assertion and annotations), and the properties that compare the two.
* `FormatValidators`: `validateFormat`, one predicate per validator, character by character as
  the code scans.  `FormatGrammar`: the same formats as grammars (sets of positions a derivation
  reaches) and arithmetic.
* `JSONPointerProofs`, `JSONPatchProofs`, `PatchWireProofs`, `PathProofs`,
  `SchemaRegistryProofs`, `SchemaLinkingProofs`: the theorems.  `PointerOpsProofs`: lemmas about
  JSON values, container operations and the walks of whole pointer calls, for the first two.
  `IntervalInduction`: induction over an interval and by rank, and that a function defined by
  recursion to smaller ranks has the values its definition says.
* `MC...`: the instances for TLC.

Definitions that a comment calls a mutant are not part of the specification: they are single
plausible mistakes in a definition, and each property is known to catch the one `PROJECT.json`
lists beside it.

## Runs

| Run | Question | Answer |
|---|---|---|
| `pointer` | what does the second call on a variable see of the first, and is each call what the API promises? | the value written, where it was written, nothing of a failed call; it implements `PointerAPI`, touches only its location, and returns |
| `patch` | do operations and their inverses conserve data, are patches that fail at any position atomic, and do merge patches say what they mean? | yes, and the error names the operation |
| `wire` | is anything lost between text, tokens, the builder, the compiled patch and the array of operations, and does `create` name the first fault? | nothing is lost, but the other spellings of an index; yes |
| `path` | does `create` accept queries and nothing else, with the names they spell, does `evaluate` return their nodes, and `evaluateSingle` what it documents, while another thread compiles? | yes, for the queries below, and for `evaluateSingle` but for unions of one node (see the observations); a descent emits each value once, in document order |
| `path_descendant` | the same for a name behind `..` with a segment behind it | violated: `$..a[0]` is evaluated as `$..a` |
| `filter` | does `create` take filters and nothing else, and are the children kept those for which RFC 9535 makes the expression true? | yes, for the filters below |
| `registry_links` | are exactly the reachable references linked, each document fetched once, and does every call return? | yes, with cycles between documents and one missing |
| `registry_nested` | do the caches stay consistent if the fetcher fails, or calls the registry? | yes, three calls, nested up to two deep |
| `registry_strict` | does a strict `create` return linked schemas only? | violated: tier 1 answers with what a lenient call left |
| `schema_verdict` | is the verdict the one of the standard, in both modes, are cycles exactly the references that consume no input, and are formats the strings of their grammars? | yes, for the schemas below |
| `schema_linking` | is each reference linked to the schema it stands for, whatever its form and place? | yes, unless the passes are cut off; indices are valid, base URIs are those of the places, dynamic anchors belong to their resource, and compilation finishes |
| `schema_leak` | the verdict, for an `unevaluatedProperties` schema with members of its own? | violated: members of the child count as evaluated in the parent |

### Smaller observations

These have no run of their own.  The models have them as the code does; where a property would
be false because of one, the instances leave it out.

Pointers and patches:

* With `U16Max` = 1 the theorems' hypothesis `FitsCounter` fails and TLC finds a read that
  starts over at the first token: the evaluator counts with `uint16_t`.
* The operation index in an error of a patch saturates at 65535, but starts over at 0 where it
  is a plain cast (a move into a descendant, a failed test).
* A key such as `+1` becomes an index, which `to_string` writes `1`, so a pointer need not
  re-parse to the same key, nor `toJson` return the text that was compiled
  (`JSONPatch.hpp:95-96`): `ReparseAgrees` and `WireRoundTrip` ask for the same index only. The
  descendant check of a move compares such texts (`JSONPatch.cpp:118`), so that a move from `/1`
  to `/+1/a` is rejected.
* Reading `-` of an array fails with `TypeMismatchArray` (`JSONPointerEvaluation.hpp:73`) where
  ADR-007 announces `IndexOutOfRange`.
* `test` takes the integers 2^53 and 2^53 + 1 for equal (`JSONPatch.cpp:79`).

Schemas:

* A fetched document that does not compile leaves its `$ref` unresolved (`malformed` in the
  registry), although `JSONSchema.hpp:87-88` names only a missing fetcher and one that returned
  `std::nullopt`.
* Under a root `$id` `http://h/a`, the reference `#/$defs/x` becomes `http://h/a#/$defs/x`
  (`JSONSchemaCompile.cpp:291`), while `x` was registered as `#/$defs/x` (`:436`).  So
  `resolveRef` follows the pointer and compiles the definition again (`:740`), with its
  references.  For a definition that refers to itself each of the 16 passes adds a copy, and the
  references of the last ones stay unresolved; with two self-references the copies double in
  each pass.
* Of the formats: there is no year 0 (QDate); `email` takes non-ASCII letters in a local part, a
  quote inside a quoted one, and `QHostAddress`'s short addresses (`[1.2]`); `duration` takes a
  fraction without digits and in any part (`PT1.S`, `PT1.5H1M`), and `P1Y1D`.

Paths:

* A union with a child segment behind it (`$[0,1].a`) is not recognised as one, for
  `detectUnionTokens` looks at the whole run of selectors.
* A slice literal beyond `int` becomes the value that stands for a part left out, so that
  `$[3000000000:]` selects everything.
* Names with a comma in them (`$['a,b']`), and with a bracket in a union (`$[']','a']`), are
  rejected, for `matchesUnionComma` does not look at quotes (`JSONPathBracketRules.cpp:152`).
* Digits of other scripts are taken for hexadecimal ones behind `\u` (`QChar::isDigit`,
  `JSONPathParseUtils.cpp:281`), and the escape is then left as it stands.
* Some texts that are no query are accepted (`$..1`, `$['a']b`, `$.*b`, `$['a']]`,
  `$...a`).
* A union selects selector by selector over the whole working list where the RFC goes node by
  node, so `NodesAsMeant` compares the order only where both agree.
* `evaluateSingle` returns the only node of `$['a','b']` itself, where `JSONPath.hpp:90-92`
  announces an array for a multi-key union, "even when there is exactly one": keys and indices do
  not add multiplicity (`JSONPathEvalHelpers.cpp:251`), and a union of them is a run of such
  tokens. `SquashAsDocumented` says nothing of a union of keys and indices that selects one node;
  what it returns for none or for several is checked.

Filters, where README.md:18 claims all of RFC 9535:

* Text: parentheses in quotes count (`stripOuterParens`, `FilterHelpers.cpp:173`), a literal
  with both in it is taken for a call, and a comma in quotes ends an unwrapped filter.
  Accepted, but no filters: `!@.a==1`, `foo(@.a)==1`, `@.a=='x'=='y'`, `?@.1`.
* Existence: `$.a` tests the node and not the root, `$.*.a` is always true, a slice ignores its
  bounds; `$['a']`, `$.a.a`, `$[*]`, `@[*]`, `@..a` and `@.a.*` are rejected.
* Comparison: a missing element is compared as null (`JSONPathFilterParsers.inl:367` says
  Undefined), a negative index does not count from the end, `==` of numbers is `qFuzzyCompare`,
  booleans are ordered; between two members, `==` is false on what is no object, and so are `<=`
  and `>=` of two nulls or two arrays that are equal.  Strings are ordered by UTF-16 units.
* Functions: `length` of a literal or of `value(..)` measures the node, and counts UTF-16 units;
  `value(@.*)`, `count`, `match`, `search` and unknown functions are accepted and give Nothing;
  `value($..)` inside `||`, `&&` or `!` is always false, because `needsRootContext` is read from
  the text when a filter is evaluated (`JSONPathTokenEvaluators.cpp:120`), and the combination
  was compiled without a root.

### Bounds, and why they are enough

`writePointer` treats every level alike but the first and the last, so pointers of two tokens,
with a few of three, meet each kind of level above each other; `U16Max` is 65535 in every run
(no pointer and no patch of the instances reaches it, so the wrap of the evaluator's counter and
the casts of the operation index are not exercised there; the theorems exclude them by
`FitsCounter`).  Documents hold the container kinds inside each other,
empty and not, and null (the value `createIntermediates` treats as absent).  Two calls suffice
to relate a write to a read; the theorems cover longer sessions.  Patches of three operations
have a first, a middle and a last one to fail.  Every document of that instance is also merged
with every other, and the result read at every pointer of up to three keys, one more than the
documents are deep.

`wire` makes a pointer of every string of up to four of the eight characters that the parser
tells apart, then appends up to `MaxTokens` = 2 tokens; `LongLongMax` = 21 is the largest
`qlonglong`, scaled down, with numbers on both sides.  It builds patches of `MaxOps` = 2
operations, and compiles arrays of up to three objects in which `op`, `path`, `from` and `value`
are each left out, of another type, wrong or right, behind a good object or alone.  `OpIndexMax`
= 1 makes the index of the third saturate.

`path` has every query of one or two segments over eight selectors and four unions, each with
and without `..` and in both notations, slices with every combination of two bounds (left out,
inside, at and beyond either end of the array, beyond `int`) and six steps, a few of three
segments, and 22 texts that are no query. Between quotes it has every sequence of two of 21
pieces, right and wrong (quotes and brackets, plain and escaped, escapes of one character, of
four digits and of surrogate pairs, whole, cut short and alone), in both kinds of quotes, and
each piece also in a union. All are evaluated on two documents with containers of both kinds
nested in each other and equal values in different places. `IntMax` = 50, `SafeInt` = 100 and
`SizeMax` = 1000 keep the order of 2^31 - 1, 2^53 and 2^63 - 1 with literals on both sides of
the first. `Json` holds the values in the documents, `Nesting` counts their levels. The second
thread compiles a path with one bracket, at any moment, and evaluates none; `MaxGroups` = 10 is
more than the brackets of both. The trailing functions are evaluated, but no property says what
they should return.

`filter` has every existence test of nine singular queries and some others, every comparison of
them with seven literals, with each other and with function calls, and combinations of up to
three tests with `||`, `&&` and `!` in both nestings, each with the short and the bracketed
notation and with and without parentheses around it; unions of two filters; and 25 texts that
are no filter.  They are applied to an array with a value for every case the comparisons
distinguish, and to an object.  Strings with a character outside the BMP are there for the order by
code units, `FuzzyScale` = 50 makes 100 and 101 equal to `qFuzzyCompare`, and `IntMax` = 200 is below
one literal.  `IsOrdinary` names the comparisons the instance leaves out.

The registry runs have three URIs in a cycle with one that nobody has a document for, and two
calls, or two URIs, three calls and nesting up to `MaxDepth` = 2: one call inside another is the
smallest case in which a cache changes under a compilation. `MaxPasses` is the code's own 16,
which these documents do not exhaust.

`schema_linking` has one document shape (a root, a definition `x` with a property `q`, a
property `p`, and a member no keyword compiles) with every choice of `$id` at the root and at
`x`, anchors of both kinds in both places, and references of every form, alone, with a
`$dynamicRef` or with other keywords, from outside and from inside the embedded resource; plus
documents where something that is no schema is in the tree or behind a pointer, and recursive
ones.  That is enough for each key that `resolveRef` tries to be the one that decides, and for
definitions that are compiled twice.  Left out: pointers into an embedded resource (which the
standard leaves undefined), references under a base URI without an authority (the code does not
resolve them), one anchor name or one raw relative `$id` in several resources and nested `$defs`
with names of the root's (the table has one key for both), an anchor beside nothing but a `$ref`
(not registered), and `uri#` with an empty fragment (never found).

`schema_verdict` takes every choice of one in-place applicator (with up to three subschemas),
one set of keywords for children and one unevaluated keyword, for objects and for arrays, over
27 nested values; and reference schemas: chains, cycles in place, recursion through members, a
tree extended through its dynamic anchor.  Each format has all short texts over the characters
it tells apart, or all ways to put right and wrong parts together; the limits of `email` and
`hostname` are scaled down (`MaxEmail` = 11, `MaxLocalPart` = `MaxLabel` = 4, `MaxHostname` =
6), and what Qt decides (`QHostAddress`, `QUrl`) is a set of texts. Three kinds of schema are
left out, and are listed as hazards: those whose unevaluated keyword is itself a schema with
members (`schema_leak` has them), those that come back to themselves through `propertyNames`,
and those that come back to themselves through a fresh context (`anyOf`, `oneOf`, `not`, `if`,
`contains`), for which the recursion has no end, in the code or in TLC.

Runs set `CHECK_DEADLOCK FALSE`: a session ends when its calls are made, a compilation when it
is done.

### Fairness

The caller is never required to call.  `JSONPointer` and `SchemaRegistry` ask weak fairness of
`Step`, the code's own next iteration: a call runs on the caller's thread to its end.  The
registry also asks it of `UserAnswer`: the user's fetcher returns. `SchemaLinking` asks it of
`Next`, one call of `compileSchema`.  `JSONPatch` asks the same of its `Step`, with its enabling
condition written out (`pc = "applying"`), which TLC evaluates much faster.

## Proofs

Most of the theorems state a property that a run checks, too.  `HolderKind`, `ReadBackInv`,
`MkdirFromNull` and `TypeOK` of patches, paths, the registry and linking are in no run: the
proofs make one superfluous.

`JSONPointerProofs` proves, for any documents, values and pointers and any number of calls:
`TypeOK`, `HolderKind`, `StrongGuarantee`, `MkdirFromNull`, and, provided that no pointer has
more tokens than `U16Max` (the hypothesis `FitsCounter`), `ReadBackInv` and `ReadYourWrite`.

`ReadYourWrite` speaks of finished calls only and is not inductive.  `IInv` adds the types
(`Shape`), that every value in sight is well formed (`JsonInv`: the recursion of JSON values is
replaced by membership in a downward-closed set), and `ReadBackInv`: each step on `path` was
accepted (`PathInv`); the levels rebuilt so far hold each other along `path`, down to the
written value (`UnwindInv`); after the commit the document still does (`WrittenInv`); and an
evaluation of the same location stands on one of these levels (`EvalInv`).  One lemma per action
shows that it preserves `IInv`. `MkdirFromNull` has an invariant of its own, `FreshInv`: on a
null root every level of the walk is the container just created for its token, which accepts
that token.

From the same hypothesis it proves that `JSONPointer` implements
`PointerAPI` (`APIImplemented`).  A call takes effect in the step in which it returns, so the
invariant `RefInv` says how far its loops have come with the function of the whole call: the
evaluator holds the value that `EvalWalk` has at its counter (`EvalRef`); the descent holds the
value and the path of `DescentWalk` (`WalkRef`); and each level rebuilt is that of
`RebuildLevels`, counted from the last (`UnwindRef`).  The recursive functions of `PointerOps`
are unfolded once (`EvalWalkUnfolds`, `DescentWalkUnfolds`), by induction over their length, and
two lemmas per loop carry a level to the next.

It also proves the action property `FrameUntouched`.  `RefInv` says nothing of the values beside
the path; `SpineRef` adds that the container of each level is the child of the level above, or
one created in its place.  In the step that commits, the root is rebuilt from the levels, and
the lemmas follow a pointer from the root through the levels it shares with the path, up to the
one where it leaves it: there the edit of the level keeps what the pointer leads to, or, if the
level is an array that grows or shrinks, keeps it one place further (`Shifted`).

`JSONPatchProofs` proves, for any documents, any patches and any comparison `DeepEquals`:
`TypeOK`, the action property `Atomic`, and, if no patch has more than `U16Max` + 1 operations
(its `FitsCounter`: beyond it two of the casts start over), `ErrorNamesOp`.  `Atomic` needs no
invariant, because the loop works on `root` and only `Finish` writes the caller's variable.
`ErrorNamesOp` was true when the call failed, and the counter has stood still since.

It also proves that data is conserved: the action property `MoveConserves`, and `UndoRestores`.
They assume that documents and the values in patches are JSON values without Qt's undefined
(`JsonAssumption`, `DefinedAssumption`, `DocumentsAssumption`, `PatchesAssumption`), as `compile` and the C++ types
guarantee; `RootJson` says that the working copy then stays one.  The argument is about the
levels of a write (`PointerOpsProofs`): a write succeeds exactly if there are levels that accept
its tokens, and leaves levels rebuilt from the last one up (`IsWrite`, `WriteLevels`,
`LevelsWrite`).  Read backwards, the levels of an add are those of the removal that undoes it,
unless it overwrote a member (`AddReversed`), and the levels of a removal are those of adding
the removed value again (`RemoveReversed`); that inserting and removing an element cancel out
(`InsertThenRemove`, `RemoveThenInsert`) is all they need of the last level.  `UndoRestores`
speaks of finished calls; the invariant `Undoing` says where the loop stands in a patch that
undoes itself, and `DoneIsRoot` that success reports the working copy after the last operation.

And it proves `MergesAsMeant`, for values that are finite trees (`NestingAssumption`) and paths
of keys of any length (`PathsAssumption`; a merge patch cannot address an array element).  That
`MergeInto` is what its recursion says is shown depth by depth: two functions that merge all
patches nested less deeply alike give, unrolled once, the same merge (`OnceAgree`), so there is
one for each depth and they fit together (`MergeUnfolds`).  What is read at a path then follows
by induction over its length, for all targets and patches at once, as the target of a nested
merge may be missing.  The first key is not in the patch (`ReadsOwn`), is null there
(`ReadsRemoved`), or leads into a merge of its own (`ReadsInside`), where the first place that
the patch speaks at comes one key earlier.

`PatchWireProofs` proves what `wire` checks, for texts, pointers and patches of any length, any
documents and any number of calls: `CreateFaithful`, `ReparseAgrees`, `FirstFault`, `CallsKept`
and `WireRoundTrip`, in `WireSpec`.  It assumes what the C++ types say: texts are sequences of
characters (`TextsAssumption`, `RawTextsAssumption`), JSON values are well formed
(`DocumentsAssumption`), and an index fits a `qlonglong` (`IndicesAssumption`).

Most of it is about the operators.  The scanner of escapes accepts the grammar (`SyntaxIsGrammar`);
decoding undoes escaping, and escaping undoes decoding where the escapes are well formed
(`DecodeEscape`, `EscapeDecode`); the digits of an index are read back as the index, and a
negative one is read as a key (`IndexReadBack`, `NegativeIsKey`); splitting what `to_string`
joined gives the tokens back (`ParseText`), and joining what `create` split gives the text
(`JoinedTokens`).  These operators are recursive functions.  `RecursionHasValue` unfolds each of
them once; what it computes is shown position by position, by induction over how far a position
is from the end.  The state needs little: `PointerInv` says that the tokens of a pointer are
such as parsing makes, and `WireInv` that the first `i` entries are compiled, that the entries
are those the builder's calls ask for (`Asked`) or those of the patch written back
(`OriginalInv`), and that a failure names the entry it failed at.

`PathProofs` proves, for any texts, documents, literals and number of threads: `TypeOK` and
`GroupsApart`.  `GroupsApart` is not inductive: the invariant `Inv` adds that every group in use
is below `nextGroup` and every `origin` before `pos` (`GroupsUsed`), so that the next bracket,
whichever thread reads it, gets a new group and a new origin together.  `TypeOK` needs that a
descent stands on its token, and that a run of selectors or keys ends within the tokens
(`RunEnds`; `MinOfNat`: a non-empty set of naturals has a minimum, by well-founded induction).

It also proves `DescendsInOrder`, if documents are finite trees of JSON values
(`JsonAssumption`, `NestingAssumption`, `DocsAssumption`) and literals integers
(`LiteralsAssumption`).  `Preorder` is a recursive function, which `RecursionHasValue` unfolds
once (`PreorderUnfolds`: children are nested less deeply); the values of two lists, one after
the other, are the values of the list of both (`PreorderOfBoth`).  So a value that is popped is
the first of what the stack read from its top stands for, and its children, pushed in reverse,
stand for the rest of it (`PopKeepsOrder`).  That alone says nothing if the working list holds
what is no value: the invariant `OrderInv` adds that every list of the evaluator is one of
values of `Json` (`ListsOfJson`).  A union, a name behind `..` or a filter keeps this because
the tokens of a run are selectors (`UnionType`), and a slice because it never reads outside the
array (`SliceInside`, for bounds and steps of any size and sign), its parts being integers
(`TokenFields`, kept by the parser).

`SchemaRegistryProofs` proves, for any URIs, documents and fetcher, any number of calls and any
nesting (from the assumptions in `SchemaRegistry`): `TypeOK`, which is inductive as it stands;
`NamedSchemas`, strengthened by `JobsRegistered` (a call in progress under a URI has registered
its document there), because a schema is cached long after `add` was called; and the action
property `OnlySuccessCaches`, for which `CompiledChanges` lists what each action can do to tier
1.  Three more need a hypothesis each, which the instance of the run that checks it meets:

* `UnlinkedExcused`, if there are fewer URIs than passes (`FewUris`).  Every pass but the last
  meets a URI that no pass before it had (`JobCounts`), so the loop is never cut off, and when
  it ends each node is linked, refused or malformed (`JobSettles`).  With more URIs than passes
  the code gives up on references it has not tried.
* `ObtainedOnce`, if the fetcher does not call the registry (`Sequential`): what is asked for is
  not in tier 2, and what was given is (`OnceInv`).  A fetcher that asks for the URI it is
  fetching is asked twice.
* `LinksWhatIsReachable`, if, besides, a URI has one answer and a document no `$id` but the URI
  it is obtained under (`Steady`, `AddedByName`).  Without this, which document a URI denotes
  depends on the order of the calls.  `LinkInv` says that a call's tables hold what the URIs
  denote, that all it has met is reachable, and that all that a document it has linked refers to
  has been met.

`SchemaLinkingProofs` proves, for any document whose subschemas are in it (`DocsAssumption`) and
any number of passes: `TypeOK` and `IndicesValid`.  Neither is inductive: a step stores the
`result` of a call, or an entry of a table, as an index.  `IInv` adds that results and the
children held by each frame are indices of nodes (`ResultOK`, `FrameOK`), that frames, resources
and pointers stay in the document, and what each phase knows of the loop variables (`LoopOK`:
the reference being linked is one of the nodes, although compiling its target adds some).  The
parts take the number of nodes as a parameter because every step can only raise it
(`MoreNodes`).

`BaseIsLexical` is proved for documents in which no resource lies between a schema and those
that its keywords list (`NestedDirectly`) and no pointer leads from one resource into another
embedded in it (`PointersStay`; JSON Schema leaves such pointers undefined, and the code then
compiles the target under the base of the outer resource).  The documents of `schema_linking`
are such.  `BaseInv` says what a call knows of
its place: its base is that of the schema around it, for a call from `Link` that of the resource
whose pointer it follows.

`ScopesAsMeant` needs, besides, what JSON Schema requires of a document: no two resources have
the same URI, no resource two dynamic anchors of a name, and no URI is also an unresolved `$id`
or the name of an anchor (`DistinctResources`, `DistinctAnchors`, `DistinctKeys`; the code keeps
all of these in one table).  And no call may fail (`OnlySchemas`): a resource whose compilation
failed leaves its dynamic anchors pending without an entry in the table, and they then count as
the root's.  `ScopeInv` says that the table leads from a resource's URI to a node that carries
it, and that pending anchors carry the base of their place; `Built` says the same of the map as
far as the last loop has come.

Only model-checked: liveness (`CallsReturn`, `ApplyFinishes`, `Finishes`); to which schema a
reference is linked (`LinkedUnlessCutOff`, whose proof would have to follow the passes through
the table, while compiling adds to it); and which nodes a path selects, what filters
and formats mean, and the verdict of validation, whose operators are recursive and so
out of the prover's reach.

## Not modelled

* The older filter parsers (`compileFilter` with its table of rules,
  `JSONPathContextFilter.cpp`, `JSONPathFilterComparisonDispatcher.cpp`, most of
  `JSONPathFilterExistenceParsers.cpp`, the legacy handlers of `BracketSink`, the container
  cursors behind them): `create` reaches only `compileEmbeddedFilter`, and they are called by
  each other alone.  The placeholder rule of brackets cannot match, and no parser emits a
  `KeyList`.
* `tokensToPointer` has no caller in the library.
* The array pool is a free list per thread whose arrays are emptied when they are handed out;
  evaluation is modelled with its arrays as values.
* The built-in metaschemas are constants; the values of keywords without subschemas are parsed
  and stored.
* Value conversions, errors and their texts, literals, ABI configuration and logging change no
  state.
* Regular expressions (patterns, the format `regex`) are a library's.

## Plan

1. Runs for recursion through `propertyNames` and for `value($..)` in a combination; the two
   passing runs of the registry can become one.
2. White space, and escapes in filters.
