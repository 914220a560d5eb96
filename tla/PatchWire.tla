------------------------------ MODULE PatchWire ------------------------------
(***************************************************************************)
(* RFC 6902 patches in their wire format: JSONPatchBuilder assembles an    *)
(* array of operation objects, from compiled pointers (made as in          *)
(* PointerSyntax) or raw texts; JSONPatch::create compiles such an array,  *)
(* one entry per step here; toJson() writes the compiled patch back.       *)
(***************************************************************************)
EXTENDS PointerSyntax, JsonValue

CONSTANTS
  Handed,        \* bound: the texts of the pointers handed to a builder
  RawTexts,      \* the raw texts handed to a builder
  Values,        \* the "value" arguments
  Documents,     \* the JSON values passed to create
  MaxOps,        \* bound on the operations assembled
  OpIndexMax     \* the largest std::uint16_t, scaled down

ASSUME WireAssumption == MaxOps \in Nat /\ OpIndexMax \in Nat

VARIABLES
  calls,     \* history: the calls made on the builder
  entries,   \* the operation objects: m_ops of the builder, the array parsed
  phase,     \* "assemble", "parse" or "done"
  i,         \* loop counter of parsePatch
  ops,       \* m_ops of the patch
  outcome,   \* result of create
  original   \* history: {} or the ops of the patch whose toJson() is parsed

wireVars == <<calls, entries, phase, i, ops, outcome, original>>

-----------------------------------------------------------------------------
(* Operations *)

\* The operation names and their kinds.
KindOf == [add |-> "Add", copy |-> "Copy", move |-> "Move",
           remove |-> "Remove", replace |-> "Replace", test |-> "Test"]
NameOf(kind) == CHOOSE name \in DOMAIN KindOf : KindOf[name] = kind

TakesFrom(kind) == kind \in {"Move", "Copy"}
TakesValue(kind) == kind \in {"Add", "Replace", "Test"}

\* from is an optional: a set of at most one pointer.
Op(kind, path, from, value) == [kind |-> kind, path |-> path, from |-> from, value |-> value]

HasText(entry, name) == HasMember(entry, name) /\ entry.members[name].kind = "string"
TextAt(entry, name) == entry.members[name].str

ASSUME RawTextsAssumption == RawTexts \subseteq Seq(STRING)
\* The values are JSON values, and their texts are texts.
ASSUME DocumentsAssumption ==
  \A d \in Documents : IsArray(d) =>
    /\ WellShaped(d)
    /\ \A entry \in Children(d), name \in {"path", "from"} :
         IsObject(entry) /\ HasText(entry, name) => TextAt(entry, name) \in Seq(STRING)

\* What parsePatch finds wrong with an entry, in the order of its checks.
Fault(entry) ==
  IF ~IsObject(entry) THEN "InvalidPatchDocument"
  ELSE IF ~HasText(entry, "op") THEN "MissingOp"
  ELSE IF TextAt(entry, "op") \notin DOMAIN KindOf THEN "InvalidOperationName"
  ELSE IF ~HasText(entry, "path") THEN "MissingPath"
  ELSE IF ~ValidPointerSyntax(TextAt(entry, "path")) THEN "InvalidTargetPointer"
  ELSE LET kind == KindOf[TextAt(entry, "op")] IN
       IF TakesFrom(kind) /\ ~HasText(entry, "from") THEN "MissingFrom"
       ELSE IF TakesFrom(kind) /\ ~ValidPointerSyntax(TextAt(entry, "from"))
       THEN "InvalidFromPointer"
       ELSE IF TakesValue(kind) /\ ~HasMember(entry, "value") THEN "MissingValue"
       ELSE "none"

\* The operation that an entry without fault compiles to.
CompiledEntry(entry) ==
  LET kind == KindOf[TextAt(entry, "op")] IN
  Op(kind, ParsePointer(TextAt(entry, "path")),
     IF TakesFrom(kind) THEN {ParsePointer(TextAt(entry, "from"))} ELSE {},
     IF TakesValue(kind) THEN entry.members.value ELSE Null)

\* Mutant: only a move has a from.
EntryOfMoves(op) ==
  Object([name \in {"op", "path"} \cup (IF op.kind = "Move" THEN {"from"} ELSE {})
                     \cup (IF TakesValue(op.kind) THEN {"value"} ELSE {}) |->
            IF name = "value" THEN op.value
            ELSE Str(IF name = "op" THEN NameOf(op.kind)
                     ELSE PointerText(IF name = "path" THEN op.path
                                      ELSE CHOOSE f \in op.from : TRUE))])

\* JSONPatch::toJson: the entry of one operation.
EntryOf(op) ==
  Object([name \in {"op", "path"} \cup (IF op.from = {} THEN {} ELSE {"from"})
                     \cup (IF TakesValue(op.kind) THEN {"value"} ELSE {}) |->
            IF name = "value" THEN op.value
            ELSE Str(IF name = "op" THEN NameOf(op.kind)
                     ELSE PointerText(IF name = "path" THEN op.path
                                      ELSE CHOOSE f \in op.from : TRUE))])

ToJson(patch) == [k \in 1..Len(patch) |-> EntryOf(patch[k])]

\* Mutant: the operation index is narrowed by a plain cast.
CastOpIndex(k) == k % (OpIndexMax + 1)

ClampOpIndex(k) == IF k > OpIndexMax THEN OpIndexMax ELSE k

-----------------------------------------------------------------------------
(* JSONPatchBuilder.  An operand is a compiled pointer, which its overload  *)
(* turns into its text, or a raw text.                                      *)

Compiled(tks) == [compiled |-> TRUE, tokens |-> tks]
Raw(text) == [compiled |-> FALSE, text |-> text]
TextOf(operand) == IF operand.compiled THEN PointerText(operand.tokens) ELSE operand.text

InHand == pc \in {"parsed", "composed"} /\ PointerText(tokens) \in Handed
Operands == {Raw(s) : s \in RawTexts} \cup (IF InHand THEN {Compiled(tokens)} ELSE {})

ValueOp(name, path, v) ==
  Object([op |-> Str(name), path |-> Str(TextOf(path)), value |-> v])
\* Mutant: the locations change places.
FromOpSwapped(name, from, path) ==
  Object([op |-> Str(name), path |-> Str(TextOf(from)), from |-> Str(TextOf(path))])
FromOp(name, from, path) ==
  Object([op |-> Str(name), path |-> Str(TextOf(path)), from |-> Str(TextOf(from))])
RemoveOp(path) == Object([op |-> Str("remove"), path |-> Str(TextOf(path))])

Assemble(entry, call) ==
  /\ phase = "assemble"
  /\ Len(entries) < MaxOps
  /\ entries' = Append(entries, entry)
  /\ calls' = Append(calls, call)
  /\ UNCHANGED <<phase, i, ops, outcome, original>>

BuilderAdd(path, v) == Assemble(ValueOp("add", path, v), Op("Add", path, {}, v))
BuilderReplace(path, v) == Assemble(ValueOp("replace", path, v), Op("Replace", path, {}, v))
BuilderTest(path, v) == Assemble(ValueOp("test", path, v), Op("Test", path, {}, v))
BuilderRemove(path) == Assemble(RemoveOp(path), Op("Remove", path, {}, Null))
BuilderMove(from, path) == Assemble(FromOp("move", from, path), Op("Move", path, {from}, Null))
BuilderCopy(from, path) == Assemble(FromOp("copy", from, path), Op("Copy", path, {from}, Null))

-----------------------------------------------------------------------------
(* JSONPatch::create and parsePatch *)

Pending == [ok |-> FALSE, code |-> "none", detail |-> 0]
Success == [ok |-> TRUE, code |-> "none", detail |-> 0]
Failure(code, detail) == [ok |-> FALSE, code |-> code, detail |-> detail]

Build ==
  /\ phase = "assemble"
  /\ phase' = "parse"
  /\ UNCHANGED <<calls, entries, i, ops, outcome, original>>

\* create(QJsonArray), and create(QJsonDocument), which may be no array.
CreatePatch(document) ==
  /\ phase = "assemble"
  /\ IF IsArray(document)
     THEN entries' = document.elements /\ phase' = "parse" /\ UNCHANGED outcome
     ELSE /\ outcome' = Failure("InvalidPatchDocument", 0)
          /\ phase' = "done"
          /\ UNCHANGED entries
  /\ UNCHANGED <<calls, i, ops, original>>

\* One iteration of parsePatch.
ParseEntry ==
  /\ phase = "parse"
  /\ i < Len(entries)
  /\ Fault(entries[i + 1]) = "none"
  /\ ops' = Append(ops, CompiledEntry(entries[i + 1]))
  /\ i' = i + 1
  /\ UNCHANGED <<calls, entries, phase, outcome, original>>

RejectEntry ==
  /\ phase = "parse"
  /\ i < Len(entries)
  /\ Fault(entries[i + 1]) # "none"
  /\ outcome' = Failure(Fault(entries[i + 1]), ClampOpIndex(i))
  /\ phase' = "done"
  /\ UNCHANGED <<calls, entries, i, ops, original>>

ParseEnds ==
  /\ phase = "parse"
  /\ i = Len(entries)
  /\ outcome' = Success
  /\ phase' = "done"
  /\ UNCHANGED <<calls, entries, i, ops, original>>

\* create(patch.toJson())
CreateAgain ==
  /\ phase = "done"
  /\ outcome.ok
  /\ original = {}
  /\ original' = {ops}
  /\ entries' = ToJson(ops)
  /\ ops' = <<>>
  /\ i' = 0
  /\ outcome' = Pending
  /\ phase' = "parse"
  /\ UNCHANGED calls

WireInit ==
  /\ Init
  /\ calls = <<>>
  /\ entries = <<>>
  /\ phase = "assemble"
  /\ i = 0
  /\ ops = <<>>
  /\ outcome = Pending
  /\ original = {}

\* Bound: a pointer is made before the builder is used.
PointerStep == entries = <<>> /\ phase = "assemble" /\ Next /\ UNCHANGED wireVars

WireStep ==
  /\ pc = "start" \/ InHand
  /\ \/ \E path \in Operands, v \in Values :
          BuilderAdd(path, v) \/ BuilderReplace(path, v) \/ BuilderTest(path, v)
     \/ \E path \in Operands : BuilderRemove(path)
     \/ \E path, from \in Operands : BuilderMove(from, path) \/ BuilderCopy(from, path)
     \/ pc = "start" /\ entries = <<>> /\ \E document \in Documents : CreatePatch(document)
     \/ Build \/ ParseEntry \/ RejectEntry \/ ParseEnds \/ CreateAgain

WireNext == PointerStep \/ (WireStep /\ UNCHANGED vars)

WireSpec == WireInit /\ [][WireNext]_<<vars, wireVars>>

-----------------------------------------------------------------------------
(* Properties *)

\* RFC 6902, section 4, of one operation object.
WellFormed(entry) ==
  LET Pointer(name) == HasText(entry, name) /\ IsPointer(TextAt(entry, name))
      Is(names) == TextAt(entry, "op") \in names
  IN /\ IsObject(entry)
     /\ HasText(entry, "op")
     /\ Is({"add", "remove", "replace", "move", "copy", "test"})
     /\ Pointer("path")
     /\ Is({"move", "copy"}) => Pointer("from")
     /\ Is({"add", "replace", "test"}) => "value" \in DOMAIN entry.members

\* "Validation is eager" (JSONPatch.hpp): create accepts exactly the arrays of
\* well-formed operations, and the detail of its error is the index of the first
\* one that is not, as far as 16 bits can say it.
FirstFault ==
  LET bad == {k \in 1..Len(entries) : ~WellFormed(entries[k])} IN
  phase = "done" =>
    \/ outcome.ok /\ bad = {}
    \/ ~outcome.ok /\ bad # {} /\ outcome.detail = Min({Min(bad) - 1, OpIndexMax})
    \/ outcome = Failure("InvalidPatchDocument", 0) /\ entries = <<>>

\* A patch that was built does what was asked of the builder, call by call; a
\* compiled pointer is never what build() fails for.
Meant(operand) ==
  IF operand.compiled THEN CanonicalTokens(operand.tokens) ELSE ParsePointer(operand.text)
CallsKept ==
  phase = "done" /\ calls # <<>> /\ original = {} =>
    IF outcome.ok
    THEN ops = [k \in 1..Len(calls) |->
                  [calls[k] EXCEPT !.path = Meant(@), !.from = {Meant(f) : f \in @}]]
    ELSE \E k \in 1..Len(calls) : \E operand \in {calls[k].path} \cup calls[k].from :
           ~operand.compiled /\ ~IsPointer(operand.text)

\* "JSONPatch::create(patch.toJson()) reproduces an equivalent patch"
\* (JSONPatch.hpp): the same operations, but for the spelling of an index.
WireRoundTrip ==
  phase = "done" => \A patch \in original :
    /\ outcome.ok
    /\ ops = [k \in 1..Len(patch) |->
                [patch[k] EXCEPT !.path = CanonicalTokens(@), !.from = {CanonicalTokens(f) : f \in @}]]

=============================================================================
