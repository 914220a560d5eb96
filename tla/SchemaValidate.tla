---------------------------- MODULE SchemaValidate ----------------------------
(***************************************************************************)
(* Validation of an instance against a compiled JSON Schema: the recursion *)
(* of validateNode over the flat node vector, with what it threads through *)
(* the calls: the errors, the tracker of evaluated properties and items,   *)
(* the dynamic scope and the active references.                            *)
(*                                                                         *)
(* A compiled schema is a record: nodes (by name, where the code has a     *)
(* vector index), root, resourceAnchors (per resource root: its dynamic    *)
(* anchors), anchorNames (per node: its $dynamicAnchor), formatAssertion.  *)
(* An ObjectSchema is kw, the keywords it has, with their compiled values. *)
(* A regular expression is the set of strings it matches, the text that a  *)
(* format looks at is a sequence of characters, and an error is its        *)
(* instance path and the keyword that failed.  Loops that the code leaves  *)
(* early only because nothing can change any more run to their end.        *)
(***************************************************************************)
EXTENDS JsonValue, FiniteSets, FormatValidators

CONSTANTS
  Names,            \* member names, in the order in which QJsonObject iterates
  Schemas,          \* compiled schemas
  InstancesOf(_)    \* the values validated against a schema

VARIABLES
  schema,      \* the JSONSchema the calls are made on
  instance,    \* their argument
  report,      \* result of validate
  verdict      \* result of isValid

vars == <<schema, instance, report, verdict>>

Unresolved == "unresolved"   \* RefSchema::kUnresolved
NoAnchor == ""               \* a $dynamicRef whose fragment is no plain name

BooleanSchema(b) == [kind |-> "bool", value |-> b]
ObjectSchema(kw) == [kind |-> "object", kw |-> kw]
RefSchema(target) == [kind |-> "ref", target |-> target]
DynamicRefSchema(target, anchor) == [kind |-> "dynamicRef", target |-> target, anchor |-> anchor]

Has(node, keyword) == keyword \in DOMAIN node.kw
Get(node, keyword, default) == IF Has(node, keyword) THEN node.kw[keyword] ELSE default

KeysOf(v) == SelectSeq(Names, LAMBDA name : HasMember(v, name))

Places(v) == [k \in 1..Size(v) |-> k]
Index(k) == ToString(k)

-----------------------------------------------------------------------------
(* ValidateContext *)

NoTracker == [on |-> FALSE, properties |-> {}, items |-> {}]   \* nullptr
NewTracker == [on |-> TRUE, properties |-> {}, items |-> {}]

Merge(t, other) ==
  IF t.on THEN [t EXCEPT !.properties = @ \cup other.properties, !.items = @ \cup other.items]
  ELSE t

TrackProperty(c, name) == [c EXCEPT !.tracker = Merge(@, [NewTracker EXCEPT !.properties = {name}])]
TrackItems(c, S) == [c EXCEPT !.tracker = Merge(@, [NewTracker EXCEPT !.items = S])]

ShouldContinue(c) == ~c.stop \/ c.errors = {}

\* The next piece of the work, unless the first error ends the validation.
IfContinues(c, Rest(_)) == IF ShouldContinue(c) THEN Rest(c) ELSE c
EachIfContinues(c, Op(_, _), S) ==
  FoldLeft(LAMBDA d, k : IF ShouldContinue(d) THEN Op(d, k) ELSE d, c, S)

\* Mutant: the errors found before are lost.
AddErrorsOverwrites(c, path, keywords) ==
  [c EXCEPT !.errors = {[path |-> path, keyword |-> k] : k \in keywords}]

AddErrors(c, path, keywords) ==
  [c EXCEPT !.errors = @ \cup {[path |-> path, keyword |-> k] : k \in keywords}]

\* A context of its own for a subschema whose errors do not count by themselves.
\* The dynamic scope and the active references are not handed down.
SubContext(tracked) ==
  [stop |-> TRUE, errors |-> {}, tracker |-> IF tracked THEN NewTracker ELSE NoTracker,
   scope |-> <<>>, active |-> {}]

Scoped(s, scope, n) ==
  IF n \in DOMAIN s.resourceAnchors THEN Append(scope, s.resourceAnchors[n]) ELSE scope

RootContext(s, stop) ==
  [SubContext(FALSE) EXCEPT !.stop = stop, !.scope = Scoped(s, <<>>, s.root)]

\* resolveDynamicAnchor: the outermost resource in scope that has the anchor;
\* the static target if none has, or if that target does not carry the anchor.
DynamicTarget(s, scope, node) ==
  LET found == {k \in DOMAIN scope : node.anchor \in DOMAIN scope[k]}
      bookended == /\ node.anchor # NoAnchor
                   /\ node.target \in DOMAIN s.anchorNames
                   /\ s.anchorNames[node.target] = node.anchor
  IN IF bookended /\ found # {}
     THEN scope[CHOOSE k \in found : \A q \in found : k <= q][node.anchor]
     ELSE node.target

-----------------------------------------------------------------------------
(* Keywords that look at one value *)

\* The types of a schema that allow the value; numbers are integers here.
SchemaType(v) ==
  CASE v.kind = "double" -> {"integer", "number"}
    [] v.kind = "bool" -> {"boolean"}
    [] v.kind = "undefined" -> {"null"}
    [] OTHER -> {v.kind}

GeneralViolations(node, v) ==
  {k \in {"type", "enum", "const"} \cap DOMAIN node.kw :
     CASE k = "type" -> SchemaType(v) \cap node.kw.type = {}
       [] k = "enum" -> v \notin node.kw.enum
       [] k = "const" -> v # node.kw.const}

StringViolations(s, node, text) ==
  {k \in {"minLength", "maxLength", "pattern", "format"} \cap DOMAIN node.kw :
     CASE k = "minLength" -> Len(text) < node.kw.minLength
       [] k = "maxLength" -> Len(text) > node.kw.maxLength
       [] k = "pattern" -> text \notin node.kw.pattern
       [] k = "format" -> s.formatAssertion /\ ~ValidateFormat(node.kw.format, text)}

NumberViolations(node, x) ==
  {k \in {"minimum", "maximum", "exclusiveMinimum", "exclusiveMaximum", "multipleOf"}
           \cap DOMAIN node.kw :
     CASE k = "minimum" -> x < node.kw.minimum
       [] k = "maximum" -> x > node.kw.maximum
       [] k = "exclusiveMinimum" -> x <= node.kw.exclusiveMinimum
       [] k = "exclusiveMaximum" -> x >= node.kw.exclusiveMaximum
       [] k = "multipleOf" -> x % node.kw.multipleOf # 0}

ObjectViolations(node, v) ==
  LET names == DOMAIN v.members IN
  {k \in {"minProperties", "maxProperties", "required"} \cap DOMAIN node.kw :
     CASE k = "minProperties" -> Cardinality(names) < node.kw.minProperties
       [] k = "maxProperties" -> Cardinality(names) > node.kw.maxProperties
       [] k = "required" -> ~(node.kw.required \subseteq names)}

DependencyViolations(node, v) ==
  LET names == DOMAIN v.members IN
  {k \in {"dependentRequired"} \cap DOMAIN node.kw :
     \E name \in names \cap DOMAIN node.kw.dependentRequired :
       ~(node.kw.dependentRequired[name] \subseteq names)}

HasDuplicates(v) == \E j, k \in 1..Size(v) : j < k /\ v.elements[j] = v.elements[k]

ArrayViolations(node, v) ==
  {k \in {"minItems", "maxItems", "uniqueItems"} \cap DOMAIN node.kw :
     CASE k = "minItems" -> Size(v) < node.kw.minItems
       [] k = "maxItems" -> Size(v) > node.kw.maxItems
       [] k = "uniqueItems" -> node.kw.uniqueItems /\ HasDuplicates(v)}

-----------------------------------------------------------------------------
(* Recursion into subschemas *)

RECURSIVE ValidateNode(_, _, _, _, _)

\* An alternative, in a context of its own: it stops at its first error.
Branch(s, c, n, v, path) == ValidateNode(s, SubContext(c.tracker.on), n, v, path)
Passed(b) == b.errors = {}

\* A child value, with the tracker suspended: what is evaluated inside the
\* child must not count for the level of its parent.
Descend(s, c, n, v, path) ==
  [ValidateNode(s, [c EXCEPT !.tracker = NoTracker], n, v, path) EXCEPT !.tracker = c.tracker]

\* A subschema that may be the boolean false is asked directly.
Rejects(s, n) == s.nodes[n] = BooleanSchema(FALSE)

\* validateSingleProperty
SingleProperty(s, c, node, name, v, path) ==
  LET declared == name \in DOMAIN Get(node, "properties", <<>>)
      matching == SelectSeq(Get(node, "patternProperties", <<>>), LAMBDA p : name \in p.names)
      extra == ~declared /\ matching = <<>> /\ Has(node, "additionalProperties")
      nodes == (IF declared THEN <<node.kw.properties[name]>> ELSE <<>>)
                 \o [k \in DOMAIN matching |-> matching[k].node]
                 \o (IF extra THEN <<node.kw.additionalProperties>> ELSE <<>>)
  IN IF extra /\ Rejects(s, node.kw.additionalProperties)
     THEN TrackProperty(AddErrors(c, path, {"additionalProperties"}), name)
     ELSE IF nodes = <<>> THEN c
     ELSE TrackProperty(FoldLeft(LAMBDA d, n : Descend(s, d, n, v, path), c, nodes), name)

ValidateObject(s, c, node, v, path) ==
  LET names == IF Has(node, "propertyNames") THEN KeysOf(v) ELSE <<>>
      dependents == Get(node, "dependentSchemas", <<>>)
      Name(d, k) == ValidateNode(s, d, node.kw.propertyNames, Str(k), path)
      Member(d, k) == SingleProperty(s, d, node, k, v.members[k], Append(path, k))
      Dependent(d, k) ==
        IF k \in DOMAIN dependents THEN ValidateNode(s, d, dependents[k], v, path) ELSE d
      c1 == AddErrors(c, path, ObjectViolations(node, v))
      c2 == EachIfContinues(c1, Name, names)
      c3 == EachIfContinues(c2, Member, KeysOf(v))
  IN FoldLeft(Dependent, AddErrors(c3, path, DependencyViolations(node, v)), KeysOf(v))

\* The schema an element is validated by: prefixItems, then items.
ItemSchemas(node, k) ==
  LET prefix == Get(node, "prefixItems", <<>>) IN
  IF k <= Len(prefix) THEN <<prefix[k]>>
  ELSE IF Has(node, "items") THEN <<node.kw.items>> ELSE <<>>

ValidateItems(s, c, node, v, path) ==
  LET Item(d, k) ==
        FoldLeft(LAMBDA e, n : TrackItems(
                   Descend(s, e, n, v.elements[k], Append(path, Index(k - 1))), {k}),
                 d, ItemSchemas(node, k))
  IN EachIfContinues(c, Item, Places(v))

ValidateContains(s, c, node, v, path) ==
  IF ~Has(node, "contains") THEN c ELSE
  LET matching == {k \in 1..Size(v) :
                     Passed(ValidateNode(s, SubContext(FALSE), node.kw.contains,
                                         v.elements[k], Append(path, Index(k - 1))))}
      few == Cardinality(matching) < Get(node, "minContains", 1)
      many == Has(node, "maxContains") /\ Cardinality(matching) > node.kw.maxContains
  IN AddErrors(TrackItems(c, matching), path,
               (IF few THEN {"minContains"} ELSE {}) \cup (IF many THEN {"maxContains"} ELSE {}))

ValidateArray(s, c, node, v, path) ==
  LET c1 == AddErrors(c, path, ArrayViolations(node, v))
  IN ValidateContains(s, ValidateItems(s, c1, node, v, path), node, v, path)

-----------------------------------------------------------------------------
(* Combinators *)

MergeAll(c, branches) ==
  FoldLeft(LAMBDA d, b : [d EXCEPT !.tracker = Merge(@, b.tracker)], c, branches)

ValidateAllOf(s, c, node, v, path) ==
  EachIfContinues(c, LAMBDA d, n : ValidateNode(s, d, n, v, path), Get(node, "allOf", <<>>))

\* Mutant: what a failed alternative evaluated counts as evaluated.
AnyOfMergesFailed(s, c, node, v, path) ==
  IF ~Has(node, "anyOf") THEN c ELSE
  LET branches == [k \in DOMAIN node.kw.anyOf |-> Branch(s, c, node.kw.anyOf[k], v, path)]
      passing == SelectSeq(branches, Passed)
  IN AddErrors(MergeAll(c, branches), path, IF passing = <<>> THEN {"anyOf"} ELSE {})

\* Every alternative that passes adds what it evaluated.
ValidateAnyOf(s, c, node, v, path) ==
  IF ~Has(node, "anyOf") THEN c ELSE
  LET branches == [k \in DOMAIN node.kw.anyOf |-> Branch(s, c, node.kw.anyOf[k], v, path)]
      passing == SelectSeq(branches, Passed)
  IN AddErrors(MergeAll(c, passing), path, IF passing = <<>> THEN {"anyOf"} ELSE {})

\* Only the one alternative that passes adds what it evaluated.
ValidateOneOf(s, c, node, v, path) ==
  IF ~Has(node, "oneOf") THEN c ELSE
  LET branches == [k \in DOMAIN node.kw.oneOf |-> Branch(s, c, node.kw.oneOf[k], v, path)]
      passing == SelectSeq(branches, Passed)
  IN IF Len(passing) = 1 THEN MergeAll(c, passing) ELSE AddErrors(c, path, {"oneOf"})

\* "not" evaluates nothing.
ValidateNot(s, c, node, v, path) ==
  IF Has(node, "not") /\ Passed(ValidateNode(s, SubContext(FALSE), node.kw.not, v, path))
  THEN AddErrors(c, path, {"not"}) ELSE c

\* Only an if that holds adds what it evaluated.
ValidateIf(s, c, node, v, path) ==
  IF ~Has(node, "if") THEN c ELSE
  LET condition == Branch(s, c, node.kw.if, v, path)
      next == IF Passed(condition) THEN "then" ELSE "else"
      c1 == IF Passed(condition) THEN MergeAll(c, <<condition>>) ELSE c
  IN IF Has(node, next) THEN ValidateNode(s, c1, node.kw[next], v, path) ELSE c1

ValidateCombinators(s, c, node, v, path) ==
  LET c1 == ValidateAllOf(s, c, node, v, path)
      c2 == ValidateAnyOf(s, c1, node, v, path)
      c3 == ValidateOneOf(s, c2, node, v, path)
  IN ValidateIf(s, ValidateNot(s, c3, node, v, path), node, v, path)

-----------------------------------------------------------------------------
(* unevaluatedProperties and unevaluatedItems: the children that the tracker *)
(* does not hold yet.  The tracker is not suspended here.                    *)

Unevaluated(s, c, n, v, path, keyword) ==
  IF Rejects(s, n) THEN AddErrors(c, path, {keyword}) ELSE ValidateNode(s, c, n, v, path)

UnevaluatedProperties(s, c, node, v, path) ==
  LET Member(d, k) ==
        IF k \in d.tracker.properties THEN d
        ELSE TrackProperty(Unevaluated(s, d, node.kw.unevaluatedProperties, v.members[k],
                                       Append(path, k), "unevaluatedProperties"), k)
  IN IF Has(node, "unevaluatedProperties") /\ IsObject(v)
     THEN EachIfContinues(c, Member, KeysOf(v)) ELSE c

UnevaluatedItems(s, c, node, v, path) ==
  LET Item(d, k) ==
        IF k \in d.tracker.items THEN d
        ELSE TrackItems(Unevaluated(s, d, node.kw.unevaluatedItems, v.elements[k],
                                    Append(path, Index(k - 1)), "unevaluatedItems"), {k})
  IN IF Has(node, "unevaluatedItems") /\ IsArray(v)
     THEN EachIfContinues(c, Item, Places(v)) ELSE c

-----------------------------------------------------------------------------
(* The nodes *)

ByType(s, c, node, v, path) ==
  CASE v.kind = "string" -> AddErrors(c, path, StringViolations(s, node, v.str))
    [] v.kind = "double" -> AddErrors(c, path, NumberViolations(node, v.num))
    [] IsArray(v) -> ValidateArray(s, c, node, v, path)
    [] IsObject(v) -> ValidateObject(s, c, node, v, path)
    [] OTHER -> c

\* validateObjectSchema, within its own resource scope and with its own tracker
\* if it asks for one; what it evaluated is then its parent's, too.
ValidateObjectSchema(s, c, n, v, path) ==
  LET node == s.nodes[n]
      tracks == Has(node, "unevaluatedProperties") \/ Has(node, "unevaluatedItems")
      c0 == [c EXCEPT !.scope = Scoped(s, @, n), !.tracker = IF tracks THEN NewTracker ELSE @]
      c1 == AddErrors(c0, path, GeneralViolations(node, v))
      c2 == IfContinues(c1, LAMBDA d : ByType(s, d, node, v, path))
      c3 == IfContinues(c2, LAMBDA d : ValidateCombinators(s, d, node, v, path))
      c4 == UnevaluatedProperties(s, c3, node, v, path)
      c5 == UnevaluatedItems(s, c4, node, v, path)
  IN [c5 EXCEPT !.scope = c.scope,
                !.tracker = IF tracks THEN Merge(c.tracker, @) ELSE @]

\* Mutant: the instance path is not compared.
IsRefActiveAnywhere(c, target, path) == \E a \in c.active : a[1] = target

\* isRefActive: the same target again at the same place of the instance.
IsRefActive(c, target, path) == <<target, path>> \in c.active

FollowRef(s, c, scope, target, v, path) ==
  IF IsRefActive(c, target, path) THEN AddErrors(c, path, {"RefCycleDetected"})
  ELSE [ValidateNode(s, [c EXCEPT !.active = @ \cup {<<target, path>>},
                                  !.scope = Scoped(s, scope, target)], target, v, path)
          EXCEPT !.active = c.active, !.scope = c.scope]

ValidateNode(s, c, n, v, path) ==
  LET node == s.nodes[n] IN
  CASE node.kind = "bool" -> IF node.value THEN c ELSE AddErrors(c, path, {"false"})
    [] node.kind = "object" -> ValidateObjectSchema(s, c, n, v, path)
    [] node.kind = "ref" ->
         IF node.target = Unresolved THEN c
         ELSE FollowRef(s, c, Scoped(s, c.scope, n), node.target, v, path)
    [] node.kind = "dynamicRef" ->
         IF node.target = Unresolved THEN c
         ELSE FollowRef(s, c, c.scope, DynamicTarget(s, c.scope, node), v, path)

-----------------------------------------------------------------------------
(* The calls on a compiled schema (a moved-from JSONSchema has none) *)

Pending == [done |-> FALSE]
Validation(s, v, stop) == ValidateNode(s, RootContext(s, stop), s.root, v, <<>>).errors

Init ==
  /\ schema \in Schemas
  /\ instance \in InstancesOf(schema)
  /\ report = Pending
  /\ verdict = Pending

Validate ==
  /\ ~report.done
  /\ report' = [done |-> TRUE, errors |-> Validation(schema, instance, FALSE)]
  /\ UNCHANGED <<schema, instance, verdict>>

IsValid ==
  /\ ~verdict.done
  /\ verdict' = [done |-> TRUE, valid |-> Validation(schema, instance, TRUE) = {}]
  /\ UNCHANGED <<schema, instance, report>>

Next == Validate \/ IsValid

Spec == Init /\ [][Next]_vars

=============================================================================
