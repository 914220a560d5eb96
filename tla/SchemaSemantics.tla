--------------------------- MODULE SchemaSemantics ---------------------------
(***************************************************************************)
(* What a JSON Schema says of an instance, without contexts, loops, early  *)
(* exits or trackers that are passed around: JSON Schema 2020-12 as        *)
(* doc/specs/ietf-json-schema-draft-2020-12.txt has it, for the keywords   *)
(* of SchemaValidate.  Meaning is the assertion result of a schema object  *)
(* together with its annotations: the members and the elements of the      *)
(* instance that it has evaluated, none if it does not hold.               *)
(***************************************************************************)
EXTENDS SchemaValidate, FormatGrammar

RECURSIVE Meaning(_, _, _, _)

\* The subschemas that apply to the instance itself and must hold.
Conjuncts(node, v, ifHolds) ==
  ToSet(Get(node, "allOf", <<>>))
    \cup (IF Has(node, "if") /\ ifHolds /\ Has(node, "then") THEN {node.kw.then} ELSE {})
    \cup (IF Has(node, "if") /\ ~ifHolds /\ Has(node, "else") THEN {node.kw.else} ELSE {})
    \cup (IF ~IsObject(v) THEN {}
          ELSE LET deps == Get(node, "dependentSchemas", <<>>)
               IN {deps[k] : k \in DOMAIN deps \cap DOMAIN v.members})

\* The subschemas that apply to the child k of the instance.
ForMember(node, k) ==
  LET props == Get(node, "properties", <<>>)
      own == {props[q] : q \in {k} \cap DOMAIN props}
               \cup {p.node : p \in {q \in ToSet(Get(node, "patternProperties", <<>>)) : k \in q.names}}
  IN IF own = {} /\ Has(node, "additionalProperties") THEN {node.kw.additionalProperties} ELSE own

OwnViolations(s, node, v) ==
  GeneralViolations(node, v)
    \cup (CASE v.kind = "string" -> StringViolations(s, node, v.str)
            [] v.kind = "double" -> NumberViolations(node, v.num)
            [] IsArray(v) -> ArrayViolations(node, v)
            [] IsObject(v) -> ObjectViolations(node, v) \cup DependencyViolations(node, v)
            [] OTHER -> {})

ObjectMeaning(s, n, v, outer) ==
  LET node == s.nodes[n]
      scope == Scoped(s, outer, n)
      Here(m) == Meaning(s, m, v, scope)
      Holds(m, w) == Meaning(s, m, w, scope).holds
      any == {m \in ToSet(Get(node, "anyOf", <<>>)) : Here(m).holds}
      oneOf == Get(node, "oneOf", <<>>)
      one == {k \in DOMAIN oneOf : Here(oneOf[k]).holds}
      ifHolds == Has(node, "if") /\ Here(node.kw.if).holds
      conjuncts == Conjuncts(node, v, ifHolds)
      applied == conjuncts \cup any \cup {oneOf[k] : k \in one}
                   \cup (IF ifHolds THEN {node.kw.if} ELSE {})
      names == IF IsObject(v) THEN DOMAIN v.members ELSE {}
      places == IF IsArray(v) THEN 1..Size(v) ELSE {}
      contained == IF ~Has(node, "contains") THEN {}
                   ELSE {k \in places : Holds(node.kw.contains, v.elements[k])}
      seenNames == {k \in names : ForMember(node, k) # {}}
                     \cup UNION {Here(m).properties : m \in applied}
      seenPlaces == {k \in places : ItemSchemas(node, k) # <<>>} \cup contained
                      \cup UNION {Here(m).items : m \in applied}
      holds ==
        /\ OwnViolations(s, node, v) = {}
        /\ \A m \in conjuncts : Here(m).holds
        /\ Has(node, "anyOf") => any # {}
        /\ Has(node, "oneOf") => Cardinality(one) = 1
        /\ Has(node, "not") => ~Here(node.kw.not).holds
        /\ Has(node, "propertyNames") => \A k \in names : Holds(node.kw.propertyNames, Str(k))
        /\ \A k \in names : \A m \in ForMember(node, k) : Holds(m, v.members[k])
        /\ \A k \in places : \A m \in ToSet(ItemSchemas(node, k)) : Holds(m, v.elements[k])
        /\ Has(node, "contains") /\ IsArray(v) =>
             /\ Cardinality(contained) >= Get(node, "minContains", 1)
             /\ Has(node, "maxContains") => Cardinality(contained) <= node.kw.maxContains
        /\ Has(node, "unevaluatedProperties") =>
             \A k \in names \ seenNames : Holds(node.kw.unevaluatedProperties, v.members[k])
        /\ Has(node, "unevaluatedItems") =>
             \A k \in places \ seenPlaces : Holds(node.kw.unevaluatedItems, v.elements[k])
  IN [holds |-> holds,
      properties |-> IF ~holds THEN {} ELSE IF Has(node, "unevaluatedProperties") THEN names ELSE seenNames,
      items |-> IF ~holds THEN {} ELSE IF Has(node, "unevaluatedItems") THEN places ELSE seenPlaces]

Nothing(b) == [holds |-> b, properties |-> {}, items |-> {}]

Meaning(s, n, v, scope) ==
  LET node == s.nodes[n] IN
  CASE node.kind = "bool" -> Nothing(node.value)
    [] node.kind = "object" -> ObjectMeaning(s, n, v, scope)
    [] OTHER ->
         IF node.target = Unresolved THEN Nothing(TRUE)
         ELSE LET inner == Scoped(s, scope, n)
                  target == IF node.kind = "ref" THEN node.target ELSE DynamicTarget(s, inner, node)
              IN Meaning(s, target, v, Scoped(s, inner, target))

\* References and allOf apply a schema to the same instance again.  A node that
\* comes back to itself this way says nothing: there is no verdict to agree with.
InPlace(s, n) ==
  CASE s.nodes[n].kind = "ref" -> {s.nodes[n].target} \cap DOMAIN s.nodes
    [] s.nodes[n].kind = "object" -> ToSet(Get(s.nodes[n], "allOf", <<>>))
    [] OTHER -> {}

ReachedFrom(s, n) ==
  LET within[k \in Nat] ==
        IF k = 0 THEN {n}
        ELSE LET before == within[k - 1] IN before \cup UNION {InPlace(s, m) : m \in before}
  IN within[Cardinality(DOMAIN s.nodes)]

OnCycle(s, n) == \E m \in InPlace(s, n) : n \in ReachedFrom(s, m)
Productive(s) == \A n \in DOMAIN s.nodes : ~OnCycle(s, n)

-----------------------------------------------------------------------------
(* Properties *)

\* validate() finds an error if and only if the instance does not satisfy the
\* schema.
VerdictIsMeant ==
  report.done /\ Productive(schema) =>
    LET scope == Scoped(schema, <<>>, schema.root)
    IN (report.errors = {}) = Meaning(schema, schema.root, instance, scope).holds

\* isValid() stops at the first error and skips what comes after it, and still
\* agrees with validate().
FailFastAgrees ==
  report.done /\ verdict.done => verdict.valid = (report.errors = {})

\* "Re-entering the same pair means the reference cycle consumes no instance
\* input" (ValidationContext.hpp): a schema that comes back to itself in place is
\* reported, and a recursive schema that consumes input is not.
CyclesReported ==
  report.done =>
    LET cycles == {e \in report.errors : e.keyword = "RefCycleDetected"}
    IN /\ cycles # {} => ~Productive(schema)
       /\ (\E n \in ReachedFrom(schema, schema.root) : OnCycle(schema, n)) =>
            \E e \in cycles : e.path = <<>>

\* With format assertion on, a text satisfies the format keyword if and only if
\* it is one of the texts that the grammar of the format derives and that its
\* numbers make sense of: dates of the calendar, leap seconds at the end of a
\* UTC day, durations whose units come in order, and pointers that
\* JSONPointer::create takes.  Without it, every text does.
FormatsAsMeant ==
  report.done /\ schema.nodes[schema.root].kind = "object" =>
    LET root == schema.nodes[schema.root]
    IN DOMAIN root.kw = {"format"} /\ instance.kind = "string" =>
         ((report.errors = {}) <=>
            (schema.formatAssertion => FormatMeant(root.kw.format, instance.str)))

=============================================================================
