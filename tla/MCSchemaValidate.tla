--------------------------- MODULE MCSchemaValidate ---------------------------
(***************************************************************************)
(* Instances of SchemaValidate for TLC.  unevaluatedProperties and         *)
(* unevaluatedItems are true, false or a schema without keywords for       *)
(* children everywhere but in LeakSchemas.                                 *)
(***************************************************************************)
EXTENDS SchemaSemantics

MCNames == <<"a", "b">>

One == Num(1)
A(v) == Object([q \in {"a"} |-> v])
B(v) == Object([q \in {"b"} |-> v])
AB(v, w) == Object([q \in {"a", "b"} |-> IF q = "a" THEN v ELSE w])

ObjectInstances ==
  {EmptyObject, One, A(One), A(Str("a")), B(One), AB(One, One), AB(One, Null), AB(Str("a"), One),
   A(A(One)), AB(A(One), One), AB(A(AB(One, Null)), Str("b"))}
ArrayInstances ==
  {EmptyArray, Array(<<One>>), Array(<<Null>>), Array(<<One, One>>), Array(<<One, Null>>),
   Array(<<Null, One>>), Array(<<Null, One, Num(2)>>), Array(<<Array(<<One, Null>>), One>>)}
ScalarInstances == {Null, Bool(TRUE), Str(""), Str("bb")} \cup {Num(k) : k \in 0..4}
MCInstances == ObjectInstances \cup ArrayInstances \cup ScalarInstances

\* Subschemas that the schemas below share.
Common ==
  [T |-> BooleanSchema(TRUE), F |-> BooleanSchema(FALSE), self |-> RefSchema("root"),
   int |-> ObjectSchema([type |-> {"integer"}, minimum |-> 1]),
   short |-> ObjectSchema([maxLength |-> 1, enum |-> {Str("a")}]),
   pa |-> ObjectSchema([properties |-> [a |-> "int"]]),
   pb |-> ObjectSchema([properties |-> [b |-> "T"], required |-> {"b"}]),
   all |-> ObjectSchema([allOf |-> <<"pb">>, unevaluatedProperties |-> "int"]),
   first |-> ObjectSchema([prefixItems |-> <<"int">>]),
   some |-> ObjectSchema([contains |-> "int"])]

SchemaOf(nodes) ==
  [nodes |-> nodes @@ Common, root |-> "root", resourceAnchors |-> <<>>, anchorNames |-> <<>>,
   formatAssertion |-> TRUE]
Schema(kw) == SchemaOf([root |-> ObjectSchema(kw)])

\* One in-place applicator, with every choice of its subschemas.
Nothing_ == [title |-> "none"]
Applicators(S) ==
  {Nothing_}
    \cup {[allOf |-> <<p, q>>] : p \in S, q \in S}
    \cup {[anyOf |-> <<p, q>>] : p \in S, q \in S}
    \cup {[oneOf |-> <<p, q>>] : p \in S, q \in S}
    \cup {[not |-> p] : p \in S}
    \cup {[if |-> p, then |-> q, else |-> r] : p \in S, q \in S, r \in {"pa", "T"}}
    \cup {[dependentSchemas |-> [a |-> p]] : p \in S}

\* Keywords of the root's own for members, and for elements.
OwnMembers ==
  {Nothing_, [properties |-> [a |-> "int"]], [properties |-> [a |-> "self"]],
   [additionalProperties |-> "F"], [properties |-> [b |-> "T"], additionalProperties |-> "int"],
   [patternProperties |-> <<[names |-> {"a"}, node |-> "int"]>>, additionalProperties |-> "F"],
   [propertyNames |-> "short", dependentRequired |-> [a |-> {"b"}]]}
OwnElements ==
  {Nothing_, [prefixItems |-> <<"T">>], [prefixItems |-> <<"T">>, items |-> "int"],
   [items |-> "self"], [contains |-> "int", maxContains |-> 1],
   [contains |-> "first", minContains |-> 0], [uniqueItems |-> TRUE, minItems |-> 2]}

ObjectSchemas ==
  {Schema(app @@ own @@ rest) :
     app \in Applicators({"pa", "pb", "all", "F"}), own \in OwnMembers,
     rest \in {Nothing_, [unevaluatedProperties |-> "F"], [unevaluatedProperties |-> "int"]}}
ArraySchemas ==
  {Schema(app @@ own @@ rest) :
     app \in Applicators({"first", "some"}), own \in OwnElements,
     rest \in {Nothing_, [unevaluatedItems |-> "F"], [unevaluatedItems |-> "int"]}}

\* Keywords that look at one value.
ScalarSchemas ==
  {Schema(kw) : kw \in
     {[minimum |-> 1, maximum |-> 3], [exclusiveMinimum |-> 1, exclusiveMaximum |-> 3],
      [multipleOf |-> 2], [type |-> {"null", "string"}], [type |-> {"number"}],
      [const |-> Bool(TRUE)], [minLength |-> 1, pattern |-> {"", "bb"}],
      [minProperties |-> 1, maxProperties |-> 1]}}

\* References: chains, cycles in place, recursion through members, and a tree
\* that another schema extends through its dynamic anchor.
Ref(target) == RefSchema(target)
RefSchemas ==
  {SchemaOf([root |-> Ref("root")]), SchemaOf([root |-> Ref("pa")]),
   SchemaOf([root |-> Ref(Unresolved)]),
   SchemaOf([root |-> ObjectSchema([allOf |-> <<"r", "r">>, unevaluatedProperties |-> "F"]), r |-> Ref("pa")]),
   SchemaOf([root |-> ObjectSchema([allOf |-> <<"r">>]), r |-> Ref("p"),
             p |-> ObjectSchema([allOf |-> <<"pa", "r">>])]),
   SchemaOf([root |-> ObjectSchema([properties |-> [a |-> "r"]]), r |-> Ref("r")]),
   SchemaOf([root |-> Ref("p"), p |-> ObjectSchema([properties |-> [a |-> "root"], required |-> {"a"}])])}
Tree == ObjectSchema([properties |-> [a |-> "d", b |-> "int"]])
DynamicSchemas ==
  {[SchemaOf([root |-> ObjectSchema([allOf |-> <<"t">>, unevaluatedProperties |-> "F",
                                     minProperties |-> least]),
              t |-> Ref("tree"), tree |-> Tree, d |-> DynamicRefSchema("tree", anchor)])
      EXCEPT !.resourceAnchors = [root |-> [node |-> "root"], tree |-> [node |-> "tree"]],
             !.anchorNames = names] :
     least \in 0..2, anchor \in {"node", NoAnchor},
     names \in {[root |-> "node", tree |-> "node"], [root |-> "node"]}}

\* Texts for the formats: all short ones over an alphabet, or all ways to put
\* parts together, right and wrong.
Strings(C, n) == UNION {[1..k -> C] : k \in 0..n}
Joined(parts) == FoldLeft(LAMBDA S, T : {s \o t : s \in S, t \in T}, {<<>>}, parts)
Chars(n, S) == {[k \in 1..n |-> ToString(d \div 10^(n - k) % 10)] : d \in S}
C(c) == {<<c>>}

Zones ==
  {<<>>, <<"Z">>, <<"z">>, <<"+", "1", ":", "0", "0">>}
    \cup Joined(<<{<<"+">>, <<"-">>}, Chars(2, {0, 1, 22, 24}), C(":"), Chars(2, {0, 30, 60})>>)
Times ==
  Joined(<<Chars(2, {0, 1, 23, 24}), C(":"), Chars(2, {29, 59, 60}), C(":"), Chars(2, {0, 60, 61}),
           {<<>>, <<".">>, <<".", "5", "0">>}, Zones>>)
Dates ==
  Joined(<<Chars(4, {0, 1900, 2000, 2023, 2024}), C("-"), Chars(2, {0, 1, 2, 4, 12, 13}), C("-"),
           Chars(2, {0, 1, 28, 29, 30, 31, 32})>>)
DateTimes ==
  Joined(<<Chars(4, {1900, 2024}), C("-"), Chars(2, {2}), C("-"), Chars(2, {29}),
           {<<"T">>, <<"t">>, <<" ">>, <<>>}, Chars(2, {0, 23}), C(":"), Chars(2, {59}), C(":"),
           Chars(2, {60}), {<<>>, <<"Z">>, <<"+", "0", "1", ":", "0", "0">>}>>)
Durations ==
  Joined(<<C("P"), Strings({"1", "Y", "M", "T", "S", "W", NonAsciiDigit}, 4)>>)
    \cup Joined(<<{<<"P", "T">>, <<"P", "1", "D", "T">>}, Strings({"1", "H", "M", "S", "."}, 4)>>)
    \cup Joined(<<C("P"), {<<>>, <<"1", "Y">>}, {<<>>, <<"2", "0", "M">>}, {<<>>, <<"T">>},
                  {<<>>, <<"1", "D">>}, {<<>>, <<"T">>}, {<<>>, <<"3", "M">>}, {<<>>, <<"1", ".", "5", "S">>}>>)

MCIpv4 == {<<"1", ".", "2">>, <<"1", ".", "0", ".", "0", ".", "2">>}   \* the first for 1.0.0.2, too
MCIpv6 == {<<":", ":", "1">>, <<":", ":", "1", "%", "1">>}
Uuids == Joined(<<{[k \in 1..n |-> c] : n \in 7..8, c \in {"a", "F", "g"}}>> \o
                [k \in 1..3 |-> {<<"-", "0", "1", "2", "3">>, <<"-", "0", "1", "2">>}] \o
                <<{<<"-">> \o [k \in 1..12 |-> "9"], [k \in 1..13 |-> "9"]}>>)
Mailboxes ==
  Joined(<<Strings({"a", ".", "\"", "@"}, 3), {<<>>, <<"@">>},
           {<<"a">>, <<"a", ".", "a">>, <<"-">>, <<>>, <<"[", "1", ".", "2", "]">>, <<"[", "]">>,
            <<"[", "I", "P", "v", "6", ":", ":", ":", "1", "]">>, <<"[", ":", ":", "1", "]">>}>>)
    \cup Joined(<<[1..4 -> {"a", " "}] \cup [1..5 -> {"a"}], C("@"), C("a") \cup {<<"a", ".", "a", "a", ".", "a", "a", "a">>}>>)

\* QUrl takes what it can mend; a control character is nothing it can mend.
References == Strings({"a", "/", "{", "\"", NonAsciiDigit}, 2)
MCSchemes == Joined(<<C("a"), C(":"), References>>)
MCUrls == References \cup MCSchemes
Urls == MCUrls \cup {<<":", "a">>, <<"a", ControlCharacter>>}

TextsOf(format) ==
  CASE format = "time" -> Times
    [] format = "date" -> Dates
    [] format = "date-time" -> DateTimes
    [] format = "duration" -> Durations
    [] format = "email" -> Mailboxes
    [] format = "hostname" -> Strings({"a", "-", "."}, 7)
    [] format = "json-pointer" -> Strings({"/", "~", "0", "2", "a"}, 4)
    [] format = "relative-json-pointer" -> Strings({"0", "1", "/", "~", "#", NonAsciiDigit}, 4)
    [] format = "uri-template" -> Strings({"{", "}", "a"}, 5)
    [] format \in {"uri", "uri-reference", "iri", "iri-reference"} -> Urls
    [] format = "uuid" -> Uuids
    [] OTHER -> MCIpv4 \cup MCIpv6 \cup {<<>>, <<"1", "%">>, <<"1", "1", "1", "1", ".", "0", ".", "0", ".", "2">>}

FormatSchemas ==
  {Schema([format |-> format]) :
     format \in {"time", "date", "date-time", "duration", "email", "hostname", "json-pointer",
                 "relative-json-pointer", "uri-template", "uri", "uri-reference", "iri",
                 "iri-reference", "ipv4", "ipv6", "uuid", "unknown"}}
    \cup {[Schema([format |-> "date"]) EXCEPT !.formatAssertion = FALSE]}

HasFormat(s) == s.nodes[s.root].kind = "object" /\ Has(s.nodes[s.root], "format")

MCSchemas ==
  ObjectSchemas \cup ArraySchemas \cup ScalarSchemas \cup RefSchemas \cup DynamicSchemas
    \cup FormatSchemas
MCInstancesOf(s) ==
  IF HasFormat(s) THEN {Str(text) : text \in TextsOf(s.nodes[s.root].kw.format)} ELSE MCInstances

\* An unevaluatedProperties schema with members of its own.
LeakSchemas ==
  {[SchemaOf([root |-> ObjectSchema([unevaluatedProperties |-> "o"]),
              o |-> ObjectSchema([type |-> {"object"}, properties |-> [b |-> "T"]])])
      EXCEPT !.formatAssertion = on] : on \in BOOLEAN}
LeakInstances(s) == {AB(v, w) : v \in {One, B(One), A(One)}, w \in {One, EmptyObject}}

=============================================================================
