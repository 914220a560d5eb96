------------------------------ MODULE JsonValue ------------------------------
(***************************************************************************)
(* JSON values as Qt's value classes hold them (QJsonValue, QJsonObject,   *)
(* QJsonArray, QJsonDocument), and the container operations the library    *)
(* calls on them.  Qt is external: the operators below say what the calls  *)
(* in src/ rely on.  A value is a record whose field kind is its           *)
(* QJsonValue::type(); the payload has a field of its own per type, so     *)
(* that values of different types are always comparable.                   *)
(*                                                                         *)
(* Qt's containers are copy-on-write values: an operation yields a new     *)
(* value and never disturbs another holder of the old one, exactly as TLA+ *)
(* functions and sequences do.                                             *)
(***************************************************************************)
EXTENDS Integers, Sequences, SequencesExt

Null == [kind |-> "null"]
Undefined == [kind |-> "undefined"]
Bool(b) == [kind |-> "bool", bool |-> b]
Num(n) == [kind |-> "double", num |-> n]
Str(t) == [kind |-> "string", str |-> t]
Object(members) == [kind |-> "object", members |-> members]
Array(elements) == [kind |-> "array", elements |-> elements]

EmptyObject == Object(<<>>)
EmptyArray == Array(<<>>)

IsNull(v) == v.kind = "null"
IsUndefined(v) == v.kind = "undefined"
IsObject(v) == v.kind = "object"
IsArray(v) == v.kind = "array"
IsContainer(v) == IsObject(v) \/ IsArray(v)

-----------------------------------------------------------------------------
(* QJsonObject *)

\* obj.constFind(key) != obj.constEnd()
HasMember(v, key) == key \in DOMAIN v.members

\* obj.insert(key, x): inserts, or overwrites the member of that name.
InsertMember(v, key, x) ==
  Object([q \in DOMAIN v.members \cup {key} |->
             IF q = key THEN x ELSE v.members[q]])

\* obj.remove(key)
RemoveMember(v, key) ==
  Object([q \in DOMAIN v.members \ {key} |-> v.members[q]])

-----------------------------------------------------------------------------
(* QJsonArray; positions are 0-based as in the code *)

Size(v) == Len(v.elements)

\* arr.at(pos), for 0 <= pos < size
ElementAt(v, pos) == v.elements[pos + 1]

\* arr.insert(pos, x), for 0 <= pos <= size; pos = size appends
InsertElement(v, pos, x) == Array(InsertAt(v.elements, pos + 1, x))

\* arr.replace(pos, x), for 0 <= pos < size
ReplaceElement(v, pos, x) == Array(ReplaceAt(v.elements, pos + 1, x))

\* arr.removeAt(pos), for 0 <= pos < size
RemoveElement(v, pos) == Array(RemoveAt(v.elements, pos + 1))

-----------------------------------------------------------------------------

\* The children a container holds.
Children(v) ==
  IF IsObject(v) THEN {v.members[q] : q \in DOMAIN v.members}
  ELSE IF IsArray(v) THEN {v.elements[j] : j \in 1..Len(v.elements)}
  ELSE {}

\* One level of well-formedness: a container is what its type says and nothing
\* else, and there is one undefined value.
WellShaped(v) ==
  /\ v.kind \in {"null", "undefined", "bool", "double", "string", "object", "array"}
  /\ IsUndefined(v) => v = Undefined
  /\ IsObject(v) => v = Object(v.members) /\ v.members \in [DOMAIN v.members -> Children(v)]
  /\ IsArray(v) => v = Array(v.elements) /\ v.elements \in Seq(Children(v))

\* S holds every value reachable from its members, and all are well shaped.
DownwardClosed(S) == \A v \in S : WellShaped(v) /\ Children(v) \subseteq S

=============================================================================
