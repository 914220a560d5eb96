----------------------------- MODULE JsonEquality -----------------------------
(* jsonDeepEquals: the equality of the "test" operation (RFC 6902, 4.6).     *)
EXTENDS JsonValue

CONSTANT
  DoubleExact   \* integers up to here have their own double: 2^53 in the code

ASSUME DoubleExactAssumption == DoubleExact \in Nat /\ DoubleExact % 4 = 0

\* QJsonValue::toDouble of an integer in the first binade where doubles are
\* two apart: ties go to the even significand.
ToDouble(n) ==
  IF n <= DoubleExact \/ n % 2 = 0 THEN n
  ELSE IF (n + 1) % 4 = 0 THEN n + 1 ELSE n - 1

\* Mutant: every member of a is looked up in b, but the sizes are not compared.
RECURSIVE EqualsWithoutSize(_, _)
EqualsWithoutSize(a, b) ==
  IF a.kind = "double" /\ b.kind = "double" THEN ToDouble(a.num) = ToDouble(b.num)
  ELSE IF a.kind # b.kind THEN FALSE
  ELSE IF IsObject(a)
       THEN \A q \in DOMAIN a.members :
              HasMember(b, q) /\ EqualsWithoutSize(a.members[q], b.members[q])
  ELSE a = b

RECURSIVE JsonDeepEquals(_, _)
JsonDeepEquals(a, b) ==
  IF a.kind = "double" /\ b.kind = "double" THEN ToDouble(a.num) = ToDouble(b.num)
  ELSE IF a.kind # b.kind THEN FALSE
  ELSE IF IsObject(a)
       THEN /\ DOMAIN a.members = DOMAIN b.members
            /\ \A q \in DOMAIN a.members : JsonDeepEquals(a.members[q], b.members[q])
  ELSE IF IsArray(a)
       THEN /\ Size(a) = Size(b)
            /\ \A j \in 1..Size(a) : JsonDeepEquals(a.elements[j], b.elements[j])
  ELSE a = b
=============================================================================
