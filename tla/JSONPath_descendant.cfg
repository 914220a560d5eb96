\* A name behind ".." swallows the segment behind it.
CONSTANTS
  t1 = t1
  t2 = t2
  Threads = {t1, t2}
  Texts <- DescendantTexts
  Docs <- MCDocs
  Queries <- BehindDescendant
  Letters = {"a", "b"}
  Literals <- MCLiterals
  KeyOrder <- MCKeyOrder
  Json <- MCJson
  Nesting <- MCNesting
  IntMax = 50
  SafeInt = 100
  SizeMax = 1000
  CodeUnits <- MCCodeUnits
  MaxGroups = 10
SPECIFICATION Spec
INVARIANT NodesAsMeant
CHECK_DEADLOCK FALSE
