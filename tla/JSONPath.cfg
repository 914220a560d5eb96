\* One thread compiles and evaluates, another compiles at the same time.
CONSTANTS
  t1 = t1
  t2 = t2
  Threads = {t1, t2}
  Texts <- MCTexts
  Docs <- MCDocs
  Queries <- MCQueries
  Letters = {"a", "b"}
  Literals <- MCLiterals
  KeyOrder <- MCKeyOrder
  Json <- MCJson
  Nesting <- MCNesting
  IntMax = 50
  SafeInt = 100
  SizeMax = 1000
  CodeUnits <- MCCodeUnits
  MaxGroups = 10
SPECIFICATION Spec
INVARIANTS NamesAsSpelled NodesAsMeant SquashAsDocumented DescendsInOrder GroupsApart
CHECK_DEADLOCK FALSE
