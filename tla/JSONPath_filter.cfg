\* Every filter of up to three tests on which the code agrees with RFC 9535, and texts that are none.
CONSTANTS
  Cases <- MCCases
  Filters <- MCFilters
  Letters = {"a", "b"}
  Literals <- MCLiterals
  LooseLiterals <- MCLoose
  KeyOrder <- MCKeyOrder
  Json <- MCJson
  Nesting <- MCNesting
  UnitRank <- MCUnitRank
  ScalarRank <- MCScalarRank
  Wide = {"wide"}
  FuzzyScale = 50
  IntMax = 200
  SafeInt = 1000
  SizeMax = 2000
SPECIFICATION Spec
INVARIANTS FiltersOnly KeptAsMeant
CHECK_DEADLOCK FALSE
