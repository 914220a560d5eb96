\* Every single operation, every operation with its inverse, and all patches of
\* up to three operations out of a few, on every document of the
\* instance; and every document merged with every other.
CONSTANTS
  U16Max = 65535
  DoubleExact = 1024
  Json <- MCJson
  Nesting <- MCNesting
  Documents <- MCDocuments
  Patches <- AllPatches
  Paths <- MCPaths
  DeepEquals <- JsonDeepEquals
SPECIFICATION FairSpec
INVARIANTS ErrorNamesOp UndoRestores MergesAsMeant
PROPERTIES Atomic MoveConserves TestMeansEqual ApplyFinishes
CHECK_DEADLOCK FALSE
