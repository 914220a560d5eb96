\* Every document of the instance.
CONSTANTS
  Docs <- MCDocs
  Authorities <- MCAuthorities
  MaxPasses <- MCMaxPasses
SPECIFICATION FairSpec
INVARIANTS IndicesValid BaseIsLexical LinkedUnlessCutOff ScopesAsMeant
PROPERTY Finishes
CHECK_DEADLOCK FALSE
