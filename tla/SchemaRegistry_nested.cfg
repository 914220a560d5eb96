\* The fetcher may fail, and may call the registry while it runs.
CONSTANTS
  x = x
  y = y
  z = z
  NoUri = NoUri
  NoDoc = NoDoc
  Uris = {x, y}
  Docs <- NestDocs
  Answers <- NestAnswers
  MaxPasses = 16
  MaxCalls = 3
  MaxDepth = 2
SPECIFICATION Spec
INVARIANTS NamedSchemas UnlinkedExcused
PROPERTIES OnlySuccessCaches
CHECK_DEADLOCK FALSE
