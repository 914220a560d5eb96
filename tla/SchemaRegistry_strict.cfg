\* A lenient compilation in tier 1 answers a strict call.
CONSTANTS
  x = x
  y = y
  z = z
  NoUri = NoUri
  NoDoc = NoDoc
  Uris = {x, y}
  Docs <- NestDocs
  Answers <- NestAnswers
  MaxPasses = 16
  MaxCalls = 2
  MaxDepth = 0
SPECIFICATION Spec
INVARIANT StrictIsLinked
CHECK_DEADLOCK FALSE
