\* Calls one after the other, a fetcher with one answer per URI.
CONSTANTS
  x = x
  y = y
  z = z
  NoUri = NoUri
  NoDoc = NoDoc
  Uris = {x, y, z}
  Docs <- LinkDocs
  Answers <- LinkAnswers
  MaxPasses = 16
  MaxCalls = 2
  MaxDepth = 0
SPECIFICATION FairSpec
INVARIANTS ObtainedOnce LinksWhatIsReachable
PROPERTIES CallsReturn
CHECK_DEADLOCK FALSE
