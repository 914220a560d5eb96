\* Two calls in a row on one variable: what the second sees of the first.
CONSTANTS
  U16Max = 65535
  MaxCalls = 2
  Json <- MCJson
  Values <- MCValues
  Pointers <- MCPointers
SPECIFICATION FairSpec
INVARIANTS TypeOK ReadYourWrite
PROPERTIES StrongGuarantee FrameUntouched ImplementsAPI CallsReturn
CHECK_DEADLOCK FALSE
