\* Every short pointer; the patches of two operations made from some of them;
\* operation indices are saturated at 1, numbers above 21 overflow.
CONSTANTS
  LongLongMax = 21
  MaxTokens = 2
  MaxOps = 2
  OpIndexMax = 1
  Inputs <- MCInputs
  Keys <- MCKeys
  Indices <- MCIndices
  Handed <- MCHanded
  RawTexts <- MCRawTexts
  Values <- MCValues
  Documents <- MCDocuments
SPECIFICATION WireSpec
INVARIANTS CreateFaithful ReparseAgrees FirstFault CallsKept WireRoundTrip
CHECK_DEADLOCK FALSE
