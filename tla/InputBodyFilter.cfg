CONSTANTS
  Byte = {"a", "b", "c", "d"}
  Supply <- MCSupply
  MaxBuckets = 6
SPECIFICATION ChainSpec
INVARIANTS
  Conservation
  Reversed
  UndoesItself
  LeftOnlyByFailure
PROPERTIES
  EveryCallReturns
  ImplementsBodyStream
