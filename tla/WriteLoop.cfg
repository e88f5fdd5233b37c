CONSTANTS
  SizeMod = 32
  IntMod = 8
  DefaultBuff = 3
  Queries <- MCQueries
SPECIFICATION Spec
INVARIANTS
  LenInBuffer
  ExactOutput
  FailureReported
PROPERTY
  Terminates
