CONSTANTS
  Byte = {1, 2, 3, 4, 5}
  MaxLen = 5
  BufSize = 2
SPECIFICATION Spec
INVARIANTS
  EchoIsTheBody
  NoPartialEcho
  EatenTotalTells
  TrailerEndsTheBody
PROPERTY
  Answered
