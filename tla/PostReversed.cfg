CONSTANTS
  Byte = {1, 2, 3}
  MaxLen = 3
  BufSize = 2
SPECIFICATION Spec
INVARIANT
  WholeBodyReversed
