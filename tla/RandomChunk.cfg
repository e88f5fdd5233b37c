CONSTANTS
  SizeMod = 16
  IntMod = 8
  MaxSegment = 3
  OneWeight = 1
SPECIFICATION ChunkSpec
INVARIANTS
  AnnouncedTotal
  CountOfThings
PROPERTY
  ChunkTerminates
