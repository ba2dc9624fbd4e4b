CONSTANTS
  MaxByte = 3
  HeaderLen = 3
  MaxMessage = 2
  MaxStream = 7
SPECIFICATION Spec
INVARIANT TypeOK
INVARIANT BuffersFit
INVARIANT ChunkingIrrelevant
PROPERTY FeedReturns
