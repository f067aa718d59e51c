CONSTANTS
  WordBytes = 4
  Nibble = 3
  MinMatch = 2
  BlocksSize = 2
  WindowSize = 4
  ChunkBytes = 12
  Frames <- MCFrames
SPECIFICATION FairLz4Spec
INVARIANTS
  DecodesPrefix
  DoneIsWhole
  UnreadIntact
PROPERTY EveryFrameDecoded
CHECK_DEADLOCK FALSE
