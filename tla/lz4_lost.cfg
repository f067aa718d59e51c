CONSTANTS
  WordBytes = 4
  Nibble = 3
  MinMatch = 2
  BlocksSize = 2
  WindowSize = 4
  ChunkBytes = 8
  BlitSettings = {FALSE}
  MaxFrames = 2
  MaxFaults = 1
  Frames <- MCFrames
SPECIFICATION FairLz4BlitSpec
PROPERTY
  BegunIsFinished
CHECK_DEADLOCK FALSE
