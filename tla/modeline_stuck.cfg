CONSTANTS
  PixelBytes = 3
  ChunkBytes = 16
  WordBytes = 8
  MaxBurst = 2
  Byte = 3
  Modes = {6}
  DefaultPixels = 7
  BlitSettings = {0}
  MaxFrame = 2
  MaxBlits = 2
  MaxModes = 2
  MaxUpsets = 0
SPECIFICATION FairBlitSpec
PROPERTY ModelinesApplied
CHECK_DEADLOCK FALSE
