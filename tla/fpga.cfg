CONSTANTS
  PixelBytes = 3
  ChunkBytes = 16
  WordBytes = 8
  MaxBurst = 2
  Byte = 3
  Modes = {6}
  DefaultPixels = 7
  BlitSettings = {0, 1}
  MaxFrame = 2
  MaxBlits = 2
  MaxModes = 2
  MaxUpsets = 1
SPECIFICATION FairBlitSpec
INVARIANTS
  FpgaTypeOK
  VramAligned
PROPERTIES
  DrawsWhatCame
  OwnModeline
  FramesSettle
CHECK_DEADLOCK FALSE
