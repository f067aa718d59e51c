CONSTANTS
  Packets <- StreamPackets
  Modes <- LongTails
  Sizes = {2928, 4392}
  Compressions = {0, 1}
  Sounds = {2944, 1460}
  MaxFrame = 3
  MaxLosses = 2
  BlitSettings = {0, 1}
  ScreensaverSettings = {0}
  VgaFrames = {0}
  FrameMod = 16
  DdrFrameMod = 16
  NoPoc = NoPoc
  NoPacket = NoPacket
SPECIFICATION StreamSpec
PROPERTIES
  CleanFrameCompletes
  CleanSoundPlays
  FrameIntegrity
CHECK_DEADLOCK FALSE
