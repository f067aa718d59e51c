CONSTANTS
  Packets <- SessionPackets
  BlitSettings = {0}
  ScreensaverSettings = {0}
  VgaFrames = {0}
  FrameMod = 4
  DdrFrameMod = 4
  NoPoc = NoPoc
  NoPacket = NoPacket
SPECIFICATION FairSpec
PROPERTIES
  HandlersReturn
CHECK_DEADLOCK FALSE
