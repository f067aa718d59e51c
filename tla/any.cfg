CONSTANTS
  Packets <- AnyPackets
  BlitSettings = {0, 1}
  ScreensaverSettings = {1}
  VgaFrames = {0, 3}
  FrameMod = 4
  DdrFrameMod = 4
  NoPoc = NoPoc
  NoPacket = NoPacket
SPECIFICATION FairSpec
INVARIANTS
  TypeOK
  PriorityWhileReceiving
  ReceptionSound
  HeaderHonest
  ChunkCountBounded
  LogoOnlyWhenDisconnected
PROPERTIES
  KeepsReception
  HandlersReturn
  ZoneToldIsZoneWritten
