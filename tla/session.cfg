CONSTANTS
  XDPSettings = {FALSE, TRUE}
  ScreensaverSettings = {FALSE, TRUE}
  MaxFaults = 2
  MaxFrame = 2
  MaxQueue = 3
SPECIFICATION SessionSpec
INVARIANTS SessionTypeOK SessionAgreement EchoIsMine SoundKnownByFrame
PROPERTY ReconnectsOverUDP
CHECK_DEADLOCK FALSE
