CONSTANTS
  Devices = {"ps2"}
  DoInputs <- Keys
  doXDPServer = FALSE
  hpsBlit = 0
  OrderMod = 4
  Wraps = FALSE
  KeepAliveFrames = 2
  Values = {0, 1}
  MaxFrame = 1
  MaxSent = 3
  MaxSockets = 1
  MaxLost = 0
SPECIFICATION InputSpec
INVARIANTS ClientListens
CHECK_DEADLOCK FALSE
