CONSTANTS
  Devices = {"joystick"}
  DoInputs <- Sticks
  doXDPServer = TRUE
  hpsBlit = 0
  OrderMod = 4
  Wraps = FALSE
  KeepAliveFrames = 2
  Values = {0, 1}
  MaxFrame = 4
  MaxSent = 2
  MaxSockets = 2
  MaxLost = 1
SPECIFICATION InputSpec
INVARIANTS InputTypeOK LastReportHeld RepeatedInTime
PROPERTY NeverGoesBack
CHECK_DEADLOCK FALSE
