SPECIFICATION ConnSpec
CONSTANTS
  wbufsize = 21
  WSHDR_LEN2 = 3
  Lengths = {1, 4}
  PingLengths = {1}
  MaxFrames = 4
INVARIANTS
  ClientServed
PROPERTIES
  CloseEnds
  FramesLeave
CHECK_DEADLOCK FALSE
