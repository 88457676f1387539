SPECIFICATION ConnSpec
CONSTANTS
  wbufsize = 21
  WSHDR_LEN2 = 3
  Lengths = {1, 4}
  PingLengths = {1, 4}
  MaxFrames = 4
INVARIANT NoOverrun
CHECK_DEADLOCK FALSE
