SPECIFICATION Spec
CONSTANTS
  Sessions = {s1}
  None = None
  UPBUFSZ = 4
  DNBUFSZ = 2
  WS_CHUNKS = 2
  SENDBUF = 3
  TTYSZ = 2
  Lengths = {1, 2}
  MaxOut = 5
  MaxIn = 4
  MaxStarts = 1
PROPERTY ReadNothingIsEof
CHECK_DEADLOCK FALSE
