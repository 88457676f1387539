SPECIFICATION Spec
CONSTANTS
  Sessions = {s1}
  None = None
  UPBUFSZ = 4
  DNBUFSZ = 2
  WS_CHUNKS = 2
  SENDBUF = 3
  TTYSZ = 2
  Lengths = {1, 2}
  MaxOut = 4
  MaxIn = 3
  MaxStarts = 3
INVARIANTS
  StreamsWhole
  PeerInformed
PROPERTIES
  StopsForCause
  InputTyped
CHECK_DEADLOCK FALSE
