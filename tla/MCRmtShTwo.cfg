SPECIFICATION Spec
CONSTANTS
  Sessions = {s1, s2}
  None = None
  UPBUFSZ = 2
  DNBUFSZ = 2
  WS_CHUNKS = 2
  SENDBUF = 3
  TTYSZ = 1
  Lengths = {1}
  MaxOut = 2
  MaxIn = 2
  MaxStarts = 3
INVARIANTS
  StreamsWhole
  PeerInformed
SYMMETRY Symmetry
CHECK_DEADLOCK FALSE
